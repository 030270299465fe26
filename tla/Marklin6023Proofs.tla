------------------------- MODULE Marklin6023Proofs -------------------------
(***************************************************************************)
(* The 6023's kernel, for every number of contacts, every queue limit and  *)
(* every set of settings: its variables keep their types, its queue its    *)
(* timer, the contact cycle its one carrier, and what it reports is what   *)
(* an abstract receiver reports.                                           *)
(*                                                                         *)
(* Every send maps one state of the kernel to the next. Good says what     *)
(* holds between two handlers, Ready what a handler has made true when it  *)
(* queries the next contact.                                               *)
(***************************************************************************)
EXTENDS Marklin6023, SequenceLemmas

KernelState ==
  [queue: Seq(Frame), armed: BOOLEAN, overflow: BOOLEAN, repeating: Nat, cycle: BOOLEAN,
   next: 1..(Contacts + 1), last: Frame, waiting: BOOLEAN, watchdog: BOOLEAN,
   timeouts: 0..MaxTimeouts, answers: Seq(Contact), reported: Frame,
   late: BOOLEAN, stale: BOOLEAN, queryLost: BOOLEAN]

NoQuery(queue) == \A i \in 1..Len(queue) : queue[i] = Command
OneQuery(queue, c) ==
  \E i \in 1..Len(queue) :
    queue[i] = c /\ \A j \in 1..Len(queue) : j # i => queue[j] = Command

\* The queue.
Fits(k) == k \in KernelState /\ Len(k.queue) <= QueueLimit
Told(k) ==
  /\ Len(k.queue) >= QueueLimit => k.overflow
  /\ 2 * Len(k.queue) < QueueLimit => ~k.overflow
Served(k) == Fits(k) /\ (k.queue # <<>> => k.armed) /\ Told(k)

\* The cycle: its carrier, the watchdog of a query that was sent, and the answers: on
\* a line without late ones only the query that is awaited can be answered.
Watched(k) == k.waiting => k.watchdog \/ k.timeouts > 0
Carried(k) ==
  \/ k.queryLost /\ ~k.cycle /\ ~k.waiting /\ NoQuery(k.queue)
  \/ ~k.queryLost /\ k.cycle /\ ~k.waiting /\ NoQuery(k.queue)
  \/ ~k.queryLost /\ ~k.cycle /\ k.waiting /\ NoQuery(k.queue)
  \/ ~k.queryLost /\ ~k.cycle /\ ~k.waiting /\ OneQuery(k.queue, k.next)
Answerable(k) == k.late \/ k.answers = <<>> \/ (k.waiting /\ k.answers = <<k.next>>)

Good(k) ==
  /\ Served(k) /\ k.next \in Contact /\ Watched(k)
  /\ ~k.stale => Carried(k) /\ Answerable(k)

\* Nobody carries the cycle on, and nothing that is not late is on its way.
Ready(k) ==
  /\ Served(k) /\ Watched(k)
  /\ ~k.stale => /\ ~k.queryLost /\ ~k.cycle /\ ~k.waiting /\ NoQuery(k.queue)
                 /\ k.late \/ k.answers = <<>>

\* The inductive invariant.
IInv == TypeOK /\ (online => Good(Kernel))

-----------------------------------------------------------------------------
(* Queues with and without a query.                                        *)

LEMMA Constants ==
  /\ Contacts \in Nat \ {0} /\ QueueLimit \in Nat \ {0} /\ MaxTimeouts \in Nat
  /\ Contact \subseteq Nat \ {0} /\ Contact \subseteq Frame /\ Command \in Frame
  /\ Command \notin Contact
BY SettingsAssumption DEF Contact, Frame, Command, NoContact

LEMMA AppendedQuery ==
  ASSUME NEW q \in Seq(Frame), NEW c
  PROVE  /\ NoQuery(q) => OneQuery(Append(q, c), c)
         /\ NoQuery(q) => NoQuery(Append(q, Command))
         /\ OneQuery(q, c) => OneQuery(Append(q, Command), c)
<1>1. /\ Len(q) \in Nat /\ Len(Append(q, c)) = Len(q) + 1 /\ Append(q, c)[Len(q) + 1] = c
      /\ \A i \in 1..Len(q) : Append(q, c)[i] = q[i]
  OBVIOUS
<1>2. /\ Len(Append(q, Command)) = Len(q) + 1 /\ Append(q, Command)[Len(q) + 1] = Command
      /\ \A i \in 1..Len(q) : Append(q, Command)[i] = q[i]
  OBVIOUS
<1>3. ASSUME NoQuery(q)
      PROVE  OneQuery(Append(q, c), c)
  BY <1>1, <1>3 DEF NoQuery, OneQuery
<1>4. ASSUME NoQuery(q)
      PROVE  NoQuery(Append(q, Command))
  BY <1>1, <1>2, <1>4 DEF NoQuery
<1>5. ASSUME OneQuery(q, c)
      PROVE  OneQuery(Append(q, Command), c)
  <2>1. PICK i \in 1..Len(q) : q[i] = c /\ \A j \in 1..Len(q) : j # i => q[j] = Command
    BY <1>5 DEF OneQuery
  <2>2. i \in 1..Len(Append(q, Command)) /\ Append(q, Command)[i] = c
    BY <1>1, <1>2, <2>1
  <2>3. \A j \in 1..Len(Append(q, Command)) : j # i => Append(q, Command)[j] = Command
    BY <1>1, <1>2, <2>1
  <2> QED
    BY <2>2, <2>3 DEF OneQuery
<1> QED
  BY <1>3, <1>4, <1>5

LEMMA TailQuery ==
  ASSUME NEW q \in Seq(Frame), q # <<>>, NEW c \in Contact
  PROVE  /\ NoQuery(q) => Head(q) = Command /\ NoQuery(Tail(q))
         /\ OneQuery(q, c) /\ Head(q) = Command => OneQuery(Tail(q), c)
         /\ OneQuery(q, c) /\ Head(q) # Command => Head(q) = c /\ NoQuery(Tail(q))
<1>1. /\ Len(q) \in Nat \ {0} /\ Head(q) = q[1] /\ Len(Tail(q)) = Len(q) - 1
      /\ \A i \in 1..(Len(q) - 1) : Tail(q)[i] = q[i + 1]
  BY EmptySeq, HeadTailProperties
<1>2. ASSUME NoQuery(q)
      PROVE  Head(q) = Command /\ NoQuery(Tail(q))
  BY <1>1, <1>2 DEF NoQuery
<1>3. ASSUME OneQuery(q, c), Head(q) = Command
      PROVE  OneQuery(Tail(q), c)
  <2>1. PICK i \in 1..Len(q) : q[i] = c /\ \A j \in 1..Len(q) : j # i => q[j] = Command
    BY <1>3 DEF OneQuery
  <2>2. i # 1
    BY <1>1, <1>3, <2>1, Constants
  <2>3. i - 1 \in 1..Len(Tail(q)) /\ Tail(q)[i - 1] = c
    BY <1>1, <2>1, <2>2
  <2>4. \A j \in 1..Len(Tail(q)) : j # i - 1 => Tail(q)[j] = Command
    BY <1>1, <2>1, <2>2
  <2> QED
    BY <2>3, <2>4 DEF OneQuery
<1>4. ASSUME OneQuery(q, c), Head(q) # Command
      PROVE  Head(q) = c /\ NoQuery(Tail(q))
  <2>1. PICK i \in 1..Len(q) : q[i] = c /\ \A j \in 1..Len(q) : j # i => q[j] = Command
    BY <1>4 DEF OneQuery
  <2>2. i = 1
    BY <1>1, <1>4, <2>1
  <2> QED
    BY <1>1, <2>1, <2>2 DEF NoQuery
<1> QED
  BY <1>2, <1>3, <1>4

-----------------------------------------------------------------------------
(* Sending.                                                                *)

\* What a frame that is written changes.
LEMMA Written ==
  ASSUME NEW k \in KernelState, NEW c \in Contact
  PROVE  LET r == WriteCmdNow(k, c) IN
         /\ r \in KernelState
         /\ r = [k EXCEPT !.answers = r.answers, !.late = r.late]
         /\ k.answers = <<>> => r.answers = <<c>> /\ ~r.late
         /\ k.answers # <<>> => (r.late <=> k.late)
<1> DEFINE answered == IF Len(k.answers) < MaxAnswers THEN Append(k.answers, c) ELSE k.answers
           still == k.late /\ k.answers # <<>>
<1>1. WriteCmdNow(k, c) = [k EXCEPT !.answers = answered, !.late = still]
  BY Constants DEF WriteCmdNow, KernelState
<1>2. answered \in Seq(Contact) /\ still \in BOOLEAN
  BY DEF KernelState
<1>3. k.answers = <<>> => answered = <<c>> /\ ~still
  BY SettingsAssumption
<1>4. k.answers # <<>> => (still <=> k.late)
  OBVIOUS
<1> HIDE DEF answered, still
<1> QED
  BY <1>1, <1>2, <1>3, <1>4 DEF KernelState

\* Whatever the queue has become, checking it for overflow and starting its timer
\* makes it served.
LEMMA Refreshed ==
  ASSUME NEW k, Fits(k)
  PROVE  LET r == ArmTxTimer(CheckTxOverflow(k)) IN
         /\ Served(r)
         /\ r = [k EXCEPT !.armed = r.armed, !.overflow = r.overflow]
<1> DEFINE c == CheckTxOverflow(k)
           armed == c.armed \/ c.queue # <<>>
<1>1. c \in KernelState /\ c.queue = k.queue /\ c = [k EXCEPT !.overflow = c.overflow]
  BY DEF Fits, KernelState, CheckTxOverflow
<1>2. Told(c)
  BY Constants DEF Fits, KernelState, CheckTxOverflow, Told
<1> HIDE DEF c
<1>3. ArmTxTimer(c) = [c EXCEPT !.armed = armed] /\ armed \in BOOLEAN
  BY <1>1 DEF ArmTxTimer, KernelState
<1>4. c.queue # <<>> => armed
  OBVIOUS
<1> HIDE DEF armed
<1>5. Served([c EXCEPT !.armed = armed])
  BY <1>1, <1>2, <1>3, <1>4 DEF Served, Fits, Told, KernelState
<1>6. [c EXCEPT !.armed = armed] = [k EXCEPT !.armed = armed, !.overflow = c.overflow]
  BY <1>1 DEF KernelState, Fits
<1> QED
  BY <1>1, <1>3, <1>5, <1>6 DEF c, KernelState, Fits

\* A frame is queued or, by a queue that is full, dropped.
LEMMA Enqueued ==
  ASSUME NEW k, Served(k), NEW f \in Frame
  PROVE  LET r == EnqueueCmd(k, f) IN
         /\ Served(r)
         /\ \/ r = [k EXCEPT !.queue = Append(k.queue, f), !.armed = r.armed, !.overflow = r.overflow]
            \/ r = [k EXCEPT !.queryLost = r.queryLost] /\ (r.queryLost <=> k.queryLost \/ f # Command)
<1>1. CASE Len(k.queue) >= QueueLimit
  <2> DEFINE lost == k.queryLost \/ f # Command
  <2>1. CheckTxOverflow(k) = [k EXCEPT !.overflow = TRUE] /\ k.overflow = TRUE
    BY <1>1 DEF Served, Fits, Told, KernelState, CheckTxOverflow
  <2>2. EnqueueCmd(k, f) = [k EXCEPT !.queryLost = lost] /\ lost \in BOOLEAN
    BY <1>1, <2>1 DEF EnqueueCmd, Served, Fits, KernelState
  <2>3. lost <=> k.queryLost \/ f # Command
    OBVIOUS
  <2> HIDE DEF lost
  <2> QED
    BY <2>2, <2>3 DEF Served, Fits, Told, KernelState
<1>2. CASE ~(Len(k.queue) >= QueueLimit)
  <2> DEFINE queue == Append(k.queue, f)
             longer == [k EXCEPT !.queue = queue]
  <2>0. k \in KernelState /\ queue \in Seq(Frame) /\ Len(queue) <= QueueLimit
    BY <1>2, Constants DEF Served, Fits, KernelState
  <2>1. EnqueueCmd(k, f) = ArmTxTimer(CheckTxOverflow(longer))
    BY <1>2 DEF EnqueueCmd
  <2> HIDE DEF queue
  <2>2. Fits(longer)
    BY <2>0 DEF Fits, KernelState
  <2> HIDE DEF longer
  <2> DEFINE r == ArmTxTimer(CheckTxOverflow(longer))
  <2>3. Served(r) /\ r = [longer EXCEPT !.armed = r.armed, !.overflow = r.overflow]
    BY <2>2, Refreshed
  <2> HIDE DEF r
  <2>4. r = [k EXCEPT !.queue = queue, !.armed = r.armed, !.overflow = r.overflow]
    BY <2>0, <2>3 DEF longer, KernelState
  <2> QED
    BY <2>1, <2>3, <2>4 DEF r, queue
<1> QED
  BY <1>1, <1>2

\* A command, which nobody answers, is sent without any effect on the cycle.
LEMMA CommandGood ==
  ASSUME NEW k, Good(k)
  PROVE  LET r == SendCmd(k, Command) IN
         Good(r) /\ r.answers = k.answers /\ r.reported = k.reported
                 /\ (r.late <=> k.late) /\ (r.stale <=> k.stale)
<1>1. CASE ~config.commandQueue
  BY <1>1 DEF SendCmd, WriteCmdNow
<1>2. CASE config.commandQueue
  <2> DEFINE r == EnqueueCmd(k, Command)
  <2>1. SendCmd(k, Command) = r
    BY <1>2 DEF SendCmd
  <2>2. k \in KernelState /\ Served(k) /\ k.next \in Contact /\ Watched(k)
    BY DEF Good, Served, Fits
  <2>3. Served(r)
        /\ \/ r = [k EXCEPT !.queue = Append(k.queue, Command), !.armed = r.armed, !.overflow = r.overflow]
           \/ r = [k EXCEPT !.queryLost = r.queryLost] /\ (r.queryLost <=> k.queryLost)
    BY <2>2, Constants, Enqueued
  <2> HIDE DEF r
  <2>4. /\ r.cycle = k.cycle /\ r.waiting = k.waiting /\ r.watchdog = k.watchdog
        /\ r.timeouts = k.timeouts /\ r.next = k.next /\ r.answers = k.answers
        /\ r.reported = k.reported /\ (r.late <=> k.late) /\ (r.stale <=> k.stale)
        /\ (r.queryLost <=> k.queryLost)
        /\ r.queue \in {k.queue, Append(k.queue, Command)}
    BY <2>2, <2>3 DEF KernelState
  <2>5. k.queue \in Seq(Frame)
    BY <2>2 DEF KernelState
  <2>6. ~k.stale => Carried(k)
    BY DEF Good
  <2>7. Carried(k) => Carried(r)
    BY <2>4, <2>5, AppendedQuery DEF Carried
  <2>8. Watched(r) /\ (Answerable(k) => Answerable(r))
    BY <2>2, <2>4 DEF Watched, Answerable
  <2> QED
    BY <2>1, <2>2, <2>3, <2>4, <2>6, <2>7, <2>8 DEF Good
<1> QED
  BY <1>1, <1>2

-----------------------------------------------------------------------------
(* The contact cycle.                                                      *)

\* What is on the line after the next contact was queried: what was, or its answer
\* alone on a line that is sound from then on, or something that is late.
Asked(k, r) ==
  /\ r.reported = k.reported /\ (r.stale <=> k.stale)
  /\ \/ r.answers = k.answers /\ (r.late <=> k.late)
     \/ k.answers = <<>> /\ r.answers \in Seq(Contact) /\ ~r.late
     \/ k.answers # <<>> /\ (r.late <=> k.late)

LEMMA QueriedInQueue ==
  ASSUME NEW k, Ready(k), k.next \in Contact
  PROVE  LET r == EnqueueCmd([k EXCEPT !.last = k.next], k.next) IN Good(r) /\ Asked(k, r)
<1> DEFINE asked == [k EXCEPT !.last = k.next]
           r == EnqueueCmd(asked, k.next)
<1>1. k \in KernelState /\ Served(k) /\ Watched(k) /\ k.next \in Frame /\ k.next # Command
  BY Constants DEF Ready, Served, Fits
<1>2. Served(asked) /\ asked \in KernelState
  BY <1>1 DEF Served, Fits, Told, KernelState
<1>3. /\ asked.cycle = k.cycle /\ asked.waiting = k.waiting /\ asked.watchdog = k.watchdog
      /\ asked.timeouts = k.timeouts /\ asked.next = k.next /\ asked.answers = k.answers
      /\ asked.reported = k.reported /\ (asked.late <=> k.late) /\ (asked.stale <=> k.stale)
      /\ asked.queue = k.queue /\ (asked.queryLost <=> k.queryLost)
  BY <1>1 DEF KernelState
<1> HIDE DEF asked
<1>4. Served(r)
      /\ \/ r = [asked EXCEPT !.queue = Append(asked.queue, k.next), !.armed = r.armed,
                              !.overflow = r.overflow]
         \/ r = [asked EXCEPT !.queryLost = r.queryLost]
            /\ (r.queryLost <=> asked.queryLost \/ k.next # Command)
  BY <1>1, <1>2, Enqueued
<1> HIDE DEF r
<1>5. /\ r.cycle = asked.cycle /\ r.waiting = asked.waiting /\ r.watchdog = asked.watchdog
      /\ r.timeouts = asked.timeouts /\ r.next = asked.next /\ r.answers = asked.answers
      /\ r.reported = asked.reported /\ r.late = asked.late /\ r.stale = asked.stale
      /\ \/ r.queue = Append(k.queue, k.next) /\ r.queryLost = asked.queryLost
         \/ r.queue = k.queue /\ r.queryLost
  <2>1. CASE r = [asked EXCEPT !.queue = Append(asked.queue, k.next), !.armed = r.armed,
                               !.overflow = r.overflow]
    <3> DEFINE longer == Append(asked.queue, k.next)
    <3>1. r = [asked EXCEPT !.queue = longer, !.armed = r.armed, !.overflow = r.overflow]
      BY <2>1
    <3>2. longer = Append(k.queue, k.next)
      BY <1>3
    <3> HIDE DEF longer
    <3>3. r.queue = longer /\ r.queryLost = asked.queryLost
      BY <1>2, <3>1 DEF KernelState
    <3>4. /\ r.cycle = asked.cycle /\ r.waiting = asked.waiting /\ r.watchdog = asked.watchdog
          /\ r.timeouts = asked.timeouts /\ r.next = asked.next /\ r.answers = asked.answers
          /\ r.reported = asked.reported /\ r.late = asked.late /\ r.stale = asked.stale
      BY <1>2, <3>1 DEF KernelState
    <3> QED
      BY <3>2, <3>3, <3>4
  <2>2. CASE r = [asked EXCEPT !.queryLost = r.queryLost]
             /\ (r.queryLost <=> asked.queryLost \/ k.next # Command)
    BY <1>1, <1>2, <1>3, <2>2 DEF KernelState
  <2> QED
    BY <1>4, <2>1, <2>2
<1>6. k.queue \in Seq(Frame)
  BY <1>1 DEF KernelState
<1>7. ~r.stale => Carried(r)
  <2> SUFFICES ASSUME ~r.stale
               PROVE  Carried(r)
    OBVIOUS
  <2>1. ~k.queryLost /\ ~k.cycle /\ ~k.waiting /\ NoQuery(k.queue)
    BY <1>3, <1>5 DEF Ready
  <2>2. ~r.cycle /\ ~r.waiting /\ r.next = k.next
    BY <1>3, <1>5, <2>1
  <2>3. CASE r.queue = Append(k.queue, k.next) /\ r.queryLost = asked.queryLost
    BY <1>3, <1>6, <2>1, <2>2, <2>3, AppendedQuery DEF Carried
  <2>4. CASE r.queue = k.queue /\ r.queryLost
    BY <2>1, <2>2, <2>4 DEF Carried
  <2> QED
    BY <1>5, <2>3, <2>4
<1>8. Watched(r) /\ (~r.stale => Answerable(r))
  BY <1>1, <1>3, <1>5 DEF Watched, Ready, Answerable
<1>9. Asked(k, r)
  BY <1>3, <1>5 DEF Asked
<1> QED
  BY <1>3, <1>4, <1>5, <1>7, <1>8, <1>9 DEF Good, r, asked

LEMMA QueriedAtOnce ==
  ASSUME NEW k, Ready(k), k.next \in Contact
  PROVE  LET r == QuerySent(WriteCmdNow([k EXCEPT !.last = k.next], k.next))
         IN  Good(r) /\ Asked(k, r)
<1> DEFINE asked == [k EXCEPT !.last = k.next]
           w == WriteCmdNow(asked, k.next)
           r == QuerySent(w)
<1>1. k \in KernelState /\ Served(k) /\ k.next \in Frame
  BY Constants DEF Ready, Served, Fits
<1>2. asked \in KernelState /\ asked.answers = k.answers /\ (asked.late <=> k.late)
  BY <1>1 DEF KernelState
<1>3. /\ w \in KernelState
      /\ w = [asked EXCEPT !.answers = w.answers, !.late = w.late]
      /\ k.answers = <<>> => w.answers = <<k.next>> /\ ~w.late
      /\ k.answers # <<>> => (w.late <=> k.late)
  BY <1>2, Written
<1>4. /\ w.queue = k.queue /\ w.armed = k.armed /\ (w.overflow <=> k.overflow)
      /\ w.cycle = k.cycle /\ w.next = k.next /\ w.reported = k.reported
      /\ (w.stale <=> k.stale) /\ (w.queryLost <=> k.queryLost)
  BY <1>1, <1>3 DEF KernelState
<1> HIDE DEF asked, w
<1>5. r \in KernelState /\ r = [w EXCEPT !.waiting = TRUE, !.watchdog = TRUE]
  BY <1>3 DEF QuerySent, KernelState
<1> HIDE DEF r
<1>6. /\ r.waiting /\ r.watchdog /\ r.answers = w.answers /\ (r.late <=> w.late)
      /\ r.queue = k.queue /\ r.armed = k.armed /\ (r.overflow <=> k.overflow)
      /\ r.cycle = k.cycle /\ r.next = k.next /\ r.reported = k.reported
      /\ (r.stale <=> k.stale) /\ (r.queryLost <=> k.queryLost)
  BY <1>3, <1>4, <1>5 DEF KernelState
<1>7. Served(r) /\ Watched(r)
  BY <1>1, <1>5, <1>6 DEF Served, Fits, Told, Watched
<1>8. ~r.stale => Carried(r) /\ Answerable(r)
  BY <1>3, <1>6 DEF Ready, Carried, Answerable
<1>9. Asked(k, r)
  BY <1>3, <1>6 DEF Asked, KernelState
<1> QED
  BY <1>6, <1>7, <1>8, <1>9 DEF Good, r, w, asked

LEMMA CycleStarted ==
  ASSUME NEW k, Ready(k)
  PROVE  Good(StartS88Cycle(k)) /\ Asked(k, StartS88Cycle(k))
<1> DEFINE r == StartS88Cycle(k)
<1>1. k \in KernelState /\ Served(k)
  BY DEF Ready, Served, Fits
<1>2. r \in KernelState
  <2>1. 1 \in 1..(Contacts + 1) /\ NoContact \in Frame
    BY Constants DEF Command
  <2> QED
    BY <1>1, <2>1 DEF StartS88Cycle, KernelState
<1>3. /\ r.queue = k.queue /\ r.armed = k.armed /\ (r.overflow <=> k.overflow)
      /\ r.cycle /\ ~r.waiting /\ r.next = 1 /\ r.answers = k.answers
      /\ r.reported = k.reported /\ (r.late <=> k.late) /\ (r.stale <=> k.stale)
      /\ (r.queryLost <=> k.queryLost)
  BY <1>1 DEF StartS88Cycle, KernelState
<1> HIDE DEF r
<1>4. Served(r) /\ Watched(r) /\ r.next \in Contact
  BY <1>1, <1>2, <1>3, Constants DEF Served, Fits, Told, Watched, Contact
<1>5. ~r.stale => Carried(r) /\ Answerable(r)
  BY <1>3 DEF Ready, Carried, Answerable
<1>6. Asked(k, r)
  BY <1>3 DEF Asked
<1> QED
  BY <1>4, <1>5, <1>6 DEF Good, r

LEMMA Queried ==
  ASSUME NEW k, Ready(k)
  PROVE  Good(QueryNextContact(k)) /\ Asked(k, QueryNextContact(k))
<1>1. CASE k.next > Contacts
  BY <1>1, CycleStarted DEF QueryNextContact
<1>2. CASE ~(k.next > Contacts)
  <2>1. k.next \in Contact
    BY <1>2, Constants DEF Ready, Served, Fits, KernelState, Contact
  <2>2. QueryNextContact(k) = IF config.commandQueue
                              THEN EnqueueCmd([k EXCEPT !.last = k.next], k.next)
                              ELSE QuerySent(WriteCmdNow([k EXCEPT !.last = k.next], k.next))
    BY <1>2, <2>1 DEF QueryNextContact, Ready, Served, Fits, KernelState
  <2> QED
    BY <2>1, <2>2, QueriedInQueue, QueriedAtOnce
<1> QED
  BY <1>1, <1>2

-----------------------------------------------------------------------------
(* Handlers.                                                               *)

SessionInv == online \in BOOLEAN /\ config \in Config /\ cts \in BOOLEAN

LEMMA KernelGood ==
  ASSUME IInv, online
  PROVE  Good(Kernel) /\ Kernel \in KernelState /\ SessionInv
BY DEF IInv, TypeOK, SessionInv, Good, Served, Fits

\* Between two handlers the kernel is what the last one has made of it.
LEMMA BecomesGood ==
  ASSUME NEW k, Good(k), Becomes(k), SessionInv'
  PROVE  IInv' /\ Kernel' = k
<1>1. k \in KernelState /\ k.next \in Contact /\ Len(k.queue) <= QueueLimit
  BY DEF Good, Served, Fits
<1>2. Kernel' = k
  BY <1>1 DEF Becomes, Kernel, KernelState
<1>3. /\ txQueue' = k.queue /\ txTimerArmed' = k.armed /\ txOverflowFired' = k.overflow
      /\ redundancyTimers' = k.repeating /\ s88Timer' = k.cycle /\ s88NextContact' = k.next
      /\ s88LastQueried' = k.last /\ s88WaitingReply' = k.waiting
      /\ s88ResponseTimer' = k.watchdog /\ timeouts' = k.timeouts /\ answers' = k.answers
      /\ reported' = k.reported /\ late' = k.late /\ stale' = k.stale
      /\ queryLost' = k.queryLost
  BY DEF Becomes
<1>4. TypeOK'
  BY <1>1, <1>3 DEF TypeOK, SessionInv, KernelState, Frame, Command
<1> QED
  BY <1>2, <1>4 DEF IInv

LEMMA S88TimerGood ==
  ASSUME IInv, online, S88Timer
  PROVE  \E k, r : Ready(k) /\ Good(r) /\ Asked(k, r) /\ Becomes(r)
                   /\ k.answers = answers /\ k.reported = reported
                   /\ (k.late <=> late) /\ (k.stale <=> stale)
                   /\ (~stale => late \/ answers = <<>>)
<1> DEFINE k == [Kernel EXCEPT !.cycle = FALSE]
<1>1. Good(Kernel) /\ Kernel \in KernelState
  BY KernelGood
<1>2. /\ k.queue = Kernel.queue /\ k.armed = Kernel.armed /\ (k.overflow <=> Kernel.overflow)
      /\ ~k.cycle /\ (k.waiting <=> Kernel.waiting) /\ (k.watchdog <=> Kernel.watchdog)
      /\ k.timeouts = Kernel.timeouts /\ k.answers = Kernel.answers /\ k.reported = Kernel.reported
      /\ (k.late <=> Kernel.late) /\ (k.stale <=> Kernel.stale)
      /\ (k.queryLost <=> Kernel.queryLost) /\ k \in KernelState
  BY <1>1 DEF KernelState
<1>3. Kernel.cycle /\ Kernel.answers = answers /\ Kernel.reported = reported
      /\ (Kernel.late <=> late) /\ (Kernel.stale <=> stale)
  BY DEF S88Timer, Kernel
<1>4. Becomes(QueryNextContact(k))
  BY DEF S88Timer
<1> HIDE DEF k
<1>5. Ready(k) /\ (~stale => late \/ answers = <<>>)
  <2>1. Served(k) /\ Watched(k)
    BY <1>1, <1>2 DEF Good, Served, Fits, Told, Watched
  <2>2. ASSUME ~k.stale
        PROVE  /\ ~k.queryLost /\ ~k.cycle /\ ~k.waiting /\ NoQuery(k.queue)
               /\ k.late \/ k.answers = <<>>
    BY <1>1, <1>2, <1>3, <2>2 DEF Good, Carried, Answerable
  <2> QED
    BY <1>2, <1>3, <2>1, <2>2 DEF Ready
<1> QED
  BY <1>2, <1>3, <1>4, <1>5, Queried

LEMMA ReceiveLineGood ==
  ASSUME IInv, online, ReceiveLine
  PROVE  \/ \E r : Good(r) /\ Becomes(r) /\ r.answers = Tail(answers) /\ r.reported = reported
                   /\ (r.late <=> late) /\ (r.stale <=> stale)
                   /\ ~s88WaitingReply
         \/ \E k, r : Ready(k) /\ Good(r) /\ Asked(k, r) /\ Becomes(r)
                      /\ k.answers = Tail(answers) /\ (k.late <=> late) /\ (k.stale <=> stale)
                      /\ s88WaitingReply
                      /\ k.reported = IF s88NextContact = Head(answers)
                                      THEN Head(answers) ELSE NoContact
<1> DEFINE rest == Tail(answers)
           k == [Kernel EXCEPT !.answers = rest]
<1>1. Good(Kernel) /\ Kernel \in KernelState
  BY KernelGood
<1>2. rest \in Seq(Contact) /\ Head(answers) \in Contact /\ answers # <<>>
      /\ answers \in Seq(Contact)
  BY <1>1 DEF ReceiveLine, Kernel, KernelState
<1>3. k = [Kernel EXCEPT !.answers = Tail(@)]
  BY <1>1 DEF Kernel
<1>4. Becomes(IF s88WaitingReply THEN OnS88Response(k, Head(answers)) ELSE k)
  BY <1>3 DEF ReceiveLine
<1>5. /\ Kernel.answers = answers /\ Kernel.reported = reported
      /\ (Kernel.late <=> late) /\ (Kernel.stale <=> stale)
      /\ (Kernel.waiting <=> s88WaitingReply) /\ Kernel.next = s88NextContact
  BY DEF Kernel
<1> HIDE DEF rest
<1>6. /\ k.queue = Kernel.queue /\ k.armed = Kernel.armed /\ (k.overflow <=> Kernel.overflow)
      /\ (k.cycle <=> Kernel.cycle) /\ (k.waiting <=> Kernel.waiting)
      /\ (k.watchdog <=> Kernel.watchdog)
      /\ k.timeouts = Kernel.timeouts /\ k.answers = rest /\ k.reported = Kernel.reported
      /\ (k.late <=> Kernel.late) /\ (k.stale <=> Kernel.stale) /\ k.next = Kernel.next
      /\ (k.queryLost <=> Kernel.queryLost) /\ k \in KernelState
  BY <1>1, <1>2 DEF KernelState
<1> HIDE DEF k
<1>7. CASE ~s88WaitingReply
  <2>1. ~k.stale => Carried(k) /\ k.late
    BY <1>1, <1>2, <1>5, <1>6, <1>7 DEF Good, Carried, Answerable
  <2>2. Good(k)
    BY <1>1, <1>6, <2>1 DEF Good, Served, Fits, Told, Watched, Answerable
  <2> QED
    BY <1>4, <1>5, <1>6, <1>7, <2>2 DEF rest
<1>8. CASE s88WaitingReply
  <2> DEFINE c == Head(answers)
             said == IF k.next = c THEN c ELSE NoContact
             counted == k.next + 1
             m == [k EXCEPT !.watchdog = FALSE, !.waiting = FALSE, !.next = counted,
                            !.reported = said]
  <2>1. k.next \in Contact /\ counted \in 1..(Contacts + 1) /\ said \in Frame
    BY <1>1, <1>2, <1>6, Constants DEF Good, Contact, Command
  <2>2. Becomes(QueryNextContact(m))
    <3>1. OnS88Response(k, c) = QueryNextContact(m)
      BY <1>6 DEF OnS88Response, KernelState
    <3> QED
      BY <1>4, <1>8, <3>1
  <2> HIDE DEF said, counted
  <2>3. /\ m \in KernelState /\ m.queue = k.queue /\ m.armed = k.armed
        /\ (m.overflow <=> k.overflow) /\ (m.cycle <=> k.cycle) /\ ~m.waiting
        /\ m.answers = rest /\ m.reported = said
        /\ (m.late <=> k.late) /\ (m.stale <=> k.stale) /\ (m.queryLost <=> k.queryLost)
    BY <1>6, <2>1 DEF KernelState
  <2> HIDE DEF m
  <2>4. ASSUME ~m.stale
        PROVE  /\ ~m.queryLost /\ ~m.cycle /\ NoQuery(m.queue)
               /\ m.late \/ m.answers = <<>>
    <3>1. ~Kernel.stale /\ Kernel.waiting /\ Carried(Kernel) /\ Answerable(Kernel)
      BY <1>1, <1>5, <1>6, <1>8, <2>3, <2>4 DEF Good
    <3>2. answers = <<s88NextContact>> => rest = <<>>
      BY DEF rest
    <3> QED
      BY <1>2, <1>5, <1>6, <2>3, <3>1, <3>2 DEF Carried, Answerable
  <2>5. Ready(m)
    BY <1>1, <1>6, <2>3, <2>4 DEF Ready, Good, Served, Fits, Told, Watched
  <2> QED
    BY <1>5, <1>6, <1>8, <2>2, <2>3, <2>5, Queried DEF rest, said
<1> QED
  BY <1>7, <1>8

LEMMA TimeoutGood ==
  ASSUME IInv, online, OnS88ResponseTimeout
  PROVE  \E k, r : /\ Ready(k) /\ Good(r) /\ Asked(k, r) /\ Becomes(r)
                   /\ k.answers = answers /\ k.reported = reported
                   /\ k.late <=> late \/ answers # <<>>
                   /\ stale => k.stale
<1> DEFINE tooLate == late \/ answers # <<>>
           wasStale == stale \/ ~s88WaitingReply \/ s88ResponseTimer
           counted == s88NextContact + 1
           fewer == timeouts - 1
           k == [Kernel EXCEPT !.timeouts = fewer, !.waiting = FALSE, !.next = counted,
                               !.late = tooLate, !.stale = wasStale]
<1>1. Good(Kernel) /\ Kernel \in KernelState
  BY KernelGood
<1>2. tooLate \in BOOLEAN /\ wasStale \in BOOLEAN
  OBVIOUS
<1>3. counted \in 1..(Contacts + 1) /\ fewer \in 0..MaxTimeouts
  BY <1>1, Constants DEF Good, Kernel, KernelState, Contact, OnS88ResponseTimeout
<1>4. Becomes(QueryNextContact(k))
  <2>1. k = [Kernel EXCEPT !.timeouts = @ - 1, !.waiting = FALSE, !.next = @ + 1,
                           !.late = @ \/ answers # <<>>,
                           !.stale = @ \/ ~s88WaitingReply \/ s88ResponseTimer]
    BY DEF Kernel
  <2> QED
    BY <2>1 DEF OnS88ResponseTimeout
<1>5. tooLate <=> late \/ answers # <<>>
  OBVIOUS
<1>6. wasStale <=> stale \/ ~s88WaitingReply \/ s88ResponseTimer
  OBVIOUS
<1> HIDE DEF tooLate, wasStale, counted, fewer
<1>7. /\ k \in KernelState /\ k.queue = Kernel.queue /\ k.armed = Kernel.armed
      /\ (k.overflow <=> Kernel.overflow) /\ (k.cycle <=> Kernel.cycle) /\ ~k.waiting
      /\ k.answers = Kernel.answers /\ k.reported = Kernel.reported
      /\ (k.late <=> tooLate) /\ (k.stale <=> wasStale) /\ (k.queryLost <=> Kernel.queryLost)
  BY <1>1, <1>2, <1>3 DEF KernelState
<1> HIDE DEF k
<1>8. /\ Kernel.answers = answers /\ Kernel.reported = reported
      /\ (Kernel.late <=> late) /\ (Kernel.stale <=> stale)
      /\ (Kernel.waiting <=> s88WaitingReply)
  BY DEF Kernel
<1>9. ASSUME ~k.stale
      PROVE  /\ ~k.queryLost /\ ~k.cycle /\ NoQuery(k.queue)
             /\ k.late \/ k.answers = <<>>
  <2>1. ~Kernel.stale /\ Kernel.waiting /\ Carried(Kernel)
    BY <1>1, <1>6, <1>7, <1>8, <1>9 DEF Good
  <2> QED
    BY <1>5, <1>7, <1>8, <2>1 DEF Carried
<1>10. Ready(k)
  BY <1>1, <1>7, <1>9 DEF Ready, Good, Served, Fits, Told, Watched
<1> QED
  BY <1>4, <1>5, <1>6, <1>7, <1>8, <1>10, Queried

LEMMA ResponseTimerExpiresGood ==
  ASSUME IInv, online, ResponseTimerExpires
  PROVE  \E r : Good(r) /\ Becomes(r) /\ r.answers = answers /\ r.reported = reported
                /\ (r.late <=> late) /\ (r.stale <=> stale)
<1> DEFINE more == timeouts + 1
           k == [Kernel EXCEPT !.watchdog = FALSE, !.timeouts = more]
<1>1. Good(Kernel) /\ Kernel \in KernelState
  BY KernelGood
<1>2. more \in 0..MaxTimeouts /\ more > 0
  BY <1>1, Constants DEF ResponseTimerExpires, Kernel, KernelState
<1>3. Becomes(k)
  BY DEF ResponseTimerExpires, Kernel
<1>4. /\ Kernel.answers = answers /\ Kernel.reported = reported
      /\ (Kernel.late <=> late) /\ (Kernel.stale <=> stale)
  BY DEF Kernel
<1> HIDE DEF more
<1>5. /\ k \in KernelState /\ k.queue = Kernel.queue /\ k.armed = Kernel.armed
      /\ (k.overflow <=> Kernel.overflow) /\ (k.cycle <=> Kernel.cycle)
      /\ (k.waiting <=> Kernel.waiting) /\ k.timeouts = more /\ k.next = Kernel.next
      /\ k.answers = Kernel.answers /\ k.reported = Kernel.reported
      /\ (k.late <=> Kernel.late) /\ (k.stale <=> Kernel.stale)
      /\ (k.queryLost <=> Kernel.queryLost)
  BY <1>1, <1>2 DEF KernelState
<1> HIDE DEF k
<1>6. Served(k) /\ k.next \in Contact /\ Watched(k)
  BY <1>1, <1>2, <1>5 DEF Good, Served, Fits, Told, Watched
<1>7. ~k.stale => Carried(k) /\ Answerable(k)
  BY <1>1, <1>5 DEF Good, Carried, Answerable
<1> QED
  BY <1>3, <1>4, <1>5, <1>6, <1>7 DEF Good

LEMMA AnswerLostGood ==
  ASSUME IInv, online, AnswerLost
  PROVE  \E r : \E i \in 1..Len(answers) :
           /\ Good(r) /\ Becomes(r) /\ r.answers = RemoveAt(answers, i)
           /\ r.reported = reported /\ (r.late <=> late) /\ (r.stale <=> stale)
<1>1. Good(Kernel) /\ Kernel \in KernelState
  BY KernelGood
<1>2. PICK i \in DOMAIN answers : Becomes([Kernel EXCEPT !.answers = RemoveAt(@, i)])
  BY DEF AnswerLost
<1>3. answers \in Seq(Contact) /\ i \in 1..Len(answers)
  BY <1>1 DEF Kernel, KernelState
<1> DEFINE rest == RemoveAt(answers, i)
           k == [Kernel EXCEPT !.answers = rest]
<1>4. rest \in Seq(Contact) /\ Len(rest) = Len(answers) - 1
  BY <1>3, RemoveAtType
<1>5. Becomes(k)
  BY <1>2 DEF Kernel
<1>6. /\ Kernel.answers = answers /\ Kernel.reported = reported
      /\ (Kernel.late <=> late) /\ (Kernel.stale <=> stale)
  BY DEF Kernel
<1>7. answers = <<s88NextContact>> => rest = <<>>
  <2>1. ASSUME answers = <<s88NextContact>>
        PROVE  Len(answers) = 1
    BY <2>1
  <2>2. Len(rest) = 0 => rest = <<>>
    BY <1>4, EmptySeq
  <2> QED
    BY <1>4, <2>1, <2>2
<1> HIDE DEF rest
<1>8. /\ k \in KernelState /\ k.queue = Kernel.queue /\ k.armed = Kernel.armed
      /\ (k.overflow <=> Kernel.overflow) /\ (k.cycle <=> Kernel.cycle)
      /\ (k.waiting <=> Kernel.waiting) /\ (k.watchdog <=> Kernel.watchdog)
      /\ k.timeouts = Kernel.timeouts /\ k.next = Kernel.next
      /\ k.answers = rest /\ k.reported = Kernel.reported
      /\ (k.late <=> Kernel.late) /\ (k.stale <=> Kernel.stale)
      /\ (k.queryLost <=> Kernel.queryLost)
  BY <1>1, <1>4 DEF KernelState
<1> HIDE DEF k
<1>9. Served(k) /\ k.next \in Contact /\ Watched(k)
  BY <1>1, <1>8 DEF Good, Served, Fits, Told, Watched
<1>10. ~k.stale => Carried(k)
  BY <1>1, <1>8 DEF Good, Carried
<1>11. Answerable(Kernel) => Answerable(k)
  <2>1. answers # <<>>
    BY <1>3
  <2>2. Kernel.next = s88NextContact
    BY DEF Kernel
  <2> QED
    BY <1>6, <1>7, <1>8, <2>1, <2>2 DEF Answerable
<1> QED
  BY <1>1, <1>3, <1>5, <1>6, <1>8, <1>9, <1>10, <1>11 DEF Good, rest

\* The queue's timer sends a command, or the query that carries the cycle on.
LEMMA DrainTxGood ==
  ASSUME IInv, online, DrainTx
  PROVE  \E r : /\ Good(r) /\ Becomes(r) /\ Asked(Kernel, r)
                /\ ~stale /\ ~late /\ answers # <<>> => r.answers = answers
<1> DEFINE rest == Tail(txQueue)
           f == Head(txQueue)
           k == [Kernel EXCEPT !.armed = FALSE]
           shorter == [k EXCEPT !.queue = rest]
           w == WriteCmdNow(shorter, f)
           sent == IF f = Command THEN w ELSE QuerySent(w)
           r == ArmTxTimer(CheckTxOverflow(sent))
<1>1. Good(Kernel) /\ Kernel \in KernelState
  BY KernelGood
<1>2. /\ Kernel.queue = txQueue /\ Kernel.answers = answers
      /\ (Kernel.late <=> late) /\ (Kernel.stale <=> stale)
  BY DEF Kernel
<1>3. CASE txQueue = <<>>
  <2>1. Becomes(k)
    BY <1>3 DEF DrainTx
  <2>2. /\ k \in KernelState /\ k.queue = <<>> /\ (k.overflow <=> Kernel.overflow)
        /\ (k.cycle <=> Kernel.cycle) /\ (k.waiting <=> Kernel.waiting)
        /\ (k.watchdog <=> Kernel.watchdog) /\ k.timeouts = Kernel.timeouts
        /\ k.next = Kernel.next /\ k.answers = Kernel.answers /\ k.reported = Kernel.reported
        /\ (k.late <=> Kernel.late) /\ (k.stale <=> Kernel.stale)
        /\ (k.queryLost <=> Kernel.queryLost)
    BY <1>1, <1>2, <1>3 DEF KernelState
  <2> HIDE DEF k
  <2>3. Good(k)
    BY <1>1, <1>2, <1>3, <2>2
       DEF Good, Served, Fits, Told, Watched, Carried, Answerable
  <2> QED
    BY <1>2, <2>1, <2>2, <2>3 DEF Asked
<1>4. CASE txQueue # <<>>
  <2>1. rest \in Seq(Frame) /\ Len(rest) <= QueueLimit /\ f \in Frame /\ txQueue \in Seq(Frame)
    BY <1>1, <1>2, <1>4, Constants DEF Good, Served, Fits, KernelState
  <2>2. Becomes(r)
    <3>1. shorter = [k EXCEPT !.queue = Tail(@)]
      BY <1>1, <1>2 DEF KernelState
    <3> QED
      BY <1>4, <3>1 DEF DrainTx
  <2> HIDE DEF rest, f
  <2>3. /\ shorter \in KernelState /\ shorter.queue = rest
        /\ (shorter.cycle <=> Kernel.cycle) /\ (shorter.waiting <=> Kernel.waiting)
        /\ (shorter.watchdog <=> Kernel.watchdog) /\ shorter.timeouts = Kernel.timeouts
        /\ shorter.next = Kernel.next /\ shorter.answers = answers
        /\ shorter.reported = Kernel.reported /\ (shorter.late <=> late)
        /\ (shorter.stale <=> stale) /\ (shorter.queryLost <=> Kernel.queryLost)
    BY <1>1, <1>2, <2>1 DEF KernelState
  <2> HIDE DEF shorter
  <2>4. ASSUME NEW x \in KernelState, x.queue = rest, r = ArmTxTimer(CheckTxOverflow(x))
        PROVE  /\ r \in KernelState /\ Served(r) /\ r.queue = rest /\ (r.cycle <=> x.cycle)
               /\ (r.waiting <=> x.waiting) /\ (r.watchdog <=> x.watchdog)
               /\ r.timeouts = x.timeouts /\ r.next = x.next /\ r.answers = x.answers
               /\ r.reported = x.reported /\ (r.late <=> x.late) /\ (r.stale <=> x.stale)
               /\ (r.queryLost <=> x.queryLost)
    <3>1. Fits(x)
      BY <2>1, <2>4 DEF Fits
    <3> HIDE DEF r
    <3>2. Served(r) /\ r = [x EXCEPT !.armed = r.armed, !.overflow = r.overflow]
      BY <2>4, <3>1, Refreshed
    <3>3. r \in KernelState
      BY <3>2 DEF Served, Fits
    <3> QED
      BY <2>4, <3>2, <3>3 DEF KernelState
  <2>5. CASE f = Command
    <3>1. sent = shorter
      BY <2>5 DEF WriteCmdNow
    <3> HIDE DEF sent
    <3>2. /\ r \in KernelState /\ Served(r) /\ r.queue = rest /\ (r.cycle <=> Kernel.cycle)
          /\ (r.waiting <=> Kernel.waiting) /\ (r.watchdog <=> Kernel.watchdog)
          /\ r.timeouts = Kernel.timeouts /\ r.next = Kernel.next /\ r.answers = answers
          /\ r.reported = Kernel.reported /\ (r.late <=> late) /\ (r.stale <=> stale)
          /\ (r.queryLost <=> Kernel.queryLost)
      BY <2>3, <2>4, <3>1
    <3> HIDE DEF r
    <3>3. /\ NoQuery(txQueue) => NoQuery(rest)
          /\ OneQuery(txQueue, Kernel.next) => OneQuery(rest, Kernel.next)
      BY <1>1, <1>4, <2>1, <2>5, TailQuery DEF Good, rest, f
    <3>4. Watched(r) /\ r.next \in Contact
      BY <1>1, <3>2 DEF Good, Watched
    <3>5. ~r.stale => Carried(r) /\ Answerable(r)
      BY <1>1, <1>2, <3>2, <3>3 DEF Good, Carried, Answerable
    <3> QED
      BY <1>2, <2>2, <3>2, <3>4, <3>5 DEF Good, Asked
  <2>6. CASE f # Command
    <3>1. f \in Contact
      BY <2>1, <2>6 DEF Frame
    <3>2. /\ w \in KernelState
          /\ w = [shorter EXCEPT !.answers = w.answers, !.late = w.late]
          /\ answers = <<>> => w.answers = <<f>> /\ ~w.late
          /\ answers # <<>> => (w.late <=> late)
      BY <2>3, <3>1, Written
    <3> HIDE DEF w
    <3> DEFINE q == QuerySent(w)
    <3>3. q \in KernelState /\ q = [w EXCEPT !.waiting = TRUE, !.watchdog = TRUE]
      BY <3>2 DEF QuerySent, KernelState
    <3>4. sent = q
      BY <2>6
    <3> HIDE DEF q, sent
    <3>5. /\ q.queue = rest /\ (q.cycle <=> Kernel.cycle) /\ q.waiting /\ q.watchdog
          /\ q.next = Kernel.next /\ q.answers = w.answers /\ q.reported = Kernel.reported
          /\ (q.late <=> w.late) /\ (q.stale <=> stale) /\ (q.queryLost <=> Kernel.queryLost)
      BY <2>3, <3>2, <3>3 DEF KernelState
    <3>6. /\ r \in KernelState /\ Served(r) /\ (r.cycle <=> Kernel.cycle) /\ r.waiting
          /\ r.watchdog /\ r.queue = rest
          /\ r.next = Kernel.next /\ r.answers = w.answers /\ r.reported = Kernel.reported
          /\ (r.late <=> w.late) /\ (r.stale <=> stale) /\ (r.queryLost <=> Kernel.queryLost)
      BY <2>4, <3>3, <3>4, <3>5
    <3> HIDE DEF r
    <3>7. ASSUME ~stale
          PROVE  /\ ~Kernel.queryLost /\ ~Kernel.cycle /\ ~Kernel.waiting
                 /\ f = Kernel.next /\ NoQuery(rest) /\ (late \/ answers = <<>>)
      <4>1. ~NoQuery(txQueue)
        BY <1>1, <1>4, <2>1, <2>6, TailQuery DEF Good, f
      <4>2. /\ ~Kernel.queryLost /\ ~Kernel.cycle /\ ~Kernel.waiting
            /\ OneQuery(txQueue, Kernel.next)
        BY <1>1, <1>2, <3>7, <4>1 DEF Good, Carried
      <4>3. f = Kernel.next /\ NoQuery(rest)
        BY <1>1, <1>4, <2>1, <2>6, <4>2, TailQuery DEF Good, f, rest
      <4> QED
        BY <1>1, <1>2, <3>7, <4>2, <4>3 DEF Good, Answerable
    <3>8. Watched(r) /\ r.next \in Contact
      BY <1>1, <3>6 DEF Good, Watched
    <3>9. ~r.stale => Carried(r) /\ Answerable(r)
      BY <3>2, <3>6, <3>7 DEF Carried, Answerable
    <3>10. Asked(Kernel, r)
      BY <1>2, <3>2, <3>6 DEF Asked, KernelState
    <3> QED
      BY <2>2, <3>6, <3>7, <3>8, <3>9, <3>10 DEF Good
  <2> QED
    BY <2>5, <2>6
<1> QED
  BY <1>3, <1>4

\* A command, repeated or not, and each of its repetitions.
LEMMA CommandStepGood ==
  ASSUME IInv, online, SendCmdWithRedundancy \/ SetLocoDirection \/ RedundancyTimer
  PROVE  \E r : Good(r) /\ Becomes(r) /\ r.answers = answers /\ r.reported = reported
                /\ (r.late <=> late) /\ (r.stale <=> stale)
<1>1. Good(Kernel) /\ Kernel \in KernelState /\ SessionInv
  BY KernelGood
<1>2. /\ Kernel.answers = answers /\ Kernel.reported = reported
      /\ (Kernel.late <=> late) /\ (Kernel.stale <=> stale)
      /\ Kernel.repeating = redundancyTimers
  BY DEF Kernel
<1>3. config.redundancy \in Nat /\ redundancyTimers \in Nat
  BY <1>1, <1>2, SettingsAssumption DEF SessionInv, KernelState
<1>4. PICK n \in Nat : Becomes(SendCmd([Kernel EXCEPT !.repeating = n], Command))
  <2>1. CASE SendCmdWithRedundancy
    BY <1>2, <1>3, <2>1 DEF SendCmdWithRedundancy
  <2>2. CASE RedundancyTimer
    BY <1>2, <1>3, <2>2 DEF RedundancyTimer
  <2>3. CASE SetLocoDirection
    <3>1. Kernel = [Kernel EXCEPT !.repeating = redundancyTimers]
      BY DEF Kernel
    <3> QED
      BY <1>3, <2>3, <3>1 DEF SetLocoDirection
  <2> QED
    BY <2>1, <2>2, <2>3
<1> DEFINE k == [Kernel EXCEPT !.repeating = n]
<1>5. /\ k \in KernelState /\ k.queue = Kernel.queue /\ k.armed = Kernel.armed
      /\ (k.overflow <=> Kernel.overflow) /\ (k.cycle <=> Kernel.cycle)
      /\ (k.waiting <=> Kernel.waiting) /\ (k.watchdog <=> Kernel.watchdog)
      /\ k.timeouts = Kernel.timeouts /\ k.next = Kernel.next
      /\ k.answers = Kernel.answers /\ k.reported = Kernel.reported
      /\ (k.late <=> Kernel.late) /\ (k.stale <=> Kernel.stale)
      /\ (k.queryLost <=> Kernel.queryLost)
  BY <1>1 DEF KernelState
<1>6. Becomes(SendCmd(k, Command))
  BY <1>4
<1> HIDE DEF k
<1>7. Good(k)
  BY <1>1, <1>5 DEF Good, Served, Fits, Told, Watched, Carried, Answerable
<1> QED
  BY <1>2, <1>5, <1>6, <1>7, CommandGood

-----------------------------------------------------------------------------
(* The invariant.                                                          *)

LEMMA InvInitial == Init => IInv
<1> SUFFICES ASSUME Init
             PROVE  IInv
  OBVIOUS
<1>1. TypeOK
  <2>1. <<>> \in Seq(Frame) /\ <<>> \in Seq(Contact) /\ Len(<<>>) = 0 /\ 1 \in Contact
    BY Constants, EmptySeq DEF Contact
  <2>2. txQueue \in Seq(Frame) /\ Len(txQueue) <= QueueLimit /\ answers \in Seq(Contact)
    BY <2>1, Constants DEF Init
  <2>3. s88NextContact \in Contact /\ timeouts \in 0..MaxTimeouts /\ redundancyTimers \in Nat
    BY <2>1, Constants DEF Init
  <2> QED
    BY <2>2, <2>3 DEF Init, TypeOK
<1>2. Kernel \in KernelState
  BY <1>1, Constants DEF Init, Kernel, KernelState, TypeOK, Command, Frame, Contact
<1>3. Good(Kernel)
  BY <1>1, <1>2, Constants
     DEF Init, Kernel, Good, Served, Fits, Told, Watched, Carried, Answerable, NoQuery, TypeOK
<1> QED
  BY <1>1, <1>3 DEF IInv

\* The session's end leaves a kernel of which only the types matter.
LEMMA GoOfflineInv ==
  ASSUME IInv, online, GoOffline
  PROVE  IInv' /\ UNCHANGED <<answers, reported, late, stale>>
<1> DEFINE k == [Kernel EXCEPT !.queue = <<>>, !.armed = FALSE, !.repeating = 0,
                               !.cycle = FALSE, !.watchdog = FALSE]
<1>1. Good(Kernel) /\ Kernel \in KernelState /\ SessionInv
  BY KernelGood
<1>2. /\ k.queue = <<>> /\ k.armed = FALSE /\ k.repeating = 0 /\ k.cycle = FALSE
      /\ k.watchdog = FALSE
      /\ k.overflow = Kernel.overflow /\ k.next = Kernel.next /\ k.last = Kernel.last
      /\ k.waiting = Kernel.waiting /\ k.timeouts = Kernel.timeouts
      /\ k.answers = Kernel.answers /\ k.reported = Kernel.reported /\ k.late = Kernel.late
      /\ k.stale = Kernel.stale /\ k.queryLost = Kernel.queryLost
  BY <1>1 DEF KernelState
<1>3. Becomes(k) /\ online' = FALSE /\ UNCHANGED <<config, cts>>
  BY DEF GoOffline
<1> HIDE DEF k
<1>4. /\ txQueue' = <<>> /\ txTimerArmed' = FALSE /\ redundancyTimers' = 0
      /\ s88Timer' = FALSE /\ s88ResponseTimer' = FALSE
      /\ UNCHANGED <<txOverflowFired, s88NextContact, s88LastQueried, s88WaitingReply, timeouts,
                     answers, reported, late, stale, queryLost>>
  BY <1>2, <1>3 DEF Becomes, Kernel
<1>5. TypeOK'
  <2>1. <<>> \in Seq(Frame) /\ Len(<<>>) = 0
    BY EmptySeq
  <2>2. txQueue' \in Seq(Frame) /\ Len(txQueue') <= QueueLimit
    BY <1>4, <2>1, Constants
  <2>3. redundancyTimers' \in Nat /\ txTimerArmed' \in BOOLEAN /\ s88Timer' \in BOOLEAN
        /\ s88ResponseTimer' \in BOOLEAN /\ online' \in BOOLEAN
    BY <1>3, <1>4
  <2> QED
    BY <1>3, <1>4, <2>2, <2>3 DEF IInv, TypeOK
<1> QED
  BY <1>3, <1>4, <1>5 DEF IInv

LEMMA InvStep == IInv /\ [Next]_vars => IInv'
<1> SUFFICES ASSUME IInv, [Next]_vars
             PROVE  IInv'
  OBVIOUS
<1>1. CASE UNCHANGED vars
  <2>1. TypeOK' /\ Kernel' = Kernel /\ online' = online
    BY <1>1 DEF vars, IInv, TypeOK, Kernel
  <2> QED
    BY <2>1 DEF IInv
<1>2. CASE Next
  <2>0. online /\ Good(Kernel) /\ SessionInv
    BY <1>2, KernelGood DEF Next
  <2>1. ASSUME UNCHANGED session, NEW r, Good(r), Becomes(r)
        PROVE  IInv'
    BY <2>0, <2>1, BecomesGood DEF session, SessionInv
  <2>2. CASE S88Timer
    BY <2>0, <2>1, <2>2, S88TimerGood DEF S88Timer
  <2>3. CASE ReceiveLine
    BY <2>0, <2>1, <2>3, ReceiveLineGood DEF ReceiveLine
  <2>4. CASE ResponseTimerExpires
    BY <2>0, <2>1, <2>4, ResponseTimerExpiresGood DEF ResponseTimerExpires
  <2>5. CASE OnS88ResponseTimeout
    BY <2>0, <2>1, <2>5, TimeoutGood DEF OnS88ResponseTimeout
  <2>6. CASE AnswerLost
    BY <2>0, <2>1, <2>6, AnswerLostGood DEF AnswerLost
  <2>7. CASE DrainTx
    BY <2>0, <2>1, <2>7, DrainTxGood DEF DrainTx
  <2>8. CASE SendCmdWithRedundancy \/ SetLocoDirection \/ RedundancyTimer
    BY <2>0, <2>1, <2>8, CommandStepGood DEF SendCmdWithRedundancy, SetLocoDirection, RedundancyTimer
  <2>9. CASE CtsChanges
    <3>1. Becomes(Kernel) /\ SessionInv'
      BY <2>0, <2>9 DEF CtsChanges, SessionInv
    <3> QED
      BY <2>0, <3>1, BecomesGood
  <2>10. CASE GoOffline
    BY <2>0, <2>10, GoOfflineInv
  <2> QED
    BY <1>2, <2>2, <2>3, <2>4, <2>5, <2>6, <2>7, <2>8, <2>9, <2>10 DEF Next, CycleStep
<1> QED
  BY <1>1, <1>2

LEMMA Invariance == Spec => []IInv
BY InvInitial, InvStep, PTL DEF Spec

\* Whatever the station answers, and whenever, the next contact is one that exists and
\* the queue within its limit (kernel.cpp, queryNextContact and enqueueCmd).
THEOREM TypeCorrect == Spec => []TypeOK
<1>1. IInv => TypeOK
  BY DEF IInv
<1> QED
  BY <1>1, Invariance, PTL

\* Frames that wait have a timer running for them and the overflow's flag follows the
\* queue, whichever of commands, repetitions, queries and drainTx touched it last.
THEOREM QueueAlwaysServed == Spec => []QueueServed
<1>1. IInv => QueueServed
  BY DEF IInv, QueueServed, Good, Served, Told, Kernel, TypeOK
<1> QED
  BY <1>1, Invariance, PTL

\* No query waits for its answer without a watchdog, in any order of answers, late
\* answers, expiries and their handlers (kernel.cpp, the query's onSent).
THEOREM WaitingAlwaysWatched == Spec => []WaitingIsWatched
<1>1. IInv => WaitingIsWatched
  BY DEF IInv, WaitingIsWatched, Good, Watched, Kernel
<1> QED
  BY <1>1, Invariance, PTL

\* Exactly one query or timer carries the contact cycle on until the queue drops a
\* query, unless a watchdog's handler ran for a query that had been answered.
THEOREM OneCarrierAlways == Spec => []OneCarrier
<1>1. IInv => OneCarrier
  <2> SUFFICES ASSUME IInv, online, ~stale
               PROVE  IF queryLost THEN Carriers = {} ELSE \E c \in Carriers : Carriers = {c}
    BY DEF OneCarrier
  <2> DEFINE queued == {<<"query", i>> : i \in {j \in DOMAIN txQueue : txQueue[j] # Command}}
  <2>0. Carried(Kernel) /\ txQueue \in Seq(Frame) /\ s88NextContact # Command
    BY KernelGood, Constants DEF Good, Kernel, KernelState
  <2>1. DOMAIN txQueue = 1..Len(txQueue)
    BY <2>0
  <2>2. NoQuery(txQueue) => queued = {}
    BY <2>1 DEF NoQuery
  <2>3. ASSUME OneQuery(txQueue, s88NextContact)
        PROVE  \E i \in 1..Len(txQueue) : queued = {<<"query", i>>}
    <3>1. PICK i \in 1..Len(txQueue) :
            /\ txQueue[i] = s88NextContact
            /\ \A j \in 1..Len(txQueue) : j # i => txQueue[j] = Command
      BY <2>3 DEF OneQuery
    <3>2. {j \in DOMAIN txQueue : txQueue[j] # Command} = {i}
      BY <2>0, <2>1, <3>1
    <3> QED
      BY <3>2
  <2>4. Carriers = queued \cup (IF s88Timer THEN {<<"timer">>} ELSE {})
                          \cup (IF s88WaitingReply THEN {<<"answer">>} ELSE {})
    BY DEF Carriers
  <2> HIDE DEF queued
  <2>5. /\ Kernel.queue = txQueue /\ (Kernel.cycle <=> s88Timer)
        /\ (Kernel.waiting <=> s88WaitingReply) /\ Kernel.next = s88NextContact
        /\ (Kernel.queryLost <=> queryLost)
    BY DEF Kernel
  <2> QED
    BY <2>0, <2>2, <2>3, <2>4, <2>5 DEF Carried
<1> QED
  BY <1>1, Invariance, PTL

-----------------------------------------------------------------------------
(* The refinement.                                                         *)

\* The refinement mapping, and on a sound line what can be on its way.
DueInv ==
  /\ unreported \in Seq(Contact) /\ reported \in Contact \cup {NoContact}
  /\ lineSound \in BOOLEAN /\ answers \in Seq(Contact)
  /\ lineSound => unreported = answers
  /\ ~lineSound => unreported = <<>>
  /\ online /\ lineSound => answers = <<>> \/ (s88WaitingReply /\ answers = <<s88NextContact>>)

LEMMA InvDue == IInv => DueInv
<1> SUFFICES ASSUME IInv
             PROVE  DueInv
  OBVIOUS
<1>1. /\ answers \in Seq(Contact) /\ reported \in Contact \cup {NoContact}
      /\ late \in BOOLEAN /\ stale \in BOOLEAN
  BY DEF IInv, TypeOK
<1>2. lineSound \in BOOLEAN
  BY DEF lineSound
<1>3. (lineSound => unreported = answers) /\ (~lineSound => unreported = <<>>)
  BY DEF unreported
<1>4. unreported \in Seq(Contact)
  BY <1>1, <1>3, EmptySeq
<1>5. ASSUME online, lineSound
      PROVE  answers = <<>> \/ (s88WaitingReply /\ answers = <<s88NextContact>>)
  BY <1>5, KernelGood DEF Good, Answerable, Kernel, lineSound
<1> QED
  BY <1>1, <1>2, <1>3, <1>4, <1>5 DEF DueInv

\* A step that leaves what is due, or asks for more on a quiet line, or disturbs it.
LEMMA RefinesQuery ==
  ASSUME DueInv, DueInv', lineSound, UNCHANGED reported,
         \/ answers' = answers /\ (late' <=> late)
         \/ answers = <<>>
         \/ late'
  PROVE  Reports!Poll \/ Reports!Disturb \/ UNCHANGED <<unreported, lineSound, reported>>
<1>1. CASE ~lineSound'
  <2>1. lineSound' = FALSE /\ unreported' = <<>>
    BY <1>1 DEF DueInv
  <2> QED
    BY <2>1 DEF Reports!Disturb
<1>2. CASE lineSound'
  <2>1. lineSound' = lineSound /\ unreported = answers /\ unreported' = answers'
    BY <1>2 DEF DueInv
  <2>2. ~late'
    BY <1>2 DEF lineSound
  <2>3. CASE answers' = answers
    BY <2>1, <2>3
  <2>4. CASE answers = <<>>
    <3>1. answers' \in Seq(Contact)
      BY DEF DueInv
    <3> QED
      BY <2>1, <2>4, <3>1 DEF Reports!Poll
  <2> QED
    BY <2>2, <2>3, <2>4
<1> QED
  BY <1>1, <1>2

LEMMA BecomesLine ==
  ASSUME NEW r, Becomes(r)
  PROVE  answers' = r.answers /\ reported' = r.reported /\ late' = r.late /\ stale' = r.stale
BY DEF Becomes

LEMMA EmptyIsPrefix ==
  ASSUME NEW S, NEW t \in Seq(S)
  PROVE  Reports!IsPrefix(<<>>, t)
<1>1. Len(<<>>) = 0 /\ Len(t) \in Nat
  OBVIOUS
<1>2. Len(<<>>) <= Len(t)
  BY <1>1
<1>3. SubSeq(<<>>, 1, Len(<<>>)) = <<>> /\ SubSeq(t, 1, Len(<<>>)) = <<>>
  BY <1>1, SubSeqEmpty
<1> QED
  BY <1>2, <1>3 DEF Reports!IsPrefix

LEMMA RefinesReceiveLine ==
  ASSUME IInv, DueInv, DueInv', online, lineSound, ReceiveLine
  PROVE  Reports!Report
<1>1. answers # <<>> /\ s88WaitingReply /\ answers = <<s88NextContact>>
  BY DEF DueInv, ReceiveLine
<1>2. Head(answers) = s88NextContact /\ Tail(answers) = <<>>
  BY <1>1
<1>3. PICK k, r : /\ Asked(k, r) /\ Becomes(r)
                  /\ k.answers = Tail(answers) /\ (k.late <=> late) /\ (k.stale <=> stale)
                  /\ k.reported = s88NextContact
  BY <1>1, <1>2, ReceiveLineGood
<1>4. reported' = s88NextContact /\ lineSound'
  BY <1>2, <1>3, BecomesLine DEF Asked, lineSound
<1>5. unreported = <<s88NextContact>> /\ unreported' \in Seq(Contact) /\ lineSound' = lineSound
  BY <1>1, <1>4 DEF DueInv
<1>6. Reports!IsPrefix(Tail(unreported), unreported')
  BY <1>5, EmptyIsPrefix
<1> QED
  BY <1>4, <1>5, <1>6 DEF Reports!Report

LEMMA RefinesAnswerLost ==
  ASSUME IInv, DueInv, DueInv', online, lineSound, AnswerLost
  PROVE  Reports!Unanswered
<1>1. PICK r : \E i \in 1..Len(answers) :
           /\ Becomes(r) /\ r.answers = RemoveAt(answers, i)
           /\ r.reported = reported /\ (r.late <=> late) /\ (r.stale <=> stale)
  BY AnswerLostGood
<1>2. PICK i \in 1..Len(answers) : answers' = RemoveAt(answers, i)
  BY <1>1, BecomesLine
<1>3. reported' = reported /\ lineSound'
  BY <1>1, BecomesLine DEF lineSound
<1>4. unreported = answers /\ unreported' = answers' /\ lineSound' = lineSound
      /\ DOMAIN answers = 1..Len(answers)
  BY <1>3 DEF DueInv
<1>5. RemoveAt(answers, i) = Reports!RemoveAt(answers, i)
  BY DEF RemoveAt, Reports!RemoveAt
<1> QED
  BY <1>2, <1>3, <1>4, <1>5 DEF Reports!Unanswered

LEMMA RefinesStep == IInv /\ DueInv /\ DueInv' /\ [Next]_vars => [Reports!Next]_Reports!feedback
<1> SUFFICES ASSUME IInv, DueInv, DueInv', [Next]_vars
             PROVE  Reports!Next \/ UNCHANGED <<unreported, lineSound, reported>>
  BY DEF Reports!feedback
<1>1. CASE ~lineSound
  BY <1>1 DEF DueInv, Reports!Unsound, Reports!Next
<1>2. CASE lineSound /\ UNCHANGED vars
  BY <1>2 DEF vars, unreported, lineSound
<1>3. CASE lineSound /\ Next
  <2>0. online
    BY <1>3 DEF Next
  <2>1. ASSUME UNCHANGED <<answers, reported>>, late' <=> late, stale' <=> stale
        PROVE  UNCHANGED <<unreported, lineSound, reported>>
    BY <2>1 DEF unreported, lineSound
  <2>2. CASE S88Timer
    <3>1. PICK k, r : /\ Asked(k, r) /\ Becomes(r)
                      /\ k.answers = answers /\ k.reported = reported
                      /\ (k.late <=> late) /\ (k.stale <=> stale)
                      /\ (~stale => late \/ answers = <<>>)
      BY <2>0, <2>2, S88TimerGood
    <3>2. answers = <<>> /\ reported' = reported /\ (stale' <=> stale)
      BY <1>3, <3>1, BecomesLine DEF Asked, lineSound
    <3> QED
      BY <1>3, <3>1, <3>2, BecomesLine, RefinesQuery DEF Asked, Reports!Next, lineSound
  <2>3. CASE ReceiveLine
    BY <1>3, <2>0, <2>3, RefinesReceiveLine DEF Reports!Next
  <2>4. CASE AnswerLost
    BY <1>3, <2>0, <2>4, RefinesAnswerLost DEF Reports!Next
  <2>5. CASE ResponseTimerExpires
    BY <2>0, <2>1, <2>5, ResponseTimerExpiresGood, BecomesLine
  <2>6. CASE OnS88ResponseTimeout
    <3>1. PICK k, r : /\ Asked(k, r) /\ Becomes(r)
                      /\ k.answers = answers /\ k.reported = reported
                      /\ k.late <=> late \/ answers # <<>>
                      /\ stale => k.stale
      BY <2>0, <2>6, TimeoutGood
    <3>2. /\ reported' = reported
          /\ answers # <<>> => late'
          /\ ~stale' \/ ~lineSound'
      BY <3>1, BecomesLine DEF Asked, lineSound
    <3> QED
      BY <1>3, <3>2, RefinesQuery DEF Reports!Next, lineSound
  <2>7. CASE DrainTx
    <3>1. PICK r : /\ Becomes(r) /\ Asked(Kernel, r)
                   /\ ~stale /\ ~late /\ answers # <<>> => r.answers = answers
      BY <2>0, <2>7, DrainTxGood
    <3>2. /\ reported' = reported /\ (stale' <=> stale)
          /\ answers # <<>> => answers' = answers /\ (late' <=> late)
      BY <1>3, <3>1, BecomesLine DEF Asked, Kernel, lineSound
    <3> QED
      BY <1>3, <3>2, RefinesQuery DEF Reports!Next, lineSound
  <2>8. CASE SendCmdWithRedundancy \/ SetLocoDirection \/ RedundancyTimer
    BY <2>0, <2>1, <2>8, CommandStepGood, BecomesLine
  <2>9. CASE CtsChanges
    BY <2>1, <2>9, BecomesLine DEF CtsChanges, Kernel
  <2>10. CASE GoOffline
    BY <2>0, <2>1, <2>10, GoOfflineInv
  <2> QED
    BY <1>3, <2>2, <2>3, <2>4, <2>5, <2>6, <2>7, <2>8, <2>9, <2>10 DEF Next, CycleStep
<1> QED
  BY <1>1, <1>2, <1>3

LEMMA RefinesInit == Init => Reports!Init
BY DEF Init, Reports!Init, unreported, lineSound

\* What the 6023's contact cycle reports is what an abstract receiver reports: answers
\* are attributed to the contact they are about unless one is late or a watchdog's
\* handler runs although it was answered (kernel.cpp, receiveLine and onS88Response).
THEOREM ReportsContacts == Spec => ContactsReported
BY Invariance, InvDue, RefinesInit, RefinesStep, PTL DEF Spec, ContactsReported, Reports!Spec
=============================================================================
