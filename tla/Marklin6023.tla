---------------------------- MODULE Marklin6023 ----------------------------
(***************************************************************************)
(* The kernel of the Marklin 6023 interface:                               *)
(* server/src/hardware/protocol/marklin6023interface/kernel.cpp.           *)
(*                                                                         *)
(* Contacts are queried one after the other, each query waiting for the    *)
(* answer to the one before or for its watchdog. Queries share one line,   *)
(* and one queue when there is one, with the commands. All handlers run on *)
(* the kernel's strand and are one action each. An answer is a line with a *)
(* digit and does not say which contact it is about.                       *)
(***************************************************************************)
EXTENDS Integers, Sequences, SequencesExt

CONSTANTS
  Contacts,        \* s88amount * 16
  Config,          \* settings a session may have been started with
  QueueLimit,      \* frames in the queue that amount to kTxOverflowMs
  MaxRepeating,    \* bound: repetitions pending when a further command is given
  MaxAnswers,      \* bound: answers the station may still give
  MaxTimeouts      \* bound: expired watchdogs whose handler has not run

ASSUME SettingsAssumption ==
  /\ Contacts \in Nat \ {0}
  /\ Config \subseteq [commandQueue: BOOLEAN, redundancy: 0..3, waitForCts: BOOLEAN]
  /\ QueueLimit \in Nat \ {0}
  /\ MaxRepeating \in Nat /\ MaxAnswers \in Nat \ {0} /\ MaxTimeouts \in Nat \ {0}

Contact == 1..Contacts
NoContact == 0

\* Frames: the query of a contact, or a command, which has no effect here.
Command == NoContact
Frame == Contact \cup {Command}

VARIABLES
  online,              \* is there a kernel?
  config,              \* Kernel::m_config
  txQueue,             \* Kernel::m_txQueue
  txTimerArmed,        \* Kernel::m_txTimerArmed
  txOverflowFired,     \* Kernel::m_txOverflowFired
  redundancyTimers,    \* number of Kernel::m_redundancyTimers that are pending
  cts,                 \* the station's CTS line
  s88Timer,            \* is Kernel::m_s88Timer armed?
  s88NextContact,      \* Kernel::m_s88NextContact
  s88LastQueried,      \* Kernel::m_s88LastQueried
  s88WaitingReply,     \* Kernel::m_s88WaitingReply
  s88ResponseTimer,    \* is Kernel::m_s88ResponseTimer armed?
  timeouts,            \* handlers of it that have expired and not yet run
  answers,             \* the contacts of the answers on their way (external)
  reported,            \* history: the contact whose answer was reported last as its own
  late,                \* history: an answer is on its way whose query was given up
  stale,               \* history: a watchdog's handler ran for a query that was answered
  queryLost            \* history: the full queue has dropped a query

vars == <<online, config, txQueue, txTimerArmed, txOverflowFired, redundancyTimers, cts,
          s88Timer, s88NextContact, s88LastQueried, s88WaitingReply, s88ResponseTimer,
          timeouts, answers, reported, late, stale, queryLost>>

session == <<online, config, cts>>

-----------------------------------------------------------------------------
(* Sending. As in the 6050's module, the operators map one state of the    *)
(* kernel to the next, so that the calls of one handler can be composed.   *)

Kernel == [queue |-> txQueue, armed |-> txTimerArmed, overflow |-> txOverflowFired,
           repeating |-> redundancyTimers, cycle |-> s88Timer, next |-> s88NextContact,
           last |-> s88LastQueried, waiting |-> s88WaitingReply, watchdog |-> s88ResponseTimer,
           timeouts |-> timeouts, answers |-> answers, reported |-> reported,
           late |-> late, stale |-> stale, queryLost |-> queryLost]

Becomes(k) ==
  /\ txQueue' = k.queue /\ txTimerArmed' = k.armed /\ txOverflowFired' = k.overflow
  /\ redundancyTimers' = k.repeating
  /\ s88Timer' = k.cycle /\ s88NextContact' = k.next /\ s88LastQueried' = k.last
  /\ s88WaitingReply' = k.waiting /\ s88ResponseTimer' = k.watchdog /\ timeouts' = k.timeouts
  /\ answers' = k.answers /\ reported' = k.reported
  /\ late' = k.late /\ stale' = k.stale /\ queryLost' = k.queryLost

\* The station answers a query unless (bound) it already owes too many answers. A
\* query that is sent while none is owed finds a line without late answers.
WriteCmdNow(k, f) ==
  IF f = Command THEN k
  ELSE [k EXCEPT !.answers = IF Len(@) < MaxAnswers THEN Append(@, f) ELSE @,
                 !.late = @ /\ k.answers # <<>>]

\* Fault: the hysteresis never ends.
CheckTxOverflowOnce(k) ==
  IF Len(k.queue) >= QueueLimit THEN [k EXCEPT !.overflow = TRUE] ELSE k

CheckTxOverflow(k) ==
  IF Len(k.queue) >= QueueLimit THEN [k EXCEPT !.overflow = TRUE]
  ELSE IF 2 * Len(k.queue) < QueueLimit THEN [k EXCEPT !.overflow = FALSE]
  ELSE k

ArmTxTimer(k) == [k EXCEPT !.armed = @ \/ k.queue # <<>>]

\* A dropped frame takes its onSent with it.
EnqueueCmd(k, f) ==
  IF Len(k.queue) >= QueueLimit
  THEN [CheckTxOverflow(k) EXCEPT !.queryLost = @ \/ f # Command]
  ELSE ArmTxTimer(CheckTxOverflow([k EXCEPT !.queue = Append(@, f)]))

SendCmd(k, f) == IF config.commandQueue THEN EnqueueCmd(k, f) ELSE WriteCmdNow(k, f)

\* onSent of a query: from here on its answer is awaited and watched.
QuerySent(k) == [k EXCEPT !.waiting = TRUE, !.watchdog = TRUE]

-----------------------------------------------------------------------------
(* The contact cycle.                                                      *)

\* Fault: the cycle does not begin with the first contact.
StartS88CycleAnywhere(k) == [k EXCEPT !.waiting = FALSE, !.last = NoContact, !.cycle = TRUE]

StartS88Cycle(k) ==
  [k EXCEPT !.next = 1, !.waiting = FALSE, !.last = NoContact, !.cycle = TRUE]

QueryNextContact(k) ==
  IF k.next > Contacts THEN StartS88Cycle(k)
  ELSE LET asked == [k EXCEPT !.last = k.next]
       IN  IF config.commandQueue THEN EnqueueCmd(asked, k.next)
           ELSE QuerySent(WriteCmdNow(asked, k.next))

\* The first timer of a cycle. Its re-arming cancels the wait before it.
S88Timer ==
  /\ s88Timer
  /\ Becomes(QueryNextContact([Kernel EXCEPT !.cycle = FALSE]))
  /\ UNCHANGED session

\* Faults: the contact is counted before it is reported; the watchdog is cancelled
\* after the next query was sent.
OnS88ResponseCountsFirst(k, c) ==
  QueryNextContact([k EXCEPT !.watchdog = FALSE, !.waiting = FALSE, !.next = @ + 1,
                             !.reported = IF k.next + 1 = c THEN c ELSE NoContact])
OnS88ResponseCancelsLast(k, c) ==
  [QueryNextContact([k EXCEPT !.waiting = FALSE, !.next = @ + 1,
                              !.reported = IF k.next = c THEN c ELSE NoContact])
     EXCEPT !.watchdog = FALSE]

OnS88Response(k, c) ==
  QueryNextContact([k EXCEPT !.watchdog = FALSE, !.waiting = FALSE, !.next = @ + 1,
                             !.reported = IF k.next = c THEN c ELSE NoContact])

\* Fault: every line is taken for the answer that is awaited.
ReceiveLineAnyway ==
  /\ answers # <<>>
  /\ Becomes(OnS88Response([Kernel EXCEPT !.answers = Tail(@)], Head(answers)))
  /\ UNCHANGED session

\* A line arrives: the answer to the oldest query that the station still answers.
ReceiveLine ==
  /\ answers # <<>>
  /\ LET k == [Kernel EXCEPT !.answers = Tail(@)]
     IN  Becomes(IF s88WaitingReply THEN OnS88Response(k, Head(answers)) ELSE k)
  /\ UNCHANGED session

\* A query or its answer is lost on the line (external).
AnswerLost ==
  /\ \E i \in DOMAIN answers : Becomes([Kernel EXCEPT !.answers = RemoveAt(@, i)])
  /\ UNCHANGED session

\* The watchdog expires: its handler is queued and can no longer be cancelled.
ResponseTimerExpires ==
  /\ s88ResponseTimer /\ timeouts < MaxTimeouts
  /\ Becomes([Kernel EXCEPT !.watchdog = FALSE, !.timeouts = @ + 1])
  /\ UNCHANGED session

\* Fault: the contact that did not answer is queried again.
OnS88ResponseTimeoutRetries ==
  /\ timeouts > 0
  /\ Becomes(QueryNextContact(
       [Kernel EXCEPT !.timeouts = @ - 1, !.waiting = FALSE,
                      !.late = @ \/ answers # <<>>,
                      !.stale = @ \/ ~s88WaitingReply \/ s88ResponseTimer]))
  /\ UNCHANGED session

\* The handler does not ask whether its query has been answered since.
OnS88ResponseTimeout ==
  /\ timeouts > 0
  /\ Becomes(QueryNextContact(
       [Kernel EXCEPT !.timeouts = @ - 1, !.waiting = FALSE, !.next = @ + 1,
                      !.late = @ \/ answers # <<>>,
                      !.stale = @ \/ ~s88WaitingReply \/ s88ResponseTimer]))
  /\ UNCHANGED session

-----------------------------------------------------------------------------
(* The queue, commands and their repetitions.                              *)

\* The queue's timer. While the station is not ready nothing is sent and the timer
\* is started again, which is a step that changes nothing.
DrainTx ==
  /\ txTimerArmed
  /\ config.waitForCts => cts
  /\ LET k == [Kernel EXCEPT !.armed = FALSE]
         f == Head(txQueue)
         sent == WriteCmdNow([k EXCEPT !.queue = Tail(@)], f)
     IN  Becomes(IF txQueue = <<>> THEN k
                 ELSE ArmTxTimer(CheckTxOverflow(IF f = Command THEN sent ELSE QuerySent(sent))))
  /\ UNCHANGED session

\* sendCmdWithRedundancy for go, speed, function and accessory. Stop and the emergency
\* stop of a loco bypass the queue and change nothing here.
SendCmdWithRedundancy ==
  /\ redundancyTimers < MaxRepeating
  /\ Becomes(SendCmd([Kernel EXCEPT !.repeating = @ + config.redundancy], Command))
  /\ UNCHANGED session

\* A direction is a toggle and is not repeated.
SetLocoDirection ==
  /\ redundancyTimers < MaxRepeating
  /\ Becomes(SendCmd(Kernel, Command))
  /\ UNCHANGED session

RedundancyTimer ==
  /\ redundancyTimers > 0
  /\ Becomes(SendCmd([Kernel EXCEPT !.repeating = @ - 1], Command))
  /\ UNCHANGED session

CtsChanges ==
  /\ config.waitForCts
  /\ cts' = ~cts
  /\ UNCHANGED <<online, config>> /\ Becomes(Kernel)

\* Kernel::stop: timers are cancelled, the queue is cleared. The session, and the
\* module, end.
GoOffline ==
  /\ online' = FALSE
  /\ Becomes([Kernel EXCEPT !.queue = <<>>, !.armed = FALSE, !.repeating = 0,
                            !.cycle = FALSE, !.watchdog = FALSE])
  /\ UNCHANGED <<config, cts>>

\* started() has begun the first cycle.
Init ==
  /\ online = TRUE
  /\ config \in Config
  /\ txQueue = <<>> /\ txTimerArmed = FALSE /\ txOverflowFired = FALSE
  /\ redundancyTimers = 0
  /\ cts = TRUE
  /\ s88Timer = TRUE /\ s88NextContact = 1 /\ s88LastQueried = NoContact
  /\ s88WaitingReply = FALSE /\ s88ResponseTimer = FALSE /\ timeouts = 0
  /\ answers = <<>> /\ reported = NoContact
  /\ late = FALSE /\ stale = FALSE /\ queryLost = FALSE

CycleStep == S88Timer \/ ReceiveLine \/ ResponseTimerExpires \/ OnS88ResponseTimeout

Next ==
  /\ online
  /\ \/ CycleStep \/ AnswerLost
     \/ DrainTx \/ SendCmdWithRedundancy \/ SetLocoDirection \/ RedundancyTimer
     \/ CtsChanges \/ GoOffline

Spec == Init /\ [][Next]_vars

\* Timers that are not cancelled expire and expired handlers run; the station becomes
\* ready again and again, also when the queue's timer looks (external). No answer is
\* ever assumed to come, and no command to be given.
FairSpec ==
  /\ Spec
  /\ WF_vars(online /\ S88Timer)
  /\ WF_vars(online /\ ResponseTimerExpires)
  /\ WF_vars(online /\ OnS88ResponseTimeout)
  /\ WF_vars(online /\ RedundancyTimer)
  /\ SF_vars(online /\ DrainTx)
  /\ WF_vars(online /\ CtsChanges /\ ~cts)

-----------------------------------------------------------------------------
(* Properties.                                                             *)

\* Shapes of the variables, and the bound of the queue: after every handler the next
\* contact is one that exists.
TypeOK ==
  /\ online \in BOOLEAN /\ config \in Config /\ cts \in BOOLEAN
  /\ txQueue \in Seq(Frame) /\ Len(txQueue) <= QueueLimit
  /\ txTimerArmed \in BOOLEAN /\ txOverflowFired \in BOOLEAN
  /\ redundancyTimers \in Nat
  /\ s88Timer \in BOOLEAN /\ s88NextContact \in Contact /\ s88LastQueried \in Contact \cup {NoContact}
  /\ s88WaitingReply \in BOOLEAN /\ s88ResponseTimer \in BOOLEAN /\ timeouts \in 0..MaxTimeouts
  /\ answers \in Seq(Contact) /\ reported \in Contact \cup {NoContact}
  /\ late \in BOOLEAN /\ stale \in BOOLEAN /\ queryLost \in BOOLEAN

\* Whoever carries the cycle on: the timer of a new cycle, a query in the queue, or
\* the answer or watchdog of the one that was sent.
Carriers ==
  {<<"query", i>> : i \in {j \in DOMAIN txQueue : txQueue[j] # Command}}
    \cup (IF s88Timer THEN {<<"timer">>} ELSE {})
    \cup (IF s88WaitingReply THEN {<<"answer">>} ELSE {})

\* The cycle is carried on by exactly one query or timer: never two, which would ask
\* two contacts at once on a line whose answers have no address, and never none,
\* unless the queue dropped the query. Only a watchdog that had expired when its
\* answer came, and whose handler therefore still runs, may start a second one.
OneCarrier ==
  online /\ ~stale =>
    IF queryLost THEN Carriers = {} ELSE \E c \in Carriers : Carriers = {c}

\* A query that waits for its answer is watched, whatever was answered late, given up
\* or queried twice before, or the cycle would wait for ever.
WaitingIsWatched ==
  online /\ s88WaitingReply => s88ResponseTimer \/ timeouts > 0

\* The queue is never left without its timer, and its overflow is told once it is
\* full and may be told again once half of it is empty.
QueueServed ==
  online => /\ txQueue # <<>> => txTimerArmed
            /\ Len(txQueue) >= QueueLimit => txOverflowFired
            /\ 2 * Len(txQueue) < QueueLimit => ~txOverflowFired

\* Every answer is reported for the contact it is about and every contact asked in turn,
\* as long as no answer is late and no watchdog stale; a query that finds the line
\* without late answers ends what earlier ones have caused.
lineSound == ~late /\ ~stale
unreported == IF lineSound THEN answers ELSE <<>>
Reports == INSTANCE FeedbackReports WITH
  Item <- Contact, NoReport <- NoContact, Silent <- {}, Lossy <- TRUE,
  due <- unreported, sound <- lineSound

ContactsReported == Reports!Spec

\* Every contact is asked again and again, although stations do not answer, answer
\* late or hold the queue back, unless the queue drops a query. (A stale watchdog can
\* start a second round of queries, and the two can skip contacts for ever.)
ContactsPolled ==
  \A c \in Contact : TRUE ~> s88LastQueried = c \/ queryLost \/ stale \/ ~online

\* kernel.cpp:577: "if the device doesn't respond within the timeout, skip this contact
\* and continue - prevents the cycle from hanging." While the interface is online the
\* cycle comes to its end, and begins anew, again and again.
CycleContinues == TRUE ~> s88Timer \/ ~online
=============================================================================
