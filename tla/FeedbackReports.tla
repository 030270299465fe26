--------------------------- MODULE FeedbackReports ---------------------------
(***************************************************************************)
(* What a receiver of polled feedback promises: while the line is sound,   *)
(* everything that the station was asked for is reported, in the order     *)
(* asked, and as what it is. Abstract specification of the contact cycle   *)
(* of the 6023 and of the two receive state machines of the 6050.          *)
(***************************************************************************)
EXTENDS Sequences, SequencesExt

CONSTANTS
  Item,         \* what can be asked for: a contact, a module, an event
  NoReport,     \* a report that is of no item (not in Item)
  Silent,       \* items that nobody wants to hear of
  Lossy         \* may the station leave a question unanswered on a sound line?

VARIABLES
  due,          \* what the station has been asked for and not yet reported
  sound,        \* is the line sound?
  reported      \* the last report

feedback == <<due, sound, reported>>

Init == due = <<>> /\ sound = TRUE /\ reported = NoReport

\* The station is asked on a line on which nothing else is due.
Poll ==
  /\ sound /\ due = <<>>
  /\ due' \in Seq(Item)
  /\ UNCHANGED <<sound, reported>>

\* What is due next is reported; the station may be asked for more at once.
Report ==
  /\ sound /\ due # <<>> /\ Head(due) \notin Silent
  /\ reported' = Head(due)
  /\ due' \in Seq(Item) /\ IsPrefix(Tail(due), due')
  /\ UNCHANGED sound

\* What nobody listens to is passed over.
Ignore ==
  /\ sound /\ due # <<>>
  /\ Head(due) \in Silent
  /\ due' = Tail(due)
  /\ UNCHANGED <<sound, reported>>

Unanswered ==
  /\ Lossy /\ sound
  /\ \E i \in DOMAIN due : due' = RemoveAt(due, i)
  /\ UNCHANGED <<sound, reported>>

\* Something was lost or late on the line.
Disturb ==
  /\ sound' = FALSE
  /\ due' = <<>>
  /\ UNCHANGED reported

\* A line that is not sound promises nothing, and may become sound.
Unsound ==
  /\ ~sound
  /\ sound' \in BOOLEAN
  /\ due' \in Seq(Item)
  /\ reported' \in Item \cup {NoReport}

Next == Poll \/ Report \/ Ignore \/ Unanswered \/ Disturb \/ Unsound

Spec == Init /\ [][Next]_feedback
=============================================================================
