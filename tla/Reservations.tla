--------------------------- MODULE Reservations ---------------------------
(***************************************************************************)
(* What reserved paths may rely on. BlockPath::release asks neither        *)
(* whether its path is reserved nor who holds what it frees, so a delayed  *)
(* release whose handler comes when its path has been released already     *)
(* takes the sides and elements of other reserved paths away. A history    *)
(* variable, which no step of Interlocking depends on, remembers those     *)
(* paths; the properties say what holds for all the others.                *)
(***************************************************************************)
EXTENDS Interlocking

VARIABLE robbed   \* reserved paths that a release of another path took something from

reservationVars == <<vars, robbed>>

PathEnds(p) == {<<From[p], FromSide[p]>>, <<To[p], ToSide[p]>>}

\* An element that is freed for p when it is freed for q.
FreedTogether(p, q, e) ==
  CASE Kind[e] = "bridge" -> Needs(p, e) \cap Needs(q, e) # {}
    [] Kind[e] = "crossOver" -> FALSE
    [] OTHER -> Needs(p, e) # {} /\ Needs(q, e) # {}

Meet(p, q) ==
  \/ PathEnds(p) \cap PathEnds(q) # {}
  \/ \E e \in Element : FreedTogether(p, q, e)

\* Slips: turnouts alone may be locked for two paths at once, in the same position.
ShareTurnout(p, q) == \E e \in Element : Kind[e] = "turnout" /\ FreedTogether(p, q, e)

\* Whom the release of q robs. A path that is reserved and has everything it reserved
\* is entitled to release it, and robs only those it shares a turnout's lock with.
Victims(q) ==
  {p \in Path \ {q} :
     /\ isReserved[p]
     /\ IF isReserved[q] /\ q \notin robbed THEN ShareTurnout(p, q) ELSE Meet(p, q)}

Robs(q) ==
  robbed' = IF ReleaseRefused(q) \/ crashed' THEN robbed ELSE (robbed \cup Victims(q)) \ {q}

RReserve(p) == Reserve(p) /\ robbed' = robbed \ {p}
RUserRelease(p) == UserRelease(p) /\ Robs(p)
RTimerHandler(p) ==
  /\ TimerHandler(p)
  /\ \/ timer[p] = "expired" /\ Robs(p)
     \/ timer[p] = "cancelled" /\ UNCHANGED robbed

RInit == Init /\ robbed = {}

RNext ==
  /\ ~Halted
  /\ \/ \E p \in Path : RReserve(p) \/ RUserRelease(p) \/ RTimerHandler(p)
     \/ OtherStep /\ UNCHANGED robbed
  /\ Cardinality(Scheduled') <= MaxScheduled

RSpec == RInit /\ [][RNext]_reservationVars

-----------------------------------------------------------------------------
(* Properties.                                                             *)

Intact(p) == isReserved[p] /\ p \notin robbed

\* A reserved path keeps everything BlockPath::reserve took for it: both block sides,
\* the lock of every element, the turnouts in the locked position and the direction
\* controls open, whatever the user operates, whatever other paths are reserved, and
\* whatever paths that hold theirs are released. Only two things may rob it: the handler
\* of blockpath.cpp:731 for a path that meets it and is no longer reserved (or has been
\* robbed itself), and the release of a path over the same slip.
ReservationHeld ==
  \A p \in Path : Intact(p) =>
    /\ \A end \in PathEnds(p) : reservedPaths[end[1]][end[2]] = p
    /\ \A r \in Route[p] :
         /\ LockValue(r[1], r[2]) \subseteq lock[r[1]]
         /\ Kind[r[1]] = "turnout" => position[r[1]] \in LockValue(r[1], r[2])
         /\ Kind[r[1]] = "direction" => position[r[1]] \in {r[2], "both"}

\* Nothing stays taken by a path that is not reserved: release gives back all that
\* reserve took, however late it comes, so that another train can use the route. The
\* exception are hidden crossovers, which BlockPath::release never visits.
NoLeakedReservation ==
  /\ \A b \in Block, s \in Side : \A p \in Path :
       reservedPaths[b][s] = p => isReserved[p] /\ <<b, s>> \in PathEnds(p)
  /\ \A e \in Element :
       lock[e] # {} /\ Kind[e] # "crossOver" => \E p \in Path : isReserved[p] /\ Needs(p, e) # {}

\* Two paths that are reserved and have not been robbed have no block side in common,
\* and an element only as the two levels of a bridge or as a turnout that both need in
\* the same position: trains cannot meet, whoever was robbed before.
ReservedPathsCompatible ==
  \A p, q \in Path : p # q /\ Intact(p) /\ Intact(q) =>
    /\ PathEnds(p) \cap PathEnds(q) = {}
    /\ \A e \in Element : \A v \in Needs(p, e), u \in Needs(q, e) :
         \/ Kind[e] = "bridge" /\ v # u
         \/ Kind[e] = "turnout" /\ LockValue(e, v) = LockValue(e, u)

\* The manual on set_position: false when the "turnout is locked e.g. due to a reserved
\* path". The user throws no turnout of a reserved path to a position it is not in.
ReservedTurnoutLocked ==
  [][\A e \in Element : \A v \in Values[e] :
       Kind[e] = "turnout" /\ SetPosition(e, v) =>
         \A p \in Path : isReserved[p] => \A u \in Needs(p, e) : v \in LockValue(e, u)]_vars
=============================================================================
