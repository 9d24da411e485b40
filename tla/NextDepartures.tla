--------------------------- MODULE NextDepartures ---------------------------
(***************************************************************************)
(* `ptv next` on the compiled timetable (cmd/next_gtfs.go): the departures *)
(* of a stop in the next NextHours hours, joined with a GTFS Realtime feed *)
(* of trip updates and with the platforms that the PTV API knows.          *)
(*                                                                         *)
(* The clock is read twice, for the service dates and for the window, and  *)
(* runs on in between.  A trip update names a trip by its source id and    *)
(* its start date, a PTV departure only by a time and a label.             *)
(***************************************************************************)
EXTENDS TimetableWindow

CONSTANTS Starts,     \* when the command may start
          NextHours,  \* the length of the board
          MatchSlack, \* how far apart two departures may be and still match
          Labels,     \* the label of each route, None where it has none
          Feeds,      \* what a trip-update endpoint may answer with
          Departures, \* what the PTV API may answer with
          Limits,     \* --limit, 0 for none
          Window, Skew

Realtime == INSTANCE RealtimeSnapshot

\* The board is shorter than the shortest day, and the day before the command
\* and the day after it are dates of the model.
ASSUME BoardAssumption ==
  /\ NextHours \in 0 .. 21 /\ Limits \subseteq Nat
  /\ \A t \in Starts : t \in Int /\ Midnight[1] <= t /\ t < Midnight[LastDay]

\* A decoded message; what is absent from it is nothing that it may hold.
Decoded(u) == /\ u = [trip |-> u.trip, date |-> u.date, rel |-> u.rel, stamp |-> u.stamp,
                      state |-> u.state, stops |-> u.stops]
              /\ \A s \in {"current", "stale", "unknown", "future"} : [u EXCEPT !.state = s] # None
              /\ u.stops \in Seq({u.stops[k] : k \in DOMAIN u.stops})
              /\ \A k \in DOMAIN u.stops : u.stops[k] # None
ASSUME FeedsAssumption ==
  \A m \in Feeds : /\ m # None
                   /\ m.entities \in Seq({m.entities[i] : i \in DOMAIN m.entities})
                   /\ \A i \in DOMAIN m.entities : m.entities[i].update # None => Decoded(m.entities[i].update)

VARIABLES
  boardStep,  \* where the command is, "idle" before it starts
  clock,
  stop,       \* the stop resolved
  route,      \* the route asked for, None for all
  limit,      \* the limit asked for
  date, now,  \* the two readings of the clock
  planned,    \* the departures found in the timetable, sorted and cut
  message,    \* what the trip-update feed answered, None if it did not
  board       \* the rows shown

boardVars == <<boardStep, clock, stop, route, limit, date, now, planned, message, board>>

BoardInit ==
  /\ boardStep = "idle" /\ clock = 0 /\ stop = None /\ route = None /\ limit = 0
  /\ date = 0 /\ now = 0 /\ planned = <<>> /\ message = None /\ board = <<>>

StopRow(id) == CHOOSE s \in store.stops : s.id = id

(***************************************************************************)
(* The stop and the route.                                                 *)
(***************************************************************************)

\* canonicalGTFSStop: what is found by name is replaced by its parent.
CanonicalStop(s) == IF s.parent = None THEN s.id ELSE s.parent

\* An id is taken as it is, a name leads to the parent; neither may be found.
ResolveStop ==
  /\ outcome = "compiled" /\ boardStep = "idle" /\ query = None
  /\ \/ \E s \in store.stops : stop' \in {s.id, CanonicalStop(s)} /\ boardStep' = "stop"
     \/ boardStep' = "failed" /\ UNCHANGED stop
  /\ clock' \in Starts /\ route' \in {None} \cup IdsOf(store.routes) /\ limit' \in Limits
  /\ UNCHANGED <<date, now, planned, message, board>>

ReadDate == /\ boardStep = "stop" /\ boardStep' = "date" /\ date' = LocalDate(clock)
            /\ UNCHANGED <<clock, stop, route, limit, now, planned, message, board>>

TimePasses == /\ boardStep = "date" /\ clock' = clock + 1 /\ clock < Midnight[date + 1]
              /\ UNCHANGED <<boardStep, stop, route, limit, date, now, planned, message, board>>

Children(id) == {s.id : s \in {x \in store.stops : x.parent = id}}

\* StopDetail: a station's routes are those of its own children.
DetailStops == {stop} \cup IF StopRow(stop).kind = 1 THEN Children(stop) ELSE {}

RoutesServing(stops) ==
  {store.trips[store.times[i].trip].route : i \in {j \in DOMAIN store.times : store.times[j].stop \in stops}}

\* ensureGTFSRouteServesStop.
ReadNow ==
  /\ boardStep = "date"
  /\ now' = clock
  /\ boardStep' = IF route = None \/ route \in RoutesServing(DetailStops) THEN "now" ELSE "failed"
  /\ UNCHANGED <<clock, stop, route, limit, date, planned, message, board>>

(***************************************************************************)
(* The departures.                                                         *)
(***************************************************************************)

\* StopDepartures: a platform stands for its whole station.
BoardStops ==
  LET top == CanonicalStop(StopRow(stop))
  IN  IF StopRow(top).kind = 1 THEN {top} \cup Children(top) ELSE {top}

\* Mutated form: the day before is left out.
NextServiceDatesAhead == {date, date + 1}

NextServiceDates == {date - 1, date, date + 1}

Departure(d, c) == [day |-> d, trip |-> c.trip, seq |-> c.fromSeq, stop |-> c.from,
                    time |-> ServiceDayAnchor(d) + c.dep]

StopDepartures(d) ==
  {Departure(d, c) : c \in {x \in store.connections :
     /\ x.service \in ServicesOn(store, d) /\ x.from \in BoardStops
     /\ route \in {None, store.trips[x.trip].route}}}

\* By time; those at one time by date, then by connection_key.
Before(a, b) ==
  \/ a.time < b.time
  \/ a.time = b.time /\ (\/ a.day < b.day
                         \/ a.day = b.day /\ (RowBefore(a.trip, b.trip) \/ (a.trip = b.trip /\ a.seq < b.seq)))

Sorted(rows) == [k \in 1 .. Cardinality(rows) |->
                   CHOOSE r \in rows : Cardinality({o \in rows : Before(o, r)}) = k - 1]

Upcoming == {r \in UNION {StopDepartures(d) : d \in NextServiceDates} :
               now <= r.time /\ r.time <= now + NextHours}

Cut(rows) == IF limit > 0 /\ Len(rows) > limit THEN SubSeq(rows, 1, limit) ELSE rows

QueryDepartures ==
  /\ boardStep = "now" /\ boardStep' = "planned"
  /\ planned' = Cut(Sorted(Upcoming))
  /\ UNCHANGED <<clock, stop, route, limit, date, now, message, board>>

(***************************************************************************)
(* The trip updates.                                                       *)
(***************************************************************************)
SourceId(id) == id[2]

\* The first stop update that does not name another stop or another call.
StopUpdateOf(r, update) ==
  LET Names(u) == u.seq \in {None, r.seq} /\ u.stop \in {None, SourceId(r.stop)}
      matching == {k \in DOMAIN update.stops : Names(update.stops[k])}
  IN  IF matching = {} THEN None
      ELSE update.stops[CHOOSE k \in matching : \A j \in matching : k <= j]

Estimate(r, u) == CASE u # None /\ u.dep # None -> u.dep
                    [] u # None /\ u.dep = None /\ u.delay # None -> r.time + u.delay
                    [] OTHER -> None

Row(r, estimate, status) == [departure |-> r, label |-> Labels[SourceId(store.trips[r.trip].route)],
                             estimate |-> estimate, status |-> status, platform |-> None]

\* Mutated form: the update of any day of the trip.
TripUpdateOfAnyDay(r, snapshot) ==
  LET found == {i \in DOMAIN snapshot.updates : snapshot.updates[i].trip = SourceId(store.trips[r.trip].id)}
  IN  IF found = {} THEN None ELSE snapshot.updates[CHOOSE i \in found : TRUE]

TripUpdateOf(r, snapshot) ==
  Realtime!FindTripUpdate(snapshot, SourceId(store.trips[r.trip].id), r.day)

\* applyTripUpdate.
Joined(r, snapshot) ==
  LET update == TripUpdateOf(r, snapshot)
  IN  IF update = None THEN Row(r, None, "scheduled")
      ELSE LET u == StopUpdateOf(r, update)
           IN  Row(r, Estimate(r, u), IF update.rel = "canceled" THEN "canceled"
                                      ELSE IF u # None /\ u.skipped THEN "skipped" ELSE "scheduled")

JoinTripUpdates ==
  /\ boardStep = "planned" /\ boardStep' = "joined"
  /\ \/ message' = None /\ board' = [i \in DOMAIN planned |-> Row(planned[i], None, "scheduled")]
     \/ \E m \in Feeds :
          LET snapshot == Realtime!NormalizeSnapshot(m, clock)
              rows == [i \in DOMAIN planned |-> Joined(planned[i], snapshot)]
          IN  message' = m /\ board' = Realtime!At(rows, {i \in DOMAIN rows : rows[i].status # "canceled"})
  /\ UNCHANGED <<clock, stop, route, limit, date, now, planned>>

(***************************************************************************)
(* The platforms.                                                          *)
(***************************************************************************)

\* nextDepartureMatches; a row without a label matches any.
Matches(row, v) == /\ row.departure.time - v.time \in -MatchSlack .. MatchSlack
                   /\ row.label = None \/ v.label = None \/ row.label = v.label

MatchesOf(v) == {i \in DOMAIN board : Matches(board[i], v)}

\* uniqueNextDepartureMatch.
UniqueMatch(i, v) == MatchesOf(v) = {i}

\* A PTV departure that fits one row alone is merged into it; the last one wins.
MergePlatforms ==
  /\ boardStep = "joined" /\ boardStep' = "merged"
  /\ \/ UNCHANGED board
     \/ \E answer \in Departures :
          LET Fitting(i) == {k \in DOMAIN answer : UniqueMatch(i, answer[k])}
              Last(ks) == CHOOSE k \in ks : \A j \in ks : j <= k
          IN  board' = [i \in DOMAIN board |->
                          IF Fitting(i) = {} THEN board[i]
                          ELSE [board[i] EXCEPT !.platform = answer[Last(Fitting(i))].platform]]
  /\ UNCHANGED <<clock, stop, route, limit, date, now, planned, message>>

FilterPlatform ==
  /\ boardStep = "merged" /\ boardStep' = "printed"
  /\ \/ UNCHANGED board
     \/ \E p \in {board[i].platform : i \in DOMAIN board} \ {None} :
          board' = Realtime!At(board, {i \in DOMAIN board : board[i].platform = p})
  /\ UNCHANGED <<clock, stop, route, limit, date, now, planned, message>>

BoardNext == \/ ResolveStop \/ ReadDate \/ TimePasses \/ ReadNow \/ QueryDepartures
             \/ JoinTripUpdates \/ MergePlatforms \/ FilterPlatform

\* A process compiles an archive and runs the command on it.
BoardSpec ==
  /\ WindowInit /\ BoardInit
  /\ [][\/ CompilerNext /\ UNCHANGED <<windowVars, boardVars>>
        \/ BoardNext /\ UNCHANGED <<compilerVars, windowVars>>]_<<compilerVars, windowVars, boardVars>>

(***************************************************************************)
(* Properties.                                                             *)
(***************************************************************************)

\* The stop and all that belongs to its station; a boarding area stands for
\* its platform.
PlaceOf(s) == IF s.parent = None THEN s ELSE StopRow(s.parent)
Family == {s.id : s \in {x \in store.stops : \/ x.id = PlaceOf(StopRow(stop)).id
                                             \/ PlaceOf(StopRow(stop)).kind = 1
                                                /\ x.parent = PlaceOf(StopRow(stop)).id}}

\* Unless it was cut, the board of a stop holds every run that leaves it within
\* the window, from whichever service day: also when midnight passes between the
\* two readings of the clock, and when clocks change.  Only runs that leave two
\* days or more after the noon their service day is counted from are out of its
\* reach.
BoardIsComplete ==
  boardStep = "planned" /\ limit = 0 =>
    {planned[i] : i \in DOMAIN planned} =
      {r \in UNION {{Departure(d, c) : c \in {x \in store.connections :
                       x.service \in ServicesOn(store, d) /\ x.dep < 47}} : d \in Days} :
         /\ r.stop \in Family /\ now <= r.time /\ r.time <= now + NextHours
         /\ route \in {None, store.trips[r.trip].route}}
      \cup {r \in {planned[i] : i \in DOMAIN planned} : r.time - ServiceDayAnchor(r.day) >= 47}

\* What the feed says of a run of one day says nothing of the same trip on
\* another: an estimate comes from the last entity about this very run, and a
\* run that entity cancels is not on the board.
Says(r) == {i \in DOMAIN message.entities :
              LET e == message.entities[i]
              IN  /\ ~e.deleted /\ e.update # None
                  /\ e.update.trip = SourceId(store.trips[r.trip].id) /\ e.update.date = r.day}

JoinIsExact ==
  boardStep \in {"joined", "merged", "printed"} =>
    \A i \in DOMAIN board :
      LET r == board[i].departure
      IN  /\ board[i].estimate # None => message # None /\ Says(r) # {}
          /\ message # None /\ Says(r) # {} =>
               LET last == message.entities[CHOOSE k \in Says(r) : \A j \in Says(r) : j <= k].update
               IN  /\ last.rel # "canceled"
                   /\ board[i].estimate # None =>
                        \E u \in {last.stops[k] : k \in DOMAIN last.stops} :
                          /\ u.stop \in {None, SourceId(r.stop)}
                          /\ board[i].estimate \in {u.dep} \cup IF u.delay = None THEN {} ELSE {r.time + u.delay}
=============================================================================
