--------------------------- MODULE TimetableWindow ---------------------------
(***************************************************************************)
(* What the planner loads from a compiled generation                       *)
(* (internal/gtfs/timetable.go and query_connections.go): the connections  *)
(* of the service days around a query, turned into instances with absolute *)
(* times, the walking graph, the transfer rules and the continuations.     *)
(*                                                                         *)
(* Time is counted in hours.  A service day is anchored twelve hours       *)
(* before its noon (internal/localtime), so on the day summer time starts  *)
(* it begins before the local midnight.                                    *)
(***************************************************************************)
EXTENDS FeedCompiler

CONSTANTS LastDay,    \* bound: local dates are 0 .. LastDay
          DayLength,  \* the hours of each date: 23 and 25 when clocks change
          Queries,    \* the windows asked for: instant, direction, horizon
          DefaultTransfer  \* defaultTransferSeconds

VARIABLES
  query,   \* the query answered last, None before the first
  window   \* what was loaded for it

windowVars == <<query, window>>

Days == 0 .. LastDay

(***************************************************************************)
(* Dates and instants.                                                     *)
(***************************************************************************)
Midnight[d \in 0 .. LastDay + 1] == IF d = 0 THEN 0 ELSE Midnight[d-1] + DayLength[d-1]

LocalDate(t) == CHOOSE d \in Days : Midnight[d] <= t /\ t < Midnight[d+1]

\* Clocks change between midnight and noon.
Noon(d) == Midnight[d] + DayLength[d] - 12

ServiceDayAnchor(d) == Noon(d) - 12

\* activeServiceKeys: the calendar, then the exceptions of the day.
ServicesOn(t, d) ==
  LET On(type) == {e.id : e \in {x \in t.exceptions : x.date = d /\ x.type = type}}
  IN  ({s.id : s \in {x \in t.services : d % 7 \in x.days /\ x.from <= d /\ d <= x.to}}
         \cup On(Added)) \ On(Removed)

WindowStart(q) == IF q.latest THEN q.at - q.horizon ELSE q.at
WindowEnd(q) == IF q.latest THEN q.at ELSE q.at + q.horizon

\* A window that the dates of the model hold.
Held(q) == /\ q.at \in Int /\ q.horizon \in Nat /\ q.latest \in BOOLEAN
           /\ MaxSeconds <= WindowStart(q) /\ WindowEnd(q) < Midnight[LastDay + 1]

\* A day has 24 hours but for the two on which clocks change, and the dates of
\* the model hold whatever is asked for.
ASSUME DaysAssumption == LastDay \in Nat /\ DayLength \in [Days -> 23 .. 25]
ASSUME DefaultAssumption == DefaultTransfer \in Nat
ASSUME QueriesAssumption == \A q \in Queries : Held(q)

\* Mutated form: yesterday and today.
WindowDatesShort(q) == LocalDate(WindowStart(q)) - 1 .. LocalDate(WindowEnd(q))

\* serviceDatesForWindow: as far back as a service day can reach.
WindowDates(q) == LocalDate(WindowStart(q) - MaxSeconds) .. LocalDate(WindowEnd(q))

LowSeconds(q, d) == IF WindowStart(q) > ServiceDayAnchor(d) THEN WindowStart(q) - ServiceDayAnchor(d) ELSE 0
HighSeconds(q, d) == IF WindowEnd(q) - ServiceDayAnchor(d) > MaxSeconds THEN MaxSeconds
                     ELSE WindowEnd(q) - ServiceDayAnchor(d)

(***************************************************************************)
(* Connections.                                                            *)
(***************************************************************************)
Instance(d, c) == [day |-> d, trip |-> c.trip, from |-> c.from, to |-> c.to,
                   fromSeq |-> c.fromSeq, toSeq |-> c.toSeq,
                   dep |-> ServiceDayAnchor(d) + c.dep, arr |-> ServiceDayAnchor(d) + c.arr,
                   pickup |-> c.pickup, dropOff |-> c.dropOff]

\* queryConnectionStream: departures are looked at forwards, arrivals backwards.
InWindow(q, d, c) == (IF q.latest THEN c.arr ELSE c.dep) \in LowSeconds(q, d) .. HighSeconds(q, d)

LoadedConnections(q) ==
  UNION {{Instance(d, c) : c \in {x \in store.connections :
                                    x.service \in ServicesOn(store, d) /\ InWindow(q, d, x)}} :
         d \in WindowDates(q)}

InstancesOf(conns, trip) == {[day |-> c.day, trip |-> c.trip] : c \in {x \in conns : x.trip = trip}}

(***************************************************************************)
(* Continuations, between the last connection of one instance and the      *)
(* first of another, when the window holds them.                           *)
(***************************************************************************)
FirstSeq(trip) == CHOOSE s \in {c.fromSeq : c \in {x \in store.connections : x.trip = trip}} :
                    \A c \in store.connections : c.trip = trip => s <= c.fromSeq
LastSeq(trip) == CHOOSE s \in {c.toSeq : c \in {x \in store.connections : x.trip = trip}} :
                    \A c \in store.connections : c.trip = trip => s >= c.toSeq

Firsts(conns) == {c \in conns : c.fromSeq = FirstSeq(c.trip)}

\* Mutated form: the last one that the window happens to hold.
LastsOfWindow(conns) ==
  {c \in conns : \A o \in conns : o.trip = c.trip /\ o.day = c.day => c.toSeq >= o.toSeq}

Lasts(conns) == {c \in conns : c.toSeq = LastSeq(c.trip)}

\* The last connections `a` and first connections `b` that a trip link joins.
Joins(l, conns) ==
  {p \in Lasts(conns) \X Firsts(conns) :
     LET a == p[1]
         b == p[2]
     IN  /\ store.trips[a.trip].id = l.fromTrip /\ store.trips[b.trip].id = l.toTrip
         /\ l.from \in {None, a.to} /\ l.to \in {None, b.from}
         /\ <<a.trip, a.day>> # <<b.trip, b.day>>
         /\ a.arr <= b.dep}

\* Mutated form: every later instance, not the next one.
NextJoinsAll(l, conns) == Joins(l, conns)

NextJoins(l, conns) ==
  {p \in Joins(l, conns) : \A o \in Joins(l, conns) : o[1] = p[1] => p[2].dep <= o[2].dep}

Continuation(l, p) == [fromDay |-> p[1].day, fromTrip |-> p[1].trip,
                       toDay |-> p[2].day, toTrip |-> p[2].trip,
                       from |-> l.from, to |-> l.to, type |-> l.type]

SamePair(k, l) == /\ k.fromDay = l.fromDay /\ k.fromTrip = l.fromTrip
                  /\ k.toDay = l.toDay /\ k.toTrip = l.toTrip

\* Mutated form: a prohibition blocks the permission of the same ends only.
LoadContinuationsSameEnds(conns) ==
  LET all == UNION {{Continuation(l, p) : p \in NextJoins(l, conns)} : l \in store.links}
  IN  {k \in all : k.type = StayTransfer =>
         ~\E f \in all : f.type = LeaveTransfer /\ SamePair(f, k) /\ f.from = k.from /\ f.to = k.to}

\* A prohibition that reaches a pair of instances takes every permission away.
LoadContinuations(conns) ==
  LET all == UNION {{Continuation(l, p) : p \in NextJoins(l, conns)} : l \in store.links}
  IN  {k \in all : k.type = StayTransfer =>
         ~\E f \in all : f.type = LeaveTransfer /\ SamePair(f, k)}

(***************************************************************************)
(* Walking edges and transfer rules.                                       *)
(***************************************************************************)
SecondsOr(n, default) == IF n = None \/ n = 0 THEN default ELSE n

Edge(from, to, secs, kind) == [from |-> from, to |-> to, secs |-> secs, kind |-> kind]

PathwayEdges ==
  UNION {LET secs == SecondsOr(p.secs, DefaultTransfer)
         IN  {Edge(p.from, p.to, secs, "pathway")}
               \cup IF p.both THEN {Edge(p.to, p.from, secs, "pathway")} ELSE {} :
         p \in store.pathways}

\* expandRuleStops.
RuleStops(id) == PlatformsBelow(store.stops, id)

WalkRules == {r \in store.transfers : r.type <= NoTransfer}

\* The minimum of a rule for some routes or trips is not how long the walk is.
PhysicalSeconds(r) == IF r.source = "gtfs" /\ ~Unqualified(r) THEN DefaultTransfer
                      ELSE SecondsOr(r.min, DefaultTransfer)

TransferEdges ==
  UNION {{Edge(p[1], p[2], PhysicalSeconds(r), r.source) : p \in RuleStops(r.from) \X RuleStops(r.to)} :
         r \in {x \in WalkRules : x.type < NoTransfer}}

\* addEdge: a pathway before anything else, then the shortest.
Beats(e, o) == \/ e.kind = "pathway" /\ o.kind # "pathway"
               \/ (e.kind = "pathway" <=> o.kind = "pathway") /\ e.secs < o.secs

\* Of two rules that take as long, the feed's is met before a generated one.
SameBut(e, o) == e.secs = o.secs /\ e.kind = "proximity" /\ o.kind = "gtfs"

LoadWalking ==
  LET all == {e \in PathwayEdges \cup TransferEdges : e.from # e.to}
  IN  {e \in all : ~\E o \in all : o.from = e.from /\ o.to = e.to /\ (Beats(o, e) \/ SameBut(e, o))}

\* A rule that names a trip holds for each loaded instance of it.
RuleInstances(trip, conns) ==
  IF trip = None THEN {None} ELSE InstancesOf(conns, TripKey(store.trips, trip))

LoadRules(conns) ==
  UNION {{[fromStop |-> a, toStop |-> b, type |-> r.type, min |-> r.min,
           fromRoute |-> r.fromRoute, toRoute |-> r.toRoute, fromTrip |-> f, toTrip |-> t] :
            a \in RuleStops(r.from), b \in RuleStops(r.to),
            f \in RuleInstances(r.fromTrip, conns), t \in RuleInstances(r.toTrip, conns)} :
         r \in {x \in WalkRules : x.source = "gtfs"}}

(***************************************************************************)
(* Loading.                                                                *)
(***************************************************************************)
\* What a query outside the coverage gets: an error and no timetable.
NoWindow == [error |-> "outside the coverage"]

Load(q) ==
  LET conns == LoadedConnections(q)
      outside == LocalDate(q.at) \notin store.coverage.start .. store.coverage.end
  IN  IF outside /\ conns = {} THEN NoWindow
      ELSE [connections |-> conns, walk |-> LoadWalking, rules |-> LoadRules(conns),
            continuations |-> LoadContinuations(conns)]

WindowInit == Init /\ query = None /\ window = NoWindow

LoadTimetableWindow(q) ==
  /\ outcome = "compiled"
  /\ query' = q
  /\ window' = Load(q)
  /\ UNCHANGED compilerVars

WindowNext == \/ CompilerNext /\ UNCHANGED windowVars
              \/ \E q \in Queries : LoadTimetableWindow(q)

WindowSpec == WindowInit /\ [][WindowNext]_<<compilerVars, windowVars>>

(***************************************************************************)
(* Properties.                                                             *)
(***************************************************************************)

\* The transaction is all or nothing, its rows refer to rows it holds, and
\* only a compiled generation is asked.
WindowTypeOK ==
  /\ outcome \in {"running", "compiled", "failed"}
  /\ archive # <<>> => feed \in DOMAIN archive
  /\ store # NoRows <=> outcome = "compiled"
  /\ outcome = "failed" => tx = NoRows
  /\ \A i \in DOMAIN tx.times : tx.times[i].trip \in DOMAIN tx.trips
  /\ \A c \in tx.connections : c.trip \in DOMAIN tx.trips /\ c.fromSeq < c.toSeq
  /\ query # None => query \in Queries /\ outcome = "compiled"

\* A rule that forbids a change for everybody (type 3, no route, no trip) is
\* never undone by a generated walk, whatever level of the hierarchy it names.
\* TECH.md: "Explicit prohibitions override generated edges".
UpFrom(id) == {id, ParentId(store.stops, id)}
                \cup IF ParentId(store.stops, id) = None THEN {}
                     ELSE {ParentId(store.stops, ParentId(store.stops, id))}

ForbiddenStaysForbidden ==
  outcome = "compiled" =>
    ~\E r, g \in store.transfers :
       /\ r.type = NoTransfer /\ Unqualified(r) /\ g.source = "proximity"
       /\ r.from \in UpFrom(g.from) /\ r.to \in UpFrom(g.to)

\* Freshness and the planner trust the coverage: no service runs on a day that
\* is not in it.
NothingRunsOutsideCoverage ==
  outcome = "compiled" =>
    /\ store.coverage.start <= store.coverage.end
    /\ \A d \in Days : ServicesOn(store, d) # {} =>
         store.coverage.start <= d /\ d <= store.coverage.end

Moment(q, c) == IF q.latest THEN c.arr ELSE c.dep

\* The connections of service day d whose moment is in the window asked for.
Runs(q, d) ==
  {i \in {Instance(d, c) : c \in {x \in store.connections : x.service \in ServicesOn(store, d)}} :
     WindowStart(q) <= Moment(q, i) /\ Moment(q, i) <= WindowEnd(q)}

Answered(i) == window # NoWindow /\ i \in window.connections

\* Every run in the window is in the timetable, services of earlier days that
\* run on after midnight and days of 23 and 25 hours included, and a query that
\* is refused has none; a run counts once the date of its service day has begun.
NothingMissed ==
  query # None =>
    \A d \in Days : d <= LocalDate(WindowEnd(query)) => \A i \in Runs(query, d) : Answered(i)

FirstOf(trip) == CHOOSE c \in store.connections : c.trip = trip /\ c.fromSeq = FirstSeq(trip)
LastOf(trip) == CHOOSE c \in store.connections : c.trip = trip /\ c.toSeq = LastSeq(trip)

\* Staying on board leads to the next run of the linked trip: none that the
\* feed has, in the window or not, leaves in between.
StayOnIsTheNextRun ==
  query # None /\ window # NoWindow =>
    \A k \in window.continuations, d \in Days :
      LET start == FirstOf(k.toTrip)
      IN  /\ start.service \in ServicesOn(store, d)
          /\ <<k.toTrip, d>> # <<k.fromTrip, k.fromDay>>
          => ~(/\ Instance(k.fromDay, LastOf(k.fromTrip)).arr <= Instance(d, start).dep
               /\ Instance(d, start).dep < Instance(k.toDay, start).dep)

\* Passengers told to leave (type 5) are not kept on board by a permission for
\* the same two trips, whatever ends the two rules name or leave open.
ForbiddenStaysSeparate ==
  query # None /\ window # NoWindow =>
    ~\E k \in window.continuations, r \in store.transfers :
       /\ k.type = StayTransfer /\ r.type = LeaveTransfer
       /\ store.trips[k.fromTrip].id = r.fromTrip /\ store.trips[k.toTrip].id = r.toTrip
       /\ r.from \in {None, LastOf(k.fromTrip).to} /\ r.to \in {None, FirstOf(k.toTrip).from}

\* The planner widens its horizon when it finds nothing: what a narrow window
\* allows, a wider one from the same instant allows too.
WiderKeepsContinuations ==
  query # None /\ window # NoWindow =>
    \A q \in Queries :
      q.at = query.at /\ q.latest = query.latest /\ q.horizon >= query.horizon =>
        /\ window.connections \subseteq LoadedConnections(q)
        /\ window.continuations \subseteq LoadContinuations(LoadedConnections(q))
=============================================================================
