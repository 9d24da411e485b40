------------------------------ MODULE Journeys ------------------------------
(***************************************************************************)
(* What a journey is, and when it arrives at best: the reference the       *)
(* router (module ConnectionScan) is held against.  Nothing here scans:    *)
(* the connections a passenger can ride are a least fixpoint, walks are    *)
(* shortest paths, and a journey is judged leg by leg.  Only the meaning   *)
(* of transfer rules and of pickup and drop-off policies is shared with    *)
(* the scan.                                                               *)
(*                                                                         *)
(* A query q is a record: rows (connections in connection_key order), walk *)
(* (directed edges), rules, links (continuations), sources, targets, at    *)
(* (the instant), latest (arrive by) and conditional (AllowConditional).   *)
(***************************************************************************)
EXTENDS Integers, Sequences, FiniteSets

CONSTANTS Stops, Trips,
          RouteOf,    \* the route of each trip
          Any,        \* the wildcard of rules and continuations, and no trip
          Infinity    \* later than everything

MinOf(S) == CHOOSE x \in S : \A y \in S : x <= y
MaxOf(S) == CHOOSE x \in S : \A y \in S : x >= y

Leg(kind, trip, from, to, dep, arr, stay) ==
  [kind |-> kind, trip |-> trip, from |-> from, to |-> to, dep |-> dep, arr |-> arr, stay |-> stay]

\* PassengerActionPolicy.Allowed: regular, none, or on request.
Allowed(q, policy) == policy = "regular" \/ (policy = "request" /\ q.conditional)

(***************************************************************************)
(* Transfer rules.                                                         *)
(***************************************************************************)

\* Whether a rule speaks of changing from a trip, left at a stop, to another.
RuleMatches(r, fromTrip, fromStop, toTrip, toStop) ==
  /\ r.fromStop \in {Any, fromStop} /\ r.toStop \in {Any, toStop}
  /\ r.fromRoute \in {Any, RouteOf[fromTrip]} /\ r.toRoute \in {Any, RouteOf[toTrip]}
  /\ r.fromTrip \in {Any, fromTrip} /\ r.toTrip \in {Any, toTrip}

\* The precedence of GTFS: trips before routes before stops, and within a
\* class the number of stops named.
Specificity(r) ==
  LET Named(x) == IF x = Any THEN 0 ELSE 1
      stops == Named(r.fromStop) + Named(r.toStop)
      trips == Named(r.fromTrip) + Named(r.toTrip)
      routes == Named(r.fromRoute) + Named(r.toRoute)
      crossed == \/ r.fromTrip # Any /\ r.toRoute # Any
                 \/ r.fromRoute # Any /\ r.toTrip # Any
      class == CASE trips = 2 -> 6
                 [] trips = 1 /\ crossed -> 5
                 [] trips = 1 /\ ~crossed -> 4
                 [] trips = 0 /\ routes > 0 -> 1 + routes
                 [] trips = 0 /\ routes = 0 -> IF stops > 0 THEN 1 ELSE 0
  IN  100 * class + stops

\* The rules that match, by their place in the file.
MatchingRules(rules, fromTrip, fromStop, toTrip, toStop) ==
  {i \in DOMAIN rules : RuleMatches(rules[i], fromTrip, fromStop, toTrip, toStop)}

\* Those of the boarding stop are considered before the wildcards.
ConsideredBefore(rules, i, j) ==
  \/ rules[i].toStop # Any /\ rules[j].toStop = Any
  \/ (rules[i].toStop = Any <=> rules[j].toStop = Any) /\ i < j

\* selectTransferRule keeps the first of the most specific rules so far.
Champion(rules, ms) ==
  CHOOSE i \in ms : \A j \in ms \ {i} :
    \/ Specificity(rules[j]) < Specificity(rules[i])
    \/ Specificity(rules[j]) = Specificity(rules[i]) /\ ConsideredBefore(rules, i, j)

SameEffect(a, b) == a.type = b.type /\ a.min = b.min

\* A rule as specific as the best before it, and different, is an error, even
\* when a more specific one follows.
Conflicting(rules, ms) ==
  \E n \in ms :
    LET before == {i \in ms : ConsideredBefore(rules, i, n)}
        best == rules[Champion(rules, before)]
    IN  before # {} /\ Specificity(best) = Specificity(rules[n]) /\ ~SameEffect(best, rules[n])

\* When a passenger who got off at `alight` and is at the stop at `arrival`
\* may board under rule r.
ReadyUnder(r, arrival, alight) ==
  CASE r.type = "recommended" -> arrival
    [] r.type = "minimum" -> MaxOf({arrival, alight + r.min})
    [] r.type = "forbidden" -> Infinity

\* The same by the rules that match.
ReadyBy(rules, ms, arrival, alight) ==
  IF ms = {} THEN arrival ELSE ReadyUnder(rules[Champion(rules, ms)], arrival, alight)

(***************************************************************************)
(* Continuations: trip_links as the feed has them.                         *)
(***************************************************************************)
LinkMatches(l, type, a, b) == /\ l.type = type /\ l.fromTrip = a.trip /\ l.toTrip = b.trip
                              /\ l.fromStop \in {Any, a.to} /\ l.toStop \in {Any, b.from}

\* The last row of one trip, the first of another: may a rider stay on board?
MayStay(q, a, b) == /\ a.arrTime <= b.depTime
                    /\ \E l \in q.links : LinkMatches(l, "stay", a, b)
                    /\ ~\E l \in q.links : LinkMatches(l, "leave", a, b)

RowsOf(q, t) == {i \in DOMAIN q.rows : q.rows[i].trip = t}
IsFirst(q, i) == \A j \in RowsOf(q, q.rows[i].trip) : i <= j
IsLast(q, i) == \A j \in RowsOf(q, q.rows[i].trip) : j <= i

\* Two rows of a trip with nothing missing in between.
Adjoin(q, i, j) == /\ j = i + 1 /\ q.rows[i].trip = q.rows[j].trip
                   /\ q.rows[i].to = q.rows[j].from
                   /\ q.rows[i].arrTime <= q.rows[j].depTime

\* A trip some of whose segments were left out of the connections.
HasGap(q) == \E i \in 1 .. Len(q.rows) - 1 :
               q.rows[i].trip = q.rows[i + 1].trip /\ ~Adjoin(q, i, i + 1)

\* A trip goes forward in time, and is never back, at one instant, at a stop it
\* leaves at that instant.
RunsForward(q) ==
  \A i, j \in DOMAIN q.rows :
    i <= j /\ q.rows[i].trip = q.rows[j].trip =>
      /\ q.rows[i].depTime <= q.rows[j].depTime /\ q.rows[i].arrTime <= q.rows[j].arrTime
      /\ q.rows[j].to # q.rows[i].from \/ q.rows[j].arrTime # q.rows[i].depTime

\* A trip continues as one of a later row, or else one of its two segments at
\* the change takes time.
ContinuesForward(q) ==
  \A a, b \in DOMAIN q.rows :
    /\ IsLast(q, a) /\ IsFirst(q, b) /\ q.rows[a].arrTime <= q.rows[b].depTime
    /\ \E l \in q.links : LinkMatches(l, "stay", q.rows[a], q.rows[b])
    /\ b < a
    => q.rows[a].depTime # q.rows[b].depTime /\ q.rows[a].arrTime # q.rows[b].arrTime

Orderly(q) == RunsForward(q) /\ ContinuesForward(q)

(***************************************************************************)
(* The earliest arrival.                                                   *)
(***************************************************************************)

\* How one may walk: from where, to where and in what time, over no more edges
\* than there are stops; a shortest walk has no more.
Farther(q, near) == near \cup {<<x[1][1], x[2].to, x[1][3] + x[2].secs>> :
                                 x \in {y \in near \X q.walk : y[1][2] = y[2].from}}

Walks(q) ==
  LET walks[n \in 0 .. Cardinality(Stops)] ==
        IF n = 0 THEN {<<s, s, 0>> : s \in Stops} ELSE Farther(q, walks[n - 1])
  IN  walks[Cardinality(Stops)]

Walking(walks, a, b) == {w[3] : w \in {x \in walks : x[1] = a /\ x[2] = b}}

\* A passenger who got off row j can be on time for row i.
MayChange(q, walks, j, i) ==
  LET a == q.rows[j]
      b == q.rows[i]
      ms == MatchingRules(q.rules, a.trip, a.to, b.trip, b.from)
  IN  /\ Allowed(q, a.dropOff) /\ Allowed(q, b.pickup)
      /\ \E n \in Walking(walks, a.to, b.from) : ReadyBy(q.rules, ms, a.arrTime + n, a.arrTime) <= b.depTime

\* The rider of row j can ride row i next: on, staying on board, or by a change.
Follows(q, walks, j, i) ==
  \/ Adjoin(q, j, i)
  \/ IsLast(q, j) /\ IsFirst(q, i) /\ MayStay(q, q.rows[j], q.rows[i])
  \/ MayChange(q, walks, j, i)

\* At each instant, what can be ridden after a row that takes no time comes
\* after it; so it is where every connection takes time.
Sequenced(q) ==
  LET walks == Walks(q)
  IN  \A i, j \in DOMAIN q.rows :
        j < i /\ Follows(q, walks, i, j) => /\ q.rows[i].depTime # q.rows[j].depTime
                                           /\ q.rows[i].arrTime # q.rows[j].arrTime

\* The rows that a passenger who sets out at `depart` can ride first.
FirstRows(q, walks, depart) ==
  {i \in DOMAIN q.rows :
     /\ Allowed(q, q.rows[i].pickup)
     /\ \E s \in q.sources : \E n \in Walking(walks, s.stop, q.rows[i].from) :
          depart + s.walk + n <= q.rows[i].depTime}

\* What is reached from some rows in n steps.
Onward(steps, before) == before \cup {p[2] : p \in {r \in steps : r[1] \in before}}

Reachable(first, steps, n) ==
  LET f[k \in 0 .. n] == IF k = 0 THEN first ELSE Onward(steps, f[k - 1])
  IN  f[n]

\* The rows such a passenger can ride: a least fixpoint, reached after as many
\* steps as there are rows.
Rideable(q, walks, depart) ==
  Reachable(FirstRows(q, walks, depart),
            {p \in (DOMAIN q.rows) \X (DOMAIN q.rows) : Follows(q, walks, p[1], p[2])},
            Len(q.rows))

EarliestArrival(q, depart) ==
  LET walks == Walks(q)
      left == {i \in Rideable(q, walks, depart) : Allowed(q, q.rows[i].dropOff)}
  IN  MinOf({Infinity}
            \cup {depart + x[1].walk + x[2][3] + x[3].walk :
                    x \in {y \in q.sources \X walks \X q.targets :
                             y[2][1] = y[1].stop /\ y[2][2] = y[3].stop}}
            \cup {q.rows[x[1]].arrTime + x[2][3] + x[3].walk :
                    x \in {y \in left \X walks \X q.targets :
                             y[2][1] = q.rows[y[1]].to /\ y[2][2] = y[3].stop}})

\* The latest instant from `since` on to set out and still arrive in time;
\* -Infinity if none.
LatestDeparture(q, since) ==
  MaxOf({-Infinity} \cup {d \in since .. q.at : EarliestArrival(q, d) <= q.at})

(***************************************************************************)
(* A journey, leg by leg.                                                  *)
(***************************************************************************)

\* Rows b to e are one ride, and are what the leg says.
RideOf(q, l, b, e) == /\ b <= e /\ q.rows[b].trip = l.trip /\ q.rows[e].trip = l.trip
                      /\ q.rows[b].from = l.from /\ q.rows[b].depTime = l.dep
                      /\ q.rows[e].to = l.to /\ q.rows[e].arrTime = l.arr
                      /\ \A i \in b .. e - 1 : Adjoin(q, i, i + 1)

\* The leg after ride k, if it is a continuation of it.
ContinuesAfter(legs, k) == k < Len(legs) /\ legs[k + 1].stay

LegIsReal(q, legs, k) ==
  LET l == legs[k]
  IN  CASE l.kind = "access" ->
             \/ k = 1 /\ [stop |-> l.to, walk |-> l.arr - l.dep] \in q.sources
             \/ k = Len(legs) /\ [stop |-> l.from, walk |-> l.arr - l.dep] \in q.targets
        [] l.kind = "walk" -> [from |-> l.from, to |-> l.to, secs |-> l.arr - l.dep] \in q.walk
        [] l.kind = "ride" ->
             \E b, e \in DOMAIN q.rows :
               /\ RideOf(q, l, b, e)
               /\ IF l.stay
                  THEN /\ IsFirst(q, b) /\ k > 1 /\ legs[k-1].kind = "ride"
                       /\ \E a \in RowsOf(q, legs[k-1].trip) :
                            /\ IsLast(q, a) /\ MayStay(q, q.rows[a], q.rows[b])
                            /\ q.rows[a].to = legs[k-1].to /\ q.rows[a].arrTime = legs[k-1].arr
                  ELSE Allowed(q, q.rows[b].pickup)
               /\ ContinuesAfter(legs, k) \/ Allowed(q, q.rows[e].dropOff)

\* Leg k starts where and when leg k - 1 is over.
LegsMeet(legs, k) == /\ legs[k-1].arr <= legs[k].dep
                     /\ legs[k].stay \/ legs[k-1].to = legs[k].from

\* Between a ride and the next there are only walks, and no rule forbids it.
ChangeIsAllowed(q, legs, k) ==
  \A j \in 1 .. k - 1 :
    legs[j].kind = "ride" /\ legs[k].kind = "ride" /\ ~legs[k].stay
      /\ (\A m \in j + 1 .. k - 1 : legs[m].kind # "ride")
    => LET ms == MatchingRules(q.rules, legs[j].trip, legs[j].to, legs[k].trip, legs[k].from)
       IN  ReadyBy(q.rules, ms, legs[k-1].arr, legs[j].arr) <= legs[k].dep

\* An endpoint of the query is a leg's own stop, unless an access leg walks there.
EndsAt(point, stop, leg) == /\ point.stop = stop
                           /\ point.walk \in {0, leg.arr - leg.dep}
                           /\ point.walk # 0 => leg.kind = "access"

\* It starts at a source and ends at a target.
JoinsEndpoints(q, legs) ==
  IF legs = <<>>
  THEN \E s \in q.sources, t \in q.targets : s.stop = t.stop /\ s.walk = 0 /\ t.walk = 0
  ELSE LET a == legs[1]
           z == legs[Len(legs)]
       IN  /\ \E s \in q.sources : EndsAt(s, a.from, a)
           /\ \E t \in q.targets : EndsAt(t, z.to, z)

Feasible(q, legs) ==
  /\ JoinsEndpoints(q, legs)
  /\ \A k \in DOMAIN legs :
       /\ LegIsReal(q, legs, k)
       /\ k > 1 => LegsMeet(legs, k) /\ ChangeIsAllowed(q, legs, k)
=============================================================================
