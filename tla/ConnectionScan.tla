--------------------------- MODULE ConnectionScan ---------------------------
(***************************************************************************)
(* The journey router (internal/router/csa.go): one pass over connections  *)
(* sorted by departure, with a label per stop and transfer context, walks  *)
(* relaxed after every improvement, and connections of one instant retried *)
(* to a fixpoint when some of them take no time.  A latest-departure query *)
(* is the same scan over the network reversed in time, and its legs are    *)
(* flipped back.                                                           *)
(*                                                                         *)
(* A timetable is what the loader (internal/gtfs/timetable.go and          *)
(* query_connections.go) hands over: rows in connection_key order, that is *)
(* trip by trip and in stop sequence, walks, transfer rules in file order, *)
(* and continuations.  Trips are trip instances.  Predecessor chains are   *)
(* kept unfolded: a label carries the legs that lead to it.                *)
(***************************************************************************)
EXTENDS Journeys

CONSTANTS Timetables,  \* the queries considered, each with its timetable
          MaxDuration  \* bound: how long before `at` an earlier departure is looked for

\* What the loader and validateInputs let through: known stops and trips, no
\* connection that arrives before it leaves, no walk or transfer of negative
\* length, and rows that are trip by trip.
Rows == [trip : Trips, from : Stops, to : Stops, depTime : Int, arrTime : Int,
         pickup : {"regular", "none", "request"}, dropOff : {"regular", "none", "request"}]
Edges == [from : Stops, to : Stops, secs : Nat]
Endpoints == [stop : Stops, walk : Nat]
Rules == [fromStop : Stops \cup {Any}, toStop : Stops \cup {Any},
          fromRoute : {RouteOf[t] : t \in Trips} \cup {Any},
          toRoute : {RouteOf[t] : t \in Trips} \cup {Any},
          fromTrip : Trips \cup {Any}, toTrip : Trips \cup {Any},
          type : {"recommended", "minimum", "forbidden"}, min : Nat]
Links == [type : {"stay", "leave"}, fromTrip : Trips, toTrip : Trips,
          fromStop : Stops \cup {Any}, toStop : Stops \cup {Any}]

Queries == [rows : Seq(Rows), walk : SUBSET Edges, rules : Seq(Rules), links : SUBSET Links,
            sources : SUBSET Endpoints, targets : SUBSET Endpoints,
            at : Int, latest : BOOLEAN, conditional : BOOLEAN]

WellFormed(q) ==
  /\ q \in Queries /\ q.at > -Infinity /\ q.at < Infinity
  /\ \A i \in DOMAIN q.rows : /\ q.rows[i].depTime <= q.rows[i].arrTime
                              /\ q.rows[i].depTime > -Infinity /\ q.rows[i].arrTime < Infinity
  /\ \A i, j \in DOMAIN q.rows : q.rows[i].trip = q.rows[j].trip =>
       \A k \in i .. j : q.rows[k].trip = q.rows[i].trip

ASSUME ConstantsAssumption == /\ Infinity \in Int /\ MaxDuration \in Int
                              /\ Any \notin Trips \cup Stops /\ IsFiniteSet(Stops)
ASSUME TimetablesAssumption == \A q \in Timetables : WellFormed(q)

VARIABLES
  tt,         \* the query and its timetable
  net,        \* the network the scan runs over, reversed for a latest departure
  labels,     \* the current label of each stop and context
  queue,      \* labels whose walks are still to be relaxed
  onboard,    \* the state of each trip, NotBoarded before it is boarded
  next,       \* the first connection of the next group
  group,      \* the connections that share the departure being scanned
  todo,       \* those still to be visited in this pass
  retry,      \* those visited in this pass that were not reachable
  progressed, \* did this pass reach any?
  target,     \* the best arrival at a target so far
  outcome     \* running, found, none, failed or cancelled

scanVars == <<labels, queue, onboard, target>>
passVars == <<next, group, todo, retry, progressed>>
vars == <<tt, net, scanVars, passVars, outcome>>

(***************************************************************************)
(* The network.                                                            *)
(***************************************************************************)

\* Rows ordered by departure; rows that depart together keep their order.
Before(rows, i, j) == \/ rows[i].depTime < rows[j].depTime
                      \/ rows[i].depTime = rows[j].depTime /\ i < j

Rank(rows, i) == Cardinality({j \in DOMAIN rows : Before(rows, j, i)}) + 1

\* The row that is connection k.
Place(rows) == [k \in DOMAIN rows |-> CHOOSE i \in DOMAIN rows : Rank(rows, i) = k]

Sorted(rows) == [k \in DOMAIN rows |-> rows[Place(rows)[k]]]

ReversedConnection(c) ==
  [c EXCEPT !.from = c.to, !.to = c.from, !.depTime = -c.arrTime, !.arrTime = -c.depTime,
            !.pickup = c.dropOff, !.dropOff = c.pickup]

ReversedRows(rows) ==
  [i \in DOMAIN rows |-> ReversedConnection(rows[Len(rows) + 1 - i])]

ReversedWalk(walk) == {[e EXCEPT !.from = e.to, !.to = e.from] : e \in walk}

ReversedRule(r) ==
  [r EXCEPT !.fromStop = r.toStop, !.toStop = r.fromStop, !.fromRoute = r.toRoute,
            !.toRoute = r.fromRoute, !.fromTrip = r.toTrip, !.toTrip = r.fromTrip]

ReversedLink(l) ==
  [l EXCEPT !.fromTrip = l.toTrip, !.toTrip = l.fromTrip, !.fromStop = l.toStop, !.toStop = l.fromStop]

\* loadContinuations: a link is kept when it joins the end of one trip to a
\* start of the other that is not earlier, and a permission when no matching
\* prohibition blocks it.
LoadedLinks(q) ==
  LET Joins(l, a, b) == /\ IsLast(q, a) /\ IsFirst(q, b) /\ q.rows[a].arrTime <= q.rows[b].depTime
                        /\ LinkMatches(l, l.type, q.rows[a], q.rows[b])
      Blocked(a, b) == \E f \in q.links : LinkMatches(f, "leave", q.rows[a], q.rows[b])
  IN  {l \in q.links : \E a, b \in DOMAIN q.rows :
                         Joins(l, a, b) /\ (l.type = "stay" => ~Blocked(a, b))}

Network(q) ==
  IF q.latest
  THEN [conns |-> Sorted(ReversedRows(q.rows)), walk |-> ReversedWalk(q.walk),
        rules |-> [i \in DOMAIN q.rules |-> ReversedRule(q.rules[i])],
        links |-> {ReversedLink(l) : l \in LoadedLinks(q)},
        sources |-> q.targets, targets |-> q.sources, start |-> -q.at]
  ELSE [conns |-> Sorted(q.rows), walk |-> q.walk, rules |-> q.rules, links |-> LoadedLinks(q),
        sources |-> q.sources, targets |-> q.targets, start |-> q.at]

(***************************************************************************)
(* Labels.                                                                 *)
(***************************************************************************)
NoContext == [trip |-> Any, fromStop |-> Any]
NotBoarded == [board |-> 0, legs |-> <<>>, stay |-> FALSE, last |-> 0]
NoTarget == [total |-> Infinity]

SameSlot(a, b) == a.stop = b.stop /\ a.ctx = b.ctx

\* addLabel keeps one label per stop and context, the earliest.
Improves(l) == ~\E k \in labels : SameSlot(k, l) /\ k.arrival <= l.arrival

\* Mutated form: the label that was improved on stays.
AddLabelsKeepsOld(new, rest) ==
  /\ labels' = labels \cup new
  /\ queue' = rest \cup new
  /\ UNCHANGED target

\* Adding a set of labels, no two in one slot; they have their walks relaxed
\* and may improve the best arrival at a target.
AddLabels(new, rest) ==
  LET ends == {[total |-> l.arrival + e.walk, label |-> l, egress |-> e] :
                 l \in new, e \in {t \in net.targets : \E l \in new : t.stop = l.stop}}
      better == {t \in ends : t.label.stop = t.egress.stop /\ t.total < target.total}
      earliest == {t \in better : \A u \in better : t.total <= u.total}
  IN  /\ labels' = {k \in labels : ~\E l \in new : SameSlot(k, l)} \cup new
      /\ queue' = rest \cup new
      /\ target' \in IF better = {} THEN {target} ELSE earliest

SeedLabel(n, e) ==
  [stop |-> e.stop, arrival |-> n.start + e.walk, alight |-> 0, ctx |-> NoContext,
   legs |-> IF e.walk = 0 THEN <<>>
            ELSE <<Leg("access", Any, e.stop, e.stop, n.start, n.start + e.walk, FALSE)>>]

WalkedLabel(l, e) ==
  [l EXCEPT !.stop = e.to, !.arrival = @ + e.secs,
            !.legs = Append(@, Leg("walk", Any, l.stop, e.to, l.arrival, l.arrival + e.secs, FALSE))]

RideLeg(s) == LET b == net.conns[s.board]
                  x == net.conns[s.last]
              IN  Leg("ride", b.trip, b.from, x.to, b.depTime, x.arrTime, s.stay)

\* transitLabel: without transfer rules no context is kept.
TransitLabel(s) ==
  LET x == net.conns[s.last]
  IN  [stop |-> x.to, arrival |-> x.arrTime, alight |-> x.arrTime,
       ctx |-> IF net.rules = <<>> THEN NoContext ELSE [trip |-> x.trip, fromStop |-> x.to],
       legs |-> Append(s.legs, RideLeg(s))]

(***************************************************************************)
(* Boarding.                                                               *)
(***************************************************************************)
RulesFor(l, c) == IF l.ctx = NoContext THEN {}
                  ELSE MatchingRules(net.rules, l.ctx.trip, l.ctx.fromStop, c.trip, c.from)

BoardingReady(l, c) == ReadyBy(net.rules, RulesFor(l, c), l.arrival, l.alight)

LabelsAt(s) == {l \in labels : l.stop = s}

RulesConflict(c) == \E l \in LabelsAt(c.from) : Conflicting(net.rules, RulesFor(l, c))

\* Mutated form: any label that has reached the stop may board.
BoardingLabelsUnruled(c) == {l \in LabelsAt(c.from) : l.arrival <= c.depTime}

\* selectBoardingLabel: the label ready first, then the one that arrived first.
BoardingLabels(c) ==
  LET open == {l \in LabelsAt(c.from) : BoardingReady(l, c) <= c.depTime}
      Sooner(l, k) == \/ BoardingReady(l, c) < BoardingReady(k, c)
                      \/ BoardingReady(l, c) = BoardingReady(k, c) /\ l.arrival <= k.arrival
  IN  {l \in open : \A k \in open : Sooner(l, k)}

\* continuationState: a trip that is being ridden and may continue as this
\* one, without getting off.
LinkForbidden(l, c) ==
  \E f \in net.links : /\ f.type = "leave" /\ f.fromTrip = l.fromTrip /\ f.toTrip = l.toTrip
                       /\ f.fromStop \in {l.fromStop, Any} /\ f.toStop \in {c.from, Any}

Continuations(i) ==
  LET c == net.conns[i]
      usable == {l \in net.links :
                   /\ l.type = "stay" /\ l.toTrip = c.trip /\ l.toStop \in {c.from, Any}
                   /\ ~LinkForbidden(l, c)
                   /\ onboard[l.fromTrip] # NotBoarded
                   /\ l.fromStop \in {Any, net.conns[onboard[l.fromTrip].last].to}
                   /\ net.conns[onboard[l.fromTrip].last].arrTime <= c.depTime}
  IN  {[board |-> i, legs |-> TransitLabel(onboard[l.fromTrip]).legs, stay |-> TRUE, last |-> i] :
         l \in usable}

(***************************************************************************)
(* The scan.                                                               *)
(***************************************************************************)
GroupFrom(n, k) == IF k > Len(n.conns) THEN {}
                   ELSE {i \in DOMAIN n.conns : n.conns[i].depTime = n.conns[k].depTime}

\* Connections that depart before the query starts are never looked at.
FirstAfter(n) == Cardinality({i \in DOMAIN n.conns : n.conns[i].depTime < n.start}) + 1

Init ==
  /\ tt \in Timetables
  /\ net = Network(tt)
  /\ labels = {SeedLabel(net, e) :
                 e \in {s \in net.sources : \A o \in net.sources :
                                              o.stop = s.stop => s.walk <= o.walk}}
  /\ queue = labels
  /\ onboard = [t \in Trips |-> NotBoarded]
  /\ next = FirstAfter(net)
  /\ group = {} /\ todo = {} /\ retry = {} /\ progressed = FALSE
  /\ LET ends == {[total |-> l.arrival + e.walk, label |-> l, egress |-> e] :
                    l \in labels, e \in net.targets}
         here == {t \in ends : t.label.stop = t.egress.stop /\ t.total < Infinity}
     IN  target \in IF here = {} THEN {NoTarget}
                    ELSE {t \in here : \A u \in here : t.total <= u.total}
  /\ outcome = "running"

Found == target.total < Infinity

Scanning == outcome = "running" /\ queue = {} /\ todo # {}

\* relaxWalks: the earliest queued label, unless a better one took its place.
RelaxWalk ==
  /\ outcome = "running"
  /\ \E l \in queue :
       /\ \A k \in queue : l.arrival <= k.arrival
       /\ LET reached == IF l \notin labels THEN {}
                         ELSE {WalkedLabel(l, e) : e \in {w \in net.walk : w.from = l.stop}}
              best == {x \in reached : \A y \in reached : x.stop = y.stop => x.arrival <= y.arrival}
          IN  AddLabels({x \in best : Improves(x)}, queue \ {l})
  /\ UNCHANGED <<tt, net, onboard, passVars, outcome>>

\* Mutated form: a group is visited once.
VisitOnce(i, reached) ==
  /\ todo' = todo \ {i}
  /\ UNCHANGED <<retry, progressed, next, group>>

Visit(i, reached) ==
  /\ todo' = todo \ {i}
  /\ retry' = IF reached THEN retry ELSE retry \cup {i}
  /\ progressed' = (progressed \/ reached)
  /\ UNCHANGED <<next, group>>

\* The trip is ridden through connection i, and left there if one may.
Ride(i, s) ==
  LET c == net.conns[i]
      riding == [s EXCEPT !.last = i]
  IN  /\ onboard' = [onboard EXCEPT ![c.trip] = [s EXCEPT !.last = i]]
      /\ Visit(i, TRUE)
      /\ IF Allowed(tt, c.dropOff) /\ Improves(TransitLabel(riding))
         THEN AddLabels({TransitLabel(riding)}, {})
         ELSE UNCHANGED <<labels, queue, target>>
      /\ UNCHANGED <<tt, net, outcome>>

\* The passenger is on the trip, but not where this connection leaves.
Detached(i) ==
  LET c == net.conns[i]
      x == net.conns[onboard[c.trip].last]
  IN  x.to # c.from \/ x.arrTime > c.depTime

Boarded(i) == onboard[net.conns[i].trip] # NotBoarded

\* Mutated form: any detached connection is malformed.
BeforeBoardingFails(i) ==
  /\ Boarded(i) /\ Detached(i)
  /\ onboard[net.conns[i].trip].board > i
  /\ outcome' = "failed"
  /\ UNCHANGED <<tt, net, scanVars, passVars>>

\* A later pass meets a segment before the one where the trip was boarded.
BeforeBoarding(i) ==
  /\ Boarded(i) /\ Detached(i)
  /\ onboard[net.conns[i].trip].board > i
  /\ Visit(i, TRUE)
  /\ UNCHANGED <<tt, net, scanVars, outcome>>

\* "invalid non-contiguous trip instance"
NotContiguous(i) ==
  /\ Boarded(i) /\ Detached(i)
  /\ onboard[net.conns[i].trip].board <= i
  /\ outcome' = "failed"
  /\ UNCHANGED <<tt, net, scanVars, passVars>>

RideOn(i) == Boarded(i) /\ ~Detached(i) /\ Ride(i, onboard[net.conns[i].trip])

StayOnboard(i) == ~Boarded(i) /\ \E s \in Continuations(i) : Ride(i, s)

MayBoard(i) == /\ ~Boarded(i) /\ Continuations(i) = {}
               /\ Allowed(tt, net.conns[i].pickup)

\* "conflicting transfer rules at equal specificity"
RuleError(i) ==
  /\ MayBoard(i) /\ RulesConflict(net.conns[i])
  /\ outcome' = "failed"
  /\ UNCHANGED <<tt, net, scanVars, passVars>>

Board(i) ==
  /\ MayBoard(i) /\ ~RulesConflict(net.conns[i])
  /\ \E l \in BoardingLabels(net.conns[i]) :
       Ride(i, [board |-> i, legs |-> l.legs, stay |-> FALSE, last |-> i])

NotReachable(i) ==
  /\ ~Boarded(i) /\ Continuations(i) = {}
  /\ Allowed(tt, net.conns[i].pickup)
       => ~RulesConflict(net.conns[i]) /\ BoardingLabels(net.conns[i]) = {}
  /\ Visit(i, FALSE)
  /\ UNCHANGED <<tt, net, scanVars, outcome>>

\* processConnection.
ProcessConnection(i) == \/ BeforeBoarding(i) \/ NotContiguous(i)
                        \/ RideOn(i) \/ StayOnboard(i)
                        \/ RuleError(i) \/ Board(i) \/ NotReachable(i)

ScanConnection == Scanning /\ ProcessConnection(MinOf(todo))

PassOver == outcome = "running" /\ queue = {} /\ todo = {}

\* Only a group with a connection that takes no time is retried, as long as a
\* pass reaches something new.
Retries == /\ \E i \in group : net.conns[i].arrTime = net.conns[i].depTime
           /\ progressed /\ retry # {}

\* Mutated form: once progress is made, it is never forgotten.
NextPassForEver ==
  /\ PassOver /\ Retries
  /\ todo' = retry /\ retry' = {}
  /\ UNCHANGED <<tt, net, scanVars, next, group, progressed, outcome>>

NextPass ==
  /\ PassOver /\ Retries
  /\ todo' = retry /\ retry' = {} /\ progressed' = FALSE
  /\ UNCHANGED <<tt, net, scanVars, next, group, outcome>>

\* Nothing that departs after the best arrival can improve it.
Exhausted == next <= Len(net.conns) => Found /\ net.conns[next].depTime > target.total

NextGroup ==
  /\ PassOver /\ ~Retries /\ ~Exhausted
  /\ group' = GroupFrom(net, next)
  /\ todo' = group'
  /\ next' = next + Cardinality(group')
  /\ retry' = {} /\ progressed' = FALSE
  /\ UNCHANGED <<tt, net, scanVars, outcome>>

Finish ==
  /\ PassOver /\ ~Retries /\ Exhausted
  /\ outcome' = IF Found THEN "found" ELSE "none"
  /\ UNCHANGED <<tt, net, scanVars, passVars>>

\* The context is looked at while the scan runs; here, between two passes.
Cancel ==
  /\ PassOver
  /\ outcome' = "cancelled"
  /\ UNCHANGED <<tt, net, scanVars, passVars>>

Step == RelaxWalk \/ ScanConnection \/ NextPass \/ NextGroup \/ Finish

Next == Step \/ Cancel

Spec == Init /\ [][Next]_vars

FairSpec == Spec /\ WF_vars(Step)

(***************************************************************************)
(* The answer: the legs that lead to the target, flipped back in time for  *)
(* a latest departure.  There a leg marked as a continuation is the one    *)
(* that continues, and the mark moves to the next ride.                    *)
(***************************************************************************)
FlippedLeg(l) == [l EXCEPT !.from = l.to, !.to = l.from, !.dep = -l.arr, !.arr = -l.dep, !.stay = FALSE]

FlipLegs(legs) ==
  LET n == Len(legs)
      Marked(k) == legs[n + 1 - k].stay
      IsRide(k) == legs[n + 1 - k].kind = "ride"
      Moved(k) == /\ IsRide(k)
                  /\ \E j \in 1 .. k - 1 : Marked(j) /\ \A m \in j + 1 .. k - 1 : ~IsRide(m)
  IN  [k \in 1 .. n |-> [FlippedLeg(legs[n + 1 - k]) EXCEPT !.stay = Moved(k)]]

Journey ==
  LET e == target.egress
      legs == target.label.legs \o
                (IF e.walk = 0 THEN <<>>
                 ELSE <<Leg("access", Any, e.stop, e.stop, target.label.arrival, target.total, FALSE)>>)
  IN  IF tt.latest THEN FlipLegs(legs) ELSE legs

(***************************************************************************)
(* Properties.                                                             *)
(***************************************************************************)

\* Every variable has its type; a trip is boarded no later than the last
\* connection it was ridden through; one label for each stop and context; and
\* no walk is outstanding when the scan has its answer.
ScanTypeOK ==
  /\ \A l \in labels \cup queue : l.stop \in Stops /\ l.arrival \in Int /\ l.arrival >= net.start
  /\ \A l, k \in labels : SameSlot(l, k) => l = k
  /\ \A t \in Trips : onboard[t] # NotBoarded =>
       /\ onboard[t].board \in DOMAIN net.conns /\ onboard[t].last \in group \cup 1 .. next
       /\ net.conns[onboard[t].board].trip = t /\ net.conns[onboard[t].last].trip = t
       /\ RunsForward(tt) => onboard[t].board <= onboard[t].last
  /\ todo \cup retry \subseteq group /\ todo \cap retry = {}
  /\ group \subseteq 1 .. next - 1 /\ next \in 1 .. Len(net.conns) + 1
  /\ Found => target.egress \in net.targets /\ target.label.stop = target.egress.stop
  /\ outcome \in {"running", "found", "none", "failed", "cancelled"}
  /\ outcome \in {"found", "none"} => queue = {}

\* The answer of the scan is the optimum of the reference: nobody arrives
\* earlier, nobody who arrives in time sets out later, and "no journey found"
\* means there is none.
Optimal ==
  outcome \in {"found", "none"} =>
    IF tt.latest
    THEN -target.total = LatestDeparture(tt, IF Found THEN -target.total ELSE tt.at - MaxDuration)
    ELSE target.total = EarliestArrival(tt, tt.at)

\* The journey that is returned can be made, legs flipped back included: each
\* ride is in the timetable without a gap, boarded and left where its policies
\* allow, continuations are permitted ones, and changes leave the time their
\* rules ask for.
JourneyIsFeasible ==
  outcome = "found" /\ Orderly(tt) =>
    /\ Feasible(tt, Journey)
    /\ Journey # <<>> =>
         IF tt.latest THEN Journey[1].dep = -target.total /\ Journey[Len(Journey)].arr <= tt.at
         ELSE Journey[1].dep >= tt.at /\ Journey[Len(Journey)].arr = target.total

\* Nothing but a trip with a gap, or transfer rules that contradict each
\* other, makes the router give up a well-formed query.
FailsOnlyOnBadData ==
  outcome = "failed" /\ RunsForward(tt) =>
    HasGap(tt) \/ \E l \in labels, i \in DOMAIN net.conns :
                     Conflicting(net.rules, RulesFor(l, net.conns[i]))

\* docs/releases/v0.5.1.md: GTFS ingestion "tolerates non-increasing stop-time
\* segments", which are "excluded from the connection graph with a warning".
\* So a query over such a timetable is answered.
GapsAreTolerated == outcome # "failed"

\* Every query is answered or fails: neither the fixpoint over one instant nor
\* the relaxation of walks goes round for ever.
Terminates == <>(outcome # "running")
=============================================================================
