----------------------- MODULE ConnectionScan_proofs -----------------------
(***************************************************************************)
(* The router never returns a journey that cannot be made, for any         *)
(* timetable the loader accepts: its labels, the states of its trips and   *)
(* its best target are well typed (ScanIsTyped), it gives up only on data  *)
(* that contradict themselves (GivesUpForAReason), and what it returns can *)
(* be ridden as it is written (ReturnedJourneysAreFeasible), also when it  *)
(* was found by scanning the timetable backwards.                          *)
(***************************************************************************)
EXTENDS ConnectionScan, FiniteSetTheorems, WellFoundedInduction, TLAPS

(***************************************************************************)
(* The query in the direction of the scan.                                 *)
(***************************************************************************)

\* A query turned round in time: to leave early is to arrive late.
Reversal(q) ==
  [q EXCEPT !.rows = ReversedRows(q.rows), !.walk = ReversedWalk(q.walk),
            !.rules = [i \in DOMAIN q.rules |-> ReversedRule(q.rules[i])],
            !.links = {ReversedLink(l) : l \in q.links},
            !.sources = q.targets, !.targets = q.sources, !.at = -q.at]

Directed(q) == IF q.latest THEN Reversal(q) ELSE q

(***************************************************************************)
(* What a leg of a path is, in either direction.  A path is open while the *)
(* rider of its last leg is to stay on board, and ended once it has its    *)
(* access leg to a target.                                                 *)
(***************************************************************************)
Legs == [kind : {"access", "walk", "ride"}, trip : Trips \cup {Any}, from : Stops, to : Stops,
         dep : Int, arr : Int, stay : BOOLEAN]

Continued(legs, open, k) == IF k = Len(legs) THEN open ELSE legs[k + 1].stay

RideIsReal(q, legs, open, k) ==
  \E b, e \in DOMAIN q.rows :
    /\ RideOf(q, legs[k], b, e)
    /\ IF legs[k].stay THEN IsFirst(q, b) ELSE Allowed(q, q.rows[b].pickup)
    /\ IF Continued(legs, open, k) THEN IsLast(q, e) ELSE Allowed(q, q.rows[e].dropOff)

\* A rider who arrives at row a's end stays on board for row b.
StayJoins(q, l, a, b) ==
  /\ l.kind = "ride" /\ q.rows[a].trip = l.trip /\ IsLast(q, a) /\ IsFirst(q, b)
  /\ MayStay(q, q.rows[a], q.rows[b])
  /\ q.rows[a].to = l.to /\ q.rows[a].arrTime = l.arr

StayIsReal(q, legs, k) ==
  /\ k > 1 /\ legs[k].kind = "ride"
  /\ \E a, b \in DOMAIN q.rows :
       /\ StayJoins(q, legs[k-1], a, b) /\ q.rows[b].trip = legs[k].trip
       /\ q.rows[b].from = legs[k].from /\ q.rows[b].depTime = legs[k].dep

\* Every rule that matches a change, of the most specific ones, leaves the time
\* for it: in what order they are considered makes no difference.
Strongest(rules, ms, i) == i \in ms /\ \A j \in ms : Specificity(rules[j]) <= Specificity(rules[i])

RulesAllow(rules, ms, alight, dep) ==
  \A i \in ms : Strongest(rules, ms, i) =>
    /\ rules[i].type # "forbidden"
    /\ rules[i].type = "minimum" => alight + rules[i].min <= dep

LastRide(legs, n, j) == /\ j \in 1 .. n /\ legs[j].kind = "ride"
                        /\ \A m \in j + 1 .. n : legs[m].kind # "ride"

ChangeOf(q, l, trip, stop, dep) ==
  RulesAllow(q.rules, MatchingRules(q.rules, l.trip, l.to, trip, stop), l.arr, dep)

ChangeIsMade(q, legs, k) ==
  legs[k].kind = "ride" /\ ~legs[k].stay =>
    \A j \in 1 .. k - 1 : LastRide(legs, k - 1, j) =>
      ChangeOf(q, legs[j], legs[k].trip, legs[k].from, legs[k].dep)

LegIsSound(q, legs, open, ended, k) ==
  /\ legs[k].kind = "access" =>
       /\ legs[k].from = legs[k].to /\ ~legs[k].stay
       /\ \/ k = 1 /\ [stop |-> legs[k].to, walk |-> legs[k].arr - legs[k].dep] \in q.sources
          \/ /\ ended /\ k = Len(legs)
             /\ [stop |-> legs[k].from, walk |-> legs[k].arr - legs[k].dep] \in q.targets
  /\ legs[k].kind = "walk" =>
       /\ ~legs[k].stay
       /\ [from |-> legs[k].from, to |-> legs[k].to, secs |-> legs[k].arr - legs[k].dep] \in q.walk
  /\ legs[k].kind = "ride" => RideIsReal(q, legs, open, k)
  /\ legs[k].stay => StayIsReal(q, legs, k)
  /\ k > 1 => LegsMeet(legs, k) /\ ChangeIsMade(q, legs, k)

Path(q, legs, open, ended) == \A k \in DOMAIN legs : LegIsSound(q, legs, open, ended, k)

SetsOut(q, l) == /\ l.dep >= q.at
                 /\ \E s \in q.sources : EndsAt(s, l.from, l)

(***************************************************************************)
(* The invariant.                                                          *)
(***************************************************************************)
Contexts == [trip : Trips \cup {Any}, fromStop : Stops \cup {Any}]
LabelSet == [stop : Stops, arrival : Int, alight : Int, ctx : Contexts, legs : Seq(Legs)]
States == [board : Nat, legs : Seq(Legs), stay : BOOLEAN, last : Nat]
TargetSet(n) == [total : Int, label : LabelSet, egress : n.targets]

OnTrip(t) == onboard[t] # NotBoarded

QueryInv == tt \in Timetables /\ net = Network(tt)

LabelsInv ==
  /\ labels \subseteq LabelSet /\ queue \subseteq LabelSet
  /\ \A l \in labels \cup queue : l.arrival >= net.start
  /\ \A l, k \in labels : SameSlot(l, k) => l = k

BoardInv ==
  /\ onboard \in [Trips -> States]
  /\ \A t \in Trips : OnTrip(t) =>
       /\ onboard[t].board \in 1 .. next - 1 /\ onboard[t].last \in 1 .. next - 1
       /\ net.conns[onboard[t].board].trip = t /\ net.conns[onboard[t].last].trip = t

PassInv ==
  /\ todo \subseteq group /\ retry \subseteq group /\ todo \cap retry = {}
  /\ next \in 1 .. Len(net.conns) + 1
  /\ group \subseteq 1 .. next - 1
  /\ progressed \in BOOLEAN

TargetInv ==
  Found => /\ target \in TargetSet(net) /\ target.label.arrival >= net.start
           /\ target.label.stop = target.egress.stop
           /\ target.total = target.label.arrival + target.egress.walk

OutcomeInv ==
  /\ outcome \in {"running", "found", "none", "failed", "cancelled"}
  /\ outcome \in {"found", "none"} => queue = {}
  /\ outcome = "found" => Found

TypeInv == QueryInv /\ LabelsInv /\ BoardInv /\ PassInv /\ TargetInv /\ OutcomeInv

\* The groups are the departures in turn.
GroupInv ==
  /\ \A i \in group : \A k \in i .. next - 1 : k \in group
  /\ \A i \in group : net.conns[i].depTime >= net.start
  /\ \A i, j \in group : net.conns[i].depTime = net.conns[j].depTime
  /\ \A k \in next .. Len(net.conns) :
       /\ net.conns[k].depTime >= net.start
       /\ \A j \in 1 .. next - 1 : net.conns[j].depTime < net.conns[k].depTime

\* Where the scan is on each trip: what it has not been ridden through is still
\* to come, and what it was not boarded at is retried in order.
OrderInv ==
  /\ \A i \in retry, j \in todo : i < j
  /\ \A t \in Trips : OnTrip(t) =>
       /\ onboard[t].board <= onboard[t].last
       /\ \A k \in DOMAIN net.conns : net.conns[k].trip = t /\ k > onboard[t].last => k \in todo \/ k >= next
       /\ \A k \in todo \cup retry : net.conns[k].trip = t => k < onboard[t].board \/ k > onboard[t].last
  /\ \A k \in group : ~OnTrip(net.conns[k].trip) => k \in todo \cup retry

\* A trip that continues the one being ridden is not passed by.
LinkInv ==
  \A l \in net.links : l.type = "stay" /\ OnTrip(l.fromTrip) /\ ~OnTrip(l.toTrip) =>
    \A k \in DOMAIN net.conns :
      net.conns[k].trip = l.toTrip /\ IsFirst(Directed(tt), Place(Directed(tt).rows)[k]) => k \in todo \/ k >= next

SoundLabel(q, l) ==
  /\ Path(q, l.legs, FALSE, FALSE)
  /\ IF l.legs = <<>> THEN \E s \in q.sources : s.stop = l.stop /\ s.walk = 0
     ELSE SetsOut(q, l.legs[1]) /\ l.legs[Len(l.legs)].to = l.stop /\ l.legs[Len(l.legs)].arr = l.arrival
  /\ \A j \in DOMAIN l.legs : LastRide(l.legs, Len(l.legs), j) /\ q.rules # <<>> =>
       l.ctx = [trip |-> l.legs[j].trip, fromStop |-> l.legs[j].to] /\ l.alight = l.legs[j].arr

\* A rider who boarded at row b, with the legs before it.
SoundBoarding(q, s, b) ==
  /\ Path(q, s.legs, s.stay, FALSE)
  /\ q.rows[b].depTime >= q.at
  /\ IF s.stay
     THEN /\ s.legs # <<>> /\ SetsOut(q, s.legs[1])
          /\ \E a \in DOMAIN q.rows : StayJoins(q, s.legs[Len(s.legs)], a, b)
     ELSE /\ Allowed(q, q.rows[b].pickup)
          /\ IF s.legs = <<>> THEN \E o \in q.sources : o.stop = q.rows[b].from /\ o.walk = 0
             ELSE /\ SetsOut(q, s.legs[1])
                  /\ s.legs[Len(s.legs)].to = q.rows[b].from /\ s.legs[Len(s.legs)].arr <= q.rows[b].depTime
          /\ \A j \in DOMAIN s.legs : LastRide(s.legs, Len(s.legs), j) =>
               ChangeOf(q, s.legs[j], q.rows[b].trip, q.rows[b].from, q.rows[b].depTime)

Ridden(q, b, e) == b <= e /\ \A m \in b .. e - 1 : Adjoin(q, m, m + 1)

SoundState(q, s) ==
  LET p == Place(q.rows)
  IN  SoundBoarding(q, s, p[s.board]) /\ Ridden(q, p[s.board], p[s.last])

SoundInv ==
  /\ \A l \in labels \cup queue : SoundLabel(Directed(tt), l)
  /\ \A t \in Trips : OnTrip(t) => SoundState(Directed(tt), onboard[t])
  /\ Found => SoundLabel(Directed(tt), target.label)

FailInv == outcome = "failed" /\ RunsForward(tt) =>
             HasGap(Directed(tt)) \/ \E l \in labels, i \in DOMAIN net.conns :
                                       Conflicting(net.rules, RulesFor(l, net.conns[i]))

IInv == /\ TypeInv /\ GroupInv
        /\ RunsForward(tt) => OrderInv
        /\ Orderly(tt) => LinkInv /\ SoundInv
        /\ FailInv

(***************************************************************************)
(* Numbers and orders.                                                     *)
(***************************************************************************)

\* A set of naturals has a least element.
LEMMA LeastNatural ==
  ASSUME NEW T, T \subseteq Nat, T # {}
  PROVE  \E x \in T : \A y \in T : x <= y
<1>1. PICK x \in T : \A y \in T : ~(<<y, x>> \in OpToRel(<, Nat))
  BY WFMin, NatLessThanWellFounded
<1>2. \A y \in T : x <= y
  <2>1. TAKE y \in T
  <2>2. x \in Nat /\ y \in Nat OBVIOUS
  <2>3. ~(y < x) BY <1>1, <2>2 DEF OpToRel
  <2>q. QED BY <2>2, <2>3
<1>q. QED BY <1>2

\* MinOf is it.
LEMMA MinOfNaturals ==
  ASSUME NEW T, T \subseteq Nat, T # {}
  PROVE  MinOf(T) \in T /\ \A y \in T : MinOf(T) <= y
BY LeastNatural DEF MinOf

\* A set of naturals with an upper bound has a greatest element.
LEMMA GreatestNatural ==
  ASSUME NEW T, T \subseteq Nat, T # {}, NEW n \in Nat, \A y \in T : y <= n
  PROVE  \E x \in T : \A y \in T : x >= y
<1> DEFINE U == {m \in Nat : \A y \in T : y <= m}
<1>1. n \in U OBVIOUS
<1>2. PICK u \in U : \A y \in U : u <= y
  <2>1. U \subseteq Nat /\ U # {} BY <1>1
  <2> HIDE DEF U
  <2>q. QED BY <2>1, LeastNatural
<1>3. u \in T
  <2> SUFFICES ASSUME u \notin T PROVE FALSE OBVIOUS
  <2>1. PICK z \in T : TRUE OBVIOUS
  <2>2. u \in Nat /\ z \in Nat /\ z <= u /\ z # u BY <2>1, <1>2
  <2>3. \A y \in T : y <= u - 1
    <3>1. TAKE y \in T
    <3>2. y \in Nat /\ y <= u /\ y # u BY <1>2
    <3>q. QED BY <3>2, <2>2
  <2>4. u - 1 \in U BY <2>2, <2>3
  <2>q. QED BY <2>4, <2>2, <1>2
<1>q. QED BY <1>3

\* MaxOf of two integers is the later of them.
LEMMA MaxOfTwo ==
  ASSUME NEW a \in Int, NEW b \in Int
  PROVE  MaxOf({a, b}) \in {a, b} /\ MaxOf({a, b}) >= a /\ MaxOf({a, b}) >= b
<1> DEFINE P(x) == x \in {a, b} /\ \A y \in {a, b} : x >= y
<1>1. P(a) \/ P(b) OBVIOUS
<1>2. P(CHOOSE x \in {a, b} : \A y \in {a, b} : x >= y) BY <1>1
<1>q. QED BY <1>2 DEF MaxOf

\* A set of the first naturals that holds all below what it holds.
LEMMA InitialSegment ==
  ASSUME NEW n \in Nat, NEW S, S \subseteq 1 .. n,
         \A i \in S : \A j \in 1 .. i : j \in S
  PROVE  Cardinality(S) \in 0 .. n /\ S = 1 .. Cardinality(S)
<1> DEFINE U == {k \in 1 .. n + 1 : k \notin S}
<1>1. n + 1 \in U OBVIOUS
<1>2. U \subseteq Nat /\ U # {} BY <1>1
<1>3. PICK m \in U : \A y \in U : m <= y
  <2> HIDE DEF U
  <2>q. QED BY <1>2, LeastNatural
<1>4. m \in 1 .. n + 1 /\ m \notin S OBVIOUS
<1>5. S = 1 .. m - 1
  <2>1. ASSUME NEW x \in S PROVE x \in 1 .. m - 1
    <3>1. x \in 1 .. n OBVIOUS
    <3>2. ~(m <= x)
      <4> SUFFICES ASSUME m <= x PROVE FALSE OBVIOUS
      <4>1. m \in 1 .. x BY <1>4, <3>1
      <4>q. QED BY <4>1, <1>4
    <3>q. QED BY <3>1, <3>2, <1>4
  <2>2. ASSUME NEW x \in 1 .. m - 1 PROVE x \in S
    <3>1. x \in 1 .. n + 1 /\ x < m BY <1>4
    <3>2. x \notin U BY <3>1, <1>3, <1>4
    <3>q. QED BY <3>1, <3>2
  <2>q. QED BY <2>1, <2>2
<1>6. Cardinality(1 .. m - 1) = m - 1
  <2>1. m - 1 \in Int /\ 1 \in Int BY <1>4
  <2>2. Cardinality(1 .. m - 1) = IF 1 > m - 1 THEN 0 ELSE m - 1 - 1 + 1 BY <2>1, FS_Interval
  <2>q. QED BY <2>2, <1>4
<1>q. QED BY <1>4, <1>5, <1>6

(***************************************************************************)
(* Sorting.                                                                *)
(***************************************************************************)

Timed(rows) == \E S : rows \in Seq(S) /\ \A i \in DOMAIN rows : rows[i].depTime \in Int

\* The order the connections are sorted in is strict and total.
LEMMA BeforeIsTotal ==
  ASSUME NEW rows, Timed(rows), NEW i \in DOMAIN rows, NEW j \in DOMAIN rows
  PROVE  /\ i # j => Before(rows, i, j) \/ Before(rows, j, i)
         /\ ~(Before(rows, i, j) /\ Before(rows, j, i))
         /\ \A k \in DOMAIN rows : Before(rows, k, i) /\ Before(rows, i, j) => Before(rows, k, j)
<1>1. \A k \in DOMAIN rows : k \in Int /\ rows[k].depTime \in Int BY DEF Timed
<1>q. QED BY <1>1 DEF Before

\* The rank of a row is its place among all, and grows with the order.
LEMMA RankFacts ==
  ASSUME NEW rows, Timed(rows), NEW i \in DOMAIN rows
  PROVE  /\ Rank(rows, i) \in DOMAIN rows
         /\ \A j \in DOMAIN rows : Before(rows, i, j) => Rank(rows, i) < Rank(rows, j)
<1> DEFINE D == DOMAIN rows
           B(x) == {j \in D : Before(rows, j, x)}
<1>1. Len(rows) \in Nat /\ D = 1 .. Len(rows) BY DEF Timed
<1>2. IsFiniteSet(D) /\ Cardinality(D) = Len(rows)
  <2>1. Len(rows) \in Int /\ 1 \in Int BY <1>1
  <2>2. /\ IsFiniteSet(1 .. Len(rows))
        /\ Cardinality(1 .. Len(rows)) = IF 1 > Len(rows) THEN 0 ELSE Len(rows) - 1 + 1
    BY <2>1, FS_Interval
  <2>q. QED BY <1>1, <2>2
<1>3. \A x \in D : IsFiniteSet(B(x)) /\ Cardinality(B(x)) \in Nat
  <2>1. TAKE x \in D
  <2>2. B(x) \in SUBSET D OBVIOUS
  <2>3. IsFiniteSet(B(x)) BY <1>2, <2>2, FS_Subset
  <2>q. QED BY <2>3, FS_CardinalityType
<1>4. ASSUME NEW x \in D, NEW y \in D, Before(rows, x, y)
      PROVE  Cardinality(B(x)) < Cardinality(B(y))
  <2>1. B(x) \in SUBSET B(y) BY <1>4, BeforeIsTotal
  <2>2. x \in B(y) /\ x \notin B(x) BY <1>4, BeforeIsTotal
  <2>3. /\ Cardinality(B(x)) <= Cardinality(B(y))
        /\ Cardinality(B(y)) = Cardinality(B(x)) => B(y) = B(x)
    BY <1>3, <2>1, FS_Subset
  <2>4. Cardinality(B(x)) \in Nat /\ Cardinality(B(y)) \in Nat BY <1>3
  <2>5. B(y) # B(x) BY <2>2
  <2>q. QED BY <2>3, <2>4, <2>5
<1>5. Cardinality(B(i)) < Len(rows)
  <2>1. i \notin B(i) BY BeforeIsTotal
  <2>2. B(i) \in SUBSET D OBVIOUS
  <2>3. /\ Cardinality(B(i)) <= Cardinality(D)
        /\ Cardinality(D) = Cardinality(B(i)) => D = B(i)
    BY <1>2, <2>2, FS_Subset
  <2>4. D # B(i) BY <2>1
  <2>q. QED BY <2>3, <2>4, <1>1, <1>2, <1>3
<1>6. Rank(rows, i) \in D
  <2>1. Rank(rows, i) = Cardinality(B(i)) + 1 BY DEF Rank
  <2>2. Cardinality(B(i)) \in Nat BY <1>3
  <2> HIDE DEF B
  <2>q. QED BY <1>1, <1>5, <2>1, <2>2
<1>7. ASSUME NEW j \in D, Before(rows, i, j) PROVE Rank(rows, i) < Rank(rows, j)
  <2>1. Cardinality(B(i)) < Cardinality(B(j)) BY <1>4, <1>7
  <2>2. Cardinality(B(i)) \in Nat /\ Cardinality(B(j)) \in Nat BY <1>3
  <2>q. QED BY <2>1, <2>2 DEF Rank
<1>q. QED BY <1>6, <1>7

\* Every place has a row, each row one place, and places follow the order.
LEMMA PlaceFacts ==
  ASSUME NEW rows, Timed(rows)
  PROVE  /\ Place(rows) \in [DOMAIN rows -> DOMAIN rows]
         /\ \A i \in DOMAIN rows : \E k \in DOMAIN rows : Place(rows)[k] = i
         /\ \A k, l \in DOMAIN rows : k < l => Before(rows, Place(rows)[k], Place(rows)[l])
<1> DEFINE D == DOMAIN rows
           p == Place(rows)
           f == [i \in D |-> Rank(rows, i)]
<1>1. Len(rows) \in Nat /\ D = 1 .. Len(rows) BY DEF Timed
<1>2. IsFiniteSet(D)
  <2>1. Len(rows) \in Int /\ 1 \in Int BY <1>1
  <2>q. QED BY <2>1, <1>1, FS_Interval
<1>3. \A i, j \in D : Rank(rows, i) = Rank(rows, j) => i = j
  <2>1. TAKE i \in D, j \in D
  <2>2. Rank(rows, i) \in Nat /\ Rank(rows, j) \in Nat BY RankFacts, <1>1
  <2>3. Before(rows, i, j) => Rank(rows, i) < Rank(rows, j) BY RankFacts
  <2>4. Before(rows, j, i) => Rank(rows, j) < Rank(rows, i) BY RankFacts
  <2>5. i # j => Before(rows, i, j) \/ Before(rows, j, i) BY BeforeIsTotal
  <2>q. QED BY <2>2, <2>3, <2>4, <2>5
<1>4. f \in Injection(D, D)
  <2>1. \A i \in D : Rank(rows, i) \in D BY RankFacts
  <2>2. f \in [D -> D] BY <2>1
  <2>3. \A i, j \in D : f[i] = f[j] => i = j BY <1>3
  <2>q. QED BY <2>2, <2>3 DEF Injection, IsInjective
<1>5. f \in Surjection(D, D) BY <1>2, <1>4, FS_Injection
<1>6. \A k \in D : \E i \in D : Rank(rows, i) = k BY <1>5 DEF Surjection
<1>7. \A k \in D : p[k] \in D /\ Rank(rows, p[k]) = k BY <1>6 DEF Place
<1>8. p \in [D -> D] BY <1>7 DEF Place
<1>9. ASSUME NEW i \in D PROVE \E k \in D : p[k] = i
  <2>1. Rank(rows, i) \in D BY RankFacts
  <2>2. p[Rank(rows, i)] = i BY <2>1, <1>7, <1>3
  <2>q. QED BY <2>1, <2>2
<1>10. ASSUME NEW k \in D, NEW l \in D, k < l PROVE Before(rows, p[k], p[l])
  <2>1. p[k] \in D /\ p[l] \in D /\ Rank(rows, p[k]) = k /\ Rank(rows, p[l]) = l BY <1>7
  <2>2. k \in Nat /\ l \in Nat BY <1>1
  <2>3. p[k] # p[l] BY <2>1, <2>2, <1>10
  <2>4. ~Before(rows, p[l], p[k])
    <3>1. Before(rows, p[l], p[k]) => Rank(rows, p[l]) < Rank(rows, p[k]) BY <2>1, RankFacts
    <3>q. QED BY <3>1, <2>1, <2>2, <1>10
  <2>q. QED BY <2>1, <2>3, <2>4, BeforeIsTotal
<1>q. QED BY <1>8, <1>9, <1>10

(***************************************************************************)
(* Transfer rules.                                                         *)
(***************************************************************************)

\* A rule's specificity is one of finitely many naturals.
LEMMA SpecificityIsNatural == ASSUME NEW r PROVE Specificity(r) \in 0 .. 700
<1> DEFINE Named(x) == IF x = Any THEN 0 ELSE 1
           stops == Named(r.fromStop) + Named(r.toStop)
           trips == Named(r.fromTrip) + Named(r.toTrip)
           routes == Named(r.fromRoute) + Named(r.toRoute)
           crossed == \/ r.fromTrip # Any /\ r.toRoute # Any
                      \/ r.fromRoute # Any /\ r.toTrip # Any
           class == CASE trips = 2 -> 6
                      [] trips = 1 /\ crossed -> 5
                      [] trips = 1 /\ ~crossed -> 4
                      [] trips = 0 /\ routes > 0 -> 1 + routes
                      [] trips = 0 /\ routes = 0 -> IF stops > 0 THEN 1 ELSE 0
<1>1. stops \in 0 .. 2 /\ trips \in 0 .. 2 /\ routes \in 0 .. 2 OBVIOUS
<1>2. class \in 0 .. 6
  <2> HIDE DEF stops, trips, routes, crossed
  <2>q. QED BY <1>1
<1>3. Specificity(r) = 100 * class + stops BY DEF Specificity
<1> HIDE DEF class, stops
<1>q. QED BY <1>1, <1>2, <1>3

\* Of two rules with the same specificity one is considered first.
LEMMA ConsideredInOrder ==
  ASSUME NEW rules, NEW i \in Int, NEW j \in Int
  PROVE  /\ i # j => ConsideredBefore(rules, i, j) \/ ConsideredBefore(rules, j, i)
         /\ ~(ConsideredBefore(rules, i, j) /\ ConsideredBefore(rules, j, i))
BY DEF ConsideredBefore

Beats(rules, i, j) ==
  \/ Specificity(rules[j]) < Specificity(rules[i])
  \/ Specificity(rules[j]) = Specificity(rules[i]) /\ ConsideredBefore(rules, i, j)

\* Among rules there is one champion.
LEMMA ChampionFacts ==
  ASSUME NEW rules, NEW ms, ms \subseteq Nat, ms # {}
  PROVE  /\ Champion(rules, ms) \in ms
         /\ \A j \in ms \ {Champion(rules, ms)} : Beats(rules, Champion(rules, ms), j)
         /\ Strongest(rules, ms, Champion(rules, ms))
<1> DEFINE V == {Specificity(rules[i]) : i \in ms}
<1>1. PICK v \in V : \A w \in V : v >= w
  <2>1. \A i \in ms : Specificity(rules[i]) \in 0 .. 700 BY SpecificityIsNatural
  <2>2. V \subseteq 0 .. 700 /\ V # {}
    <3>1. PICK i \in ms : TRUE OBVIOUS
    <3>2. Specificity(rules[i]) \in V BY <3>1
    <3>3. ASSUME NEW w \in V PROVE w \in 0 .. 700 BY <2>1
    <3> HIDE DEF V
    <3>q. QED BY <3>2, <3>3
  <2> HIDE DEF V
  <2>3. V \subseteq Nat /\ 700 \in Nat /\ \A w \in V : w <= 700 BY <2>2
  <2>q. QED BY ZenonT(60), <2>2, <2>3, GreatestNatural
<1> DEFINE T == {i \in ms : Specificity(rules[i]) = v}
           N == {i \in T : rules[i].toStop # Any}
           U == IF N # {} THEN N ELSE T
<1>2. U \subseteq Nat /\ U # {} OBVIOUS
<1>3. PICK c \in U : \A u \in U : c <= u
  <2> HIDE DEF U
  <2>q. QED BY <1>2, LeastNatural
<1>4. c \in ms /\ Specificity(rules[c]) = v OBVIOUS
<1>5. ASSUME NEW j \in ms \ {c} PROVE Beats(rules, c, j)
  <2>1. Specificity(rules[j]) \in Nat /\ v \in Nat /\ Specificity(rules[j]) <= v
    BY <1>1, <1>4, SpecificityIsNatural
  <2>2. CASE Specificity(rules[j]) < v BY <2>2, <1>4 DEF Beats
  <2>3. CASE Specificity(rules[j]) = v
    <3>1. j \in T /\ j \in Nat /\ c \in Nat /\ j # c BY <2>3, <1>2
    <3>2. CASE rules[j].toStop # Any
      <4>1. j \in U /\ rules[c].toStop # Any BY <3>1, <3>2
      <4>q. QED BY <4>1, <3>1, <3>2, <1>3, <1>4, <2>3 DEF Beats, ConsideredBefore
    <3>3. CASE rules[j].toStop = Any /\ rules[c].toStop = Any
      <4>1. N = {} BY <3>3
      <4>2. j \in U BY <4>1, <3>1
      <4>q. QED BY <4>2, <3>1, <3>3, <1>3, <1>4, <2>3 DEF Beats, ConsideredBefore
    <3>4. CASE rules[j].toStop = Any /\ rules[c].toStop # Any
      BY <3>4, <1>4, <2>3 DEF Beats, ConsideredBefore
    <3>q. QED BY <3>2, <3>3, <3>4
  <2>q. QED BY <2>1, <2>2, <2>3
<1>6. Champion(rules, ms) \in ms /\ \A j \in ms \ {Champion(rules, ms)} : Beats(rules, Champion(rules, ms), j)
  <2> DEFINE P(i) == i \in ms /\ \A j \in ms \ {i} : Beats(rules, i, j)
  <2>1. P(c) BY <1>4, <1>5
  <2>2. Champion(rules, ms) = CHOOSE i \in ms : \A j \in ms \ {i} : Beats(rules, i, j)
    BY DEF Champion, Beats
  <2>q. QED BY <2>1, <2>2
<1>7. Strongest(rules, ms, Champion(rules, ms))
  <2>1. ASSUME NEW j \in ms PROVE Specificity(rules[j]) <= Specificity(rules[Champion(rules, ms)])
    <3>1. Specificity(rules[j]) \in Nat /\ Specificity(rules[Champion(rules, ms)]) \in Nat
      BY SMTT(30), SpecificityIsNatural
    <3>2. j = Champion(rules, ms) \/ Beats(rules, Champion(rules, ms), j) BY <1>6
    <3>q. QED BY <3>1, <3>2 DEF Beats
  <2>q. QED BY <2>1, <1>6 DEF Strongest
<1>q. QED BY <1>6, <1>7

\* When no two rules contradict each other, the most specific ones say the same.
LEMMA StrongestAgree ==
  ASSUME NEW rules, NEW ms, ms \subseteq Nat, ~Conflicting(rules, ms),
         NEW i, Strongest(rules, ms, i)
  PROVE  SameEffect(rules[Champion(rules, ms)], rules[i])
<1> DEFINE c == Champion(rules, ms)
           before == {x \in ms : ConsideredBefore(rules, x, i)}
           b == Champion(rules, before)
<1>1. i \in ms /\ \A j \in ms : Specificity(rules[j]) <= Specificity(rules[i]) BY DEF Strongest
<1>2. c \in ms /\ \A j \in ms \ {c} : Beats(rules, c, j) BY <1>1, ChampionFacts
<1>3. CASE c = i BY <1>3 DEF SameEffect
<1>4. CASE c # i
  <2>1. Beats(rules, c, i) BY <1>1, <1>2, <1>4
  <2>2. Specificity(rules[c]) = Specificity(rules[i]) /\ ConsideredBefore(rules, c, i)
    <3>1. Specificity(rules[c]) \in Nat /\ Specificity(rules[i]) \in Nat BY SpecificityIsNatural
    <3>2. Specificity(rules[c]) <= Specificity(rules[i]) BY <1>1, <1>2
    <3>q. QED BY <2>1, <3>1, <3>2 DEF Beats
  <2>3. before \subseteq Nat /\ before # {} /\ c \in before BY <1>2, <2>2
  <2>4. b \in before /\ \A j \in before \ {b} : Beats(rules, b, j)
    <3> HIDE DEF before
    <3>q. QED BY <2>3, ChampionFacts
  <2>5. b = c
    <3> SUFFICES ASSUME b # c PROVE FALSE OBVIOUS
    <3>1. Beats(rules, b, c) BY <2>3, <2>4
    <3>2. Beats(rules, c, b) BY <1>2, <2>4
    <3>3. Specificity(rules[c]) \in Nat /\ Specificity(rules[b]) \in Nat BY SpecificityIsNatural
    <3>4. ~(ConsideredBefore(rules, b, c) /\ ConsideredBefore(rules, c, b))
      BY <1>2, <2>3, <2>4, ConsideredInOrder
    <3> HIDE DEF b, c
    <3>q. QED BY <3>1, <3>2, <3>3, <3>4 DEF Beats
  <2>6. ~(Specificity(rules[b]) = Specificity(rules[i]) /\ ~SameEffect(rules[b], rules[i]))
    BY <1>1, <2>3 DEF Conflicting
  <2>q. QED BY <2>2, <2>5, <2>6
<1>q. QED BY <1>3, <1>4

\* A rider who is ready in time may change, whatever the order of the rules...
LEMMA ReadyIsAllowed ==
  ASSUME NEW rules \in Seq(Rules), NEW ms, ms \subseteq DOMAIN rules, ~Conflicting(rules, ms),
         NEW arrival \in Int, NEW alight \in Int, NEW dep \in Int, dep < Infinity,
         ReadyBy(rules, ms, arrival, alight) <= dep
  PROVE  arrival <= dep /\ RulesAllow(rules, ms, alight, dep)
<1> DEFINE c == Champion(rules, ms)
<1>0. ms \subseteq Nat /\ Infinity \in Int BY ConstantsAssumption
<1>1. CASE ms = {} BY <1>1 DEF ReadyBy, RulesAllow, Strongest
<1>2. CASE ms # {}
  <2>1. c \in ms /\ c \in DOMAIN rules BY <1>0, <1>2, ChampionFacts
  <2>2. rules[c] \in Rules BY <2>1
  <2>3. rules[c].type \in {"recommended", "minimum", "forbidden"} /\ rules[c].min \in Nat
    BY <2>2 DEF Rules
  <2>4. ReadyUnder(rules[c], arrival, alight) <= dep BY <1>2 DEF ReadyBy
  <2>5. rules[c].type # "forbidden" BY <2>3, <2>4, <1>0 DEF ReadyUnder
  <2>6. arrival <= dep /\ (rules[c].type = "minimum" => alight + rules[c].min <= dep)
    <3>1. CASE rules[c].type = "recommended" BY <3>1, <2>4 DEF ReadyUnder
    <3>2. CASE rules[c].type = "minimum"
      <4>1. MaxOf({arrival, alight + rules[c].min}) <= dep BY <3>2, <2>4 DEF ReadyUnder
      <4>2. alight + rules[c].min \in Int BY <2>3
      <4>3. /\ MaxOf({arrival, alight + rules[c].min}) \in {arrival, alight + rules[c].min}
            /\ MaxOf({arrival, alight + rules[c].min}) >= arrival
            /\ MaxOf({arrival, alight + rules[c].min}) >= alight + rules[c].min
        BY <4>2, MaxOfTwo
      <4> HIDE DEF c
      <4>q. QED BY <4>1, <4>2, <4>3
    <3>q. QED BY <3>1, <3>2, <2>3, <2>5
  <2>7. ASSUME NEW i \in ms, Strongest(rules, ms, i)
        PROVE  /\ rules[i].type # "forbidden"
               /\ rules[i].type = "minimum" => alight + rules[i].min <= dep
    <3>1. SameEffect(rules[c], rules[i]) BY <2>7, <1>0, StrongestAgree
    <3>q. QED BY <3>1, <2>5, <2>6 DEF SameEffect
  <2>q. QED BY <2>6, <2>7 DEF RulesAllow
<1>q. QED BY <1>1, <1>2

\* ... and the other way round.
LEMMA AllowedIsReady ==
  ASSUME NEW rules \in Seq(Rules), NEW ms, ms \subseteq DOMAIN rules,
         NEW arrival \in Int, NEW alight \in Int, NEW dep \in Int,
         arrival <= dep, RulesAllow(rules, ms, alight, dep)
  PROVE  ReadyBy(rules, ms, arrival, alight) <= dep
<1> DEFINE c == Champion(rules, ms)
<1>0. ms \subseteq Nat OBVIOUS
<1>1. CASE ms = {} BY <1>1 DEF ReadyBy
<1>2. CASE ms # {}
  <2>1. c \in ms /\ Strongest(rules, ms, c) BY <1>0, <1>2, ChampionFacts
  <2>2. /\ rules[c].type # "forbidden"
        /\ rules[c].type = "minimum" => alight + rules[c].min <= dep
    BY <2>1 DEF RulesAllow
  <2>3. rules[c] \in Rules BY <2>1
  <2>4. rules[c].type \in {"recommended", "minimum", "forbidden"} /\ rules[c].min \in Nat
    BY <2>3 DEF Rules
  <2>5. CASE rules[c].type = "recommended" BY <2>5, <1>2 DEF ReadyBy, ReadyUnder
  <2>6. CASE rules[c].type = "minimum"
    <3>1. alight + rules[c].min \in Int BY <2>4
    <3>2. MaxOf({arrival, alight + rules[c].min}) \in {arrival, alight + rules[c].min}
      BY <3>1, MaxOfTwo
    <3>3. ReadyBy(rules, ms, arrival, alight) = MaxOf({arrival, alight + rules[c].min})
      BY <1>2, <2>6 DEF ReadyBy, ReadyUnder
    <3> HIDE DEF c
    <3>q. QED BY <3>1, <3>2, <3>3, <2>2, <2>6
  <2>q. QED BY <2>2, <2>4, <2>5, <2>6
<1>q. QED BY <1>1, <1>2

(***************************************************************************)
(* A query turned round.                                                   *)
(***************************************************************************)

\* What reversing a connection, a link, a rule or a walk does to its fields.
LEMMA ReversedFields ==
  /\ \A c \in Rows : LET r == ReversedConnection(c)
                     IN  /\ r \in Rows /\ r.trip = c.trip /\ r.from = c.to /\ r.to = c.from
                         /\ r.depTime = -c.arrTime /\ r.arrTime = -c.depTime
                         /\ r.pickup = c.dropOff /\ r.dropOff = c.pickup
  /\ \A l \in Links : LET r == ReversedLink(l)
                      IN  /\ r \in Links /\ r.type = l.type
                          /\ r.fromTrip = l.toTrip /\ r.toTrip = l.fromTrip
                          /\ r.fromStop = l.toStop /\ r.toStop = l.fromStop
  /\ \A x \in Rules : LET r == ReversedRule(x)
                      IN  /\ r \in Rules /\ r.type = x.type /\ r.min = x.min
                          /\ r.fromStop = x.toStop /\ r.toStop = x.fromStop
                          /\ r.fromRoute = x.toRoute /\ r.toRoute = x.fromRoute
                          /\ r.fromTrip = x.toTrip /\ r.toTrip = x.fromTrip
  /\ \A e \in Edges : LET r == [e EXCEPT !.from = e.to, !.to = e.from]
                      IN  r \in Edges /\ r.from = e.to /\ r.to = e.from /\ r.secs = e.secs
<1>1. ASSUME NEW c \in Rows
      PROVE  LET r == ReversedConnection(c)
             IN  /\ r \in Rows /\ r.trip = c.trip /\ r.from = c.to /\ r.to = c.from
                 /\ r.depTime = -c.arrTime /\ r.arrTime = -c.depTime
                 /\ r.pickup = c.dropOff /\ r.dropOff = c.pickup
  <2> DEFINE r == ReversedConnection(c)
  <2>1. r.trip = c.trip /\ r.from = c.to /\ r.to = c.from BY DEF Rows, ReversedConnection
  <2>2. r.pickup = c.dropOff /\ r.dropOff = c.pickup BY DEF Rows, ReversedConnection
  <2>3. r.depTime = -c.arrTime BY DEF Rows, ReversedConnection
  <2>4. r.arrTime = -c.depTime BY DEF Rows, ReversedConnection
  <2>5. -c.arrTime \in Int /\ -c.depTime \in Int BY DEF Rows
  <2>6. r \in Rows BY <2>5 DEF Rows, ReversedConnection
  <2>q. QED BY <2>1, <2>2, <2>3, <2>4, <2>6
<1>2. ASSUME NEW l \in Links
      PROVE  LET r == ReversedLink(l)
             IN  /\ r \in Links /\ r.type = l.type
                 /\ r.fromTrip = l.toTrip /\ r.toTrip = l.fromTrip
                 /\ r.fromStop = l.toStop /\ r.toStop = l.fromStop
  BY DEF Links, ReversedLink
<1>3. ASSUME NEW x \in Rules
      PROVE  LET r == ReversedRule(x)
             IN  /\ r \in Rules /\ r.type = x.type /\ r.min = x.min
                 /\ r.fromStop = x.toStop /\ r.toStop = x.fromStop
                 /\ r.fromRoute = x.toRoute /\ r.toRoute = x.fromRoute
                 /\ r.fromTrip = x.toTrip /\ r.toTrip = x.fromTrip
  BY DEF Rules, ReversedRule
<1>4. ASSUME NEW e \in Edges
      PROVE  LET r == [e EXCEPT !.from = e.to, !.to = e.from]
             IN  r \in Edges /\ r.from = e.to /\ r.to = e.from /\ r.secs = e.secs
  BY DEF Edges
<1>q. QED BY <1>1, <1>2, <1>3, <1>4

\* What reversing does to each part of a query.
LEMMA ReversalFields ==
  ASSUME NEW q \in Queries
  PROVE  LET d == Reversal(q)
         IN  /\ d.rows = ReversedRows(q.rows) /\ d.walk = ReversedWalk(q.walk)
             /\ d.rules = [i \in DOMAIN q.rules |-> ReversedRule(q.rules[i])]
             /\ d.links = {ReversedLink(l) : l \in q.links}
             /\ d.sources = q.targets /\ d.targets = q.sources /\ d.at = -q.at
             /\ d.latest = q.latest /\ d.conditional = q.conditional
BY DEF Queries, Reversal

\* Row i of the one is row n + 1 - i of the other, turned round.
LEMMA ReversalRows ==
  ASSUME NEW q \in Queries
  PROVE  LET d == Reversal(q)
             n == Len(q.rows)
         IN  /\ n \in Nat /\ d.rows \in Seq(Rows) /\ DOMAIN q.rows = 1 .. n /\ DOMAIN d.rows = 1 .. n
             /\ Len(d.rows) = n
             /\ \A i \in 1 .. n : /\ n + 1 - i \in 1 .. n /\ q.rows[i] \in Rows
                                  /\ d.rows[i] = ReversedConnection(q.rows[n + 1 - i])
<1> DEFINE n == Len(q.rows)
           r == ReversedRows(q.rows)
<1>1. q.rows \in Seq(Rows) BY DEF Queries
<1>2. n \in Nat /\ DOMAIN q.rows = 1 .. n BY <1>1
<1>3. \A i \in 1 .. n : n + 1 - i \in 1 .. n /\ q.rows[i] \in Rows BY <1>1, <1>2
<1>4. \A i \in 1 .. n : ReversedConnection(q.rows[n + 1 - i]) \in Rows BY <1>3, ReversedFields
<1>5. r = [i \in 1 .. n |-> ReversedConnection(q.rows[n + 1 - i])] BY <1>2 DEF ReversedRows
<1>6. r \in [1 .. n -> Rows] BY <1>4, <1>5
<1>7. r \in Seq(Rows) /\ Len(r) = n /\ DOMAIN r = 1 .. n BY <1>2, <1>6
<1>8. \A i \in 1 .. n : r[i] = ReversedConnection(q.rows[n + 1 - i]) BY <1>5
<1>9. Reversal(q).rows = r BY ReversalFields
<1>q. QED BY <1>2, <1>3, <1>7, <1>8, <1>9

\* Row i of the reversed query is row n + 1 - i with its ends exchanged.
LEMMA ReversalRow ==
  ASSUME NEW q \in Queries, NEW i \in 1 .. Len(q.rows)
  PROVE  LET d == Reversal(q)
             j == Len(q.rows) + 1 - i
         IN  /\ j \in 1 .. Len(q.rows) /\ d.rows[i] \in Rows /\ q.rows[j] \in Rows
             /\ d.rows[i].trip = q.rows[j].trip /\ d.rows[i].from = q.rows[j].to
             /\ d.rows[i].to = q.rows[j].from /\ d.rows[i].depTime = -q.rows[j].arrTime
             /\ d.rows[i].arrTime = -q.rows[j].depTime /\ d.rows[i].pickup = q.rows[j].dropOff
             /\ d.rows[i].dropOff = q.rows[j].pickup
             /\ q.rows[j].depTime \in Int /\ q.rows[j].arrTime \in Int
             /\ q.rows[j].trip \in Trips /\ q.rows[j].from \in Stops /\ q.rows[j].to \in Stops
<1> DEFINE j == Len(q.rows) + 1 - i
<1>1. j \in 1 .. Len(q.rows) /\ Reversal(q).rows[i] = ReversedConnection(q.rows[j]) BY ReversalRows
<1>2. q.rows[j] \in Rows BY <1>1, ReversalRows
<1> HIDE DEF j
<1>3. q.rows[j].depTime \in Int /\ q.rows[j].arrTime \in Int
      /\ q.rows[j].trip \in Trips /\ q.rows[j].from \in Stops /\ q.rows[j].to \in Stops
  BY <1>2 DEF Rows
<1>q. QED BY ZenonT(60), <1>1, <1>2, <1>3, ReversedFields DEF j

\* The first row of a trip becomes its last, and the last its first.
LEMMA ReversalEnds ==
  ASSUME NEW q \in Queries, NEW i \in 1 .. Len(q.rows)
  PROVE  /\ IsFirst(Reversal(q), i) <=> IsLast(q, Len(q.rows) + 1 - i)
         /\ IsLast(Reversal(q), i) <=> IsFirst(q, Len(q.rows) + 1 - i)
<1> DEFINE n == Len(q.rows)
           d == Reversal(q)
<1>1. n \in Nat /\ DOMAIN q.rows = 1 .. n /\ DOMAIN d.rows = 1 .. n BY ReversalRows
<1>2. \A j \in 1 .. n : n + 1 - j \in 1 .. n /\ d.rows[j].trip = q.rows[n + 1 - j].trip
  BY ReversalRow
<1>3. \A j \in 1 .. n : j \in RowsOf(d, d.rows[i].trip) <=> n + 1 - j \in RowsOf(q, q.rows[n + 1 - i].trip)
  BY <1>1, <1>2 DEF RowsOf
<1>4. \A j \in 1 .. n : n + 1 - (n + 1 - j) = j BY <1>1
<1>5. RowsOf(d, d.rows[i].trip) \subseteq 1 .. n /\ RowsOf(q, q.rows[n + 1 - i].trip) \subseteq 1 .. n
  BY <1>1 DEF RowsOf
<1> HIDE DEF d
<1>6. ASSUME IsFirst(d, i), NEW k \in RowsOf(q, q.rows[n + 1 - i].trip) PROVE k <= n + 1 - i
  <2>1. k \in 1 .. n BY <1>5
  <2>2. n + 1 - k \in RowsOf(d, d.rows[i].trip) BY <2>1, <1>2, <1>3, <1>4
  <2>q. QED BY <1>6, <2>1, <2>2, <1>1 DEF IsFirst
<1>7. ASSUME IsLast(q, n + 1 - i), NEW k \in RowsOf(d, d.rows[i].trip) PROVE i <= k
  <2>1. k \in 1 .. n BY <1>5
  <2>2. n + 1 - k \in RowsOf(q, q.rows[n + 1 - i].trip) BY <2>1, <1>3
  <2>q. QED BY <1>7, <2>1, <2>2, <1>1 DEF IsLast
<1>8. ASSUME IsLast(d, i), NEW k \in RowsOf(q, q.rows[n + 1 - i].trip) PROVE n + 1 - i <= k
  <2>1. k \in 1 .. n BY <1>5
  <2>2. n + 1 - k \in RowsOf(d, d.rows[i].trip) BY <2>1, <1>2, <1>3, <1>4
  <2>q. QED BY <1>8, <2>1, <2>2, <1>1 DEF IsLast
<1>9. ASSUME IsFirst(q, n + 1 - i), NEW k \in RowsOf(d, d.rows[i].trip) PROVE k <= i
  <2>1. k \in 1 .. n BY <1>5
  <2>2. n + 1 - k \in RowsOf(q, q.rows[n + 1 - i].trip) BY <2>1, <1>3
  <2>q. QED BY <1>9, <2>1, <2>2, <1>1 DEF IsFirst
<1>q. QED BY <1>6, <1>7, <1>8, <1>9 DEF IsFirst, IsLast, d

\* Rows that follow one another still do, the other way round.
LEMMA ReversalAdjoin ==
  ASSUME NEW q \in Queries, NEW i \in 1 .. Len(q.rows) - 1
  PROVE  /\ Len(q.rows) - i \in 1 .. Len(q.rows) - 1
         /\ Adjoin(Reversal(q), i, i + 1) <=> Adjoin(q, Len(q.rows) - i, Len(q.rows) - i + 1)
         /\ Reversal(q).rows[i].trip = q.rows[Len(q.rows) - i + 1].trip
         /\ Reversal(q).rows[i + 1].trip = q.rows[Len(q.rows) - i].trip
<1> DEFINE n == Len(q.rows)
           d == Reversal(q)
<1>1. n \in Nat BY ReversalRows
<1>2. /\ i \in 1 .. n /\ i + 1 \in 1 .. n /\ n - i \in 1 .. n /\ n - i \in 1 .. n - 1
      /\ n + 1 - i = n - i + 1 /\ n + 1 - (i + 1) = n - i
  <2>1. i \in 1 .. n - 1 OBVIOUS
  <2> HIDE DEF n
  <2>q. QED BY <1>1, <2>1
<1>3. /\ d.rows[i].trip = q.rows[n - i + 1].trip /\ d.rows[i].to = q.rows[n - i + 1].from
      /\ d.rows[i].arrTime = -q.rows[n - i + 1].depTime /\ q.rows[n - i + 1].depTime \in Int
  BY <1>2, ReversalRow
<1>4. /\ d.rows[i + 1].trip = q.rows[n - i].trip /\ d.rows[i + 1].from = q.rows[n - i].to
      /\ d.rows[i + 1].depTime = -q.rows[n - i].arrTime /\ q.rows[n - i].arrTime \in Int
  BY <1>2, ReversalRow
<1> HIDE DEF d
<1>5. Adjoin(d, i, i + 1) <=> Adjoin(q, n - i, n - i + 1) BY <1>1, <1>2, <1>3, <1>4 DEF Adjoin
<1>q. QED BY <1>2, <1>3, <1>4, <1>5 DEF d

\* A gap in a reversed trip is a gap in the trip.
LEMMA ReversalGap ==
  ASSUME NEW q \in Queries, HasGap(Reversal(q))
  PROVE  HasGap(q)
<1> DEFINE n == Len(q.rows)
<1>1. n \in Nat /\ Len(Reversal(q).rows) = n BY ReversalRows
<1>2. PICK i \in 1 .. n - 1 : /\ Reversal(q).rows[i].trip = Reversal(q).rows[i + 1].trip
                              /\ ~Adjoin(Reversal(q), i, i + 1)
  BY <1>1 DEF HasGap
<1>3. n - i \in 1 .. n - 1 /\ ~Adjoin(q, n - i, n - i + 1)
      /\ q.rows[n - i].trip = q.rows[n - i + 1].trip
  BY <1>2, ReversalAdjoin
<1>q. QED BY <1>3 DEF HasGap

\* A timetable whose trips run forward does so when it is reversed.
LEMMA ReversalRunsForward ==
  ASSUME NEW q \in Queries, RunsForward(q)
  PROVE  RunsForward(Reversal(q))
<1> DEFINE n == Len(q.rows)
           d == Reversal(q)
<1>1. n \in Nat /\ DOMAIN d.rows = 1 .. n /\ DOMAIN q.rows = 1 .. n BY ReversalRows
<1>2. ASSUME NEW i \in 1 .. n, NEW j \in 1 .. n, i <= j, d.rows[i].trip = d.rows[j].trip
      PROVE  /\ d.rows[i].depTime <= d.rows[j].depTime /\ d.rows[i].arrTime <= d.rows[j].arrTime
             /\ d.rows[j].to # d.rows[i].from \/ d.rows[j].arrTime # d.rows[i].depTime
  <2> DEFINE a == n + 1 - j
             b == n + 1 - i
  <2>1. /\ a \in 1 .. n /\ d.rows[j].trip = q.rows[a].trip /\ d.rows[j].to = q.rows[a].from
        /\ d.rows[j].depTime = -q.rows[a].arrTime /\ d.rows[j].arrTime = -q.rows[a].depTime
        /\ q.rows[a].depTime \in Int /\ q.rows[a].arrTime \in Int
    BY ReversalRow
  <2>2. /\ b \in 1 .. n /\ d.rows[i].trip = q.rows[b].trip /\ d.rows[i].from = q.rows[b].to
        /\ d.rows[i].depTime = -q.rows[b].arrTime /\ d.rows[i].arrTime = -q.rows[b].depTime
        /\ q.rows[b].depTime \in Int /\ q.rows[b].arrTime \in Int
    BY ReversalRow
  <2>3. a <= b BY <1>1, <1>2
  <2> HIDE DEF a, b, d
  <2>4. /\ q.rows[a].depTime <= q.rows[b].depTime /\ q.rows[a].arrTime <= q.rows[b].arrTime
        /\ q.rows[b].to # q.rows[a].from \/ q.rows[b].arrTime # q.rows[a].depTime
    BY <1>1, <1>2, <2>1, <2>2, <2>3 DEF RunsForward
  <2>5. d.rows[i].depTime <= d.rows[j].depTime BY <2>1, <2>2, <2>4
  <2>6. d.rows[i].arrTime <= d.rows[j].arrTime BY <2>1, <2>2, <2>4
  <2>7. d.rows[j].arrTime = d.rows[i].depTime => q.rows[b].arrTime = q.rows[a].depTime
    BY <2>1, <2>2
  <2>q. QED BY <2>1, <2>2, <2>4, <2>5, <2>6, <2>7
<1>q. QED BY <1>1, <1>2 DEF RunsForward

\* A reversed link joins the reversed rows that the link joins.
LEMMA ReversalLinkMatches ==
  ASSUME NEW q \in Queries, NEW l \in Links, NEW type,
         NEW i \in 1 .. Len(q.rows), NEW j \in 1 .. Len(q.rows)
  PROVE  LinkMatches(ReversedLink(l), type, Reversal(q).rows[i], Reversal(q).rows[j])
           <=> LinkMatches(l, type, q.rows[Len(q.rows) + 1 - j], q.rows[Len(q.rows) + 1 - i])
<1>1. /\ ReversedLink(l).type = l.type /\ ReversedLink(l).fromTrip = l.toTrip
      /\ ReversedLink(l).toTrip = l.fromTrip /\ ReversedLink(l).fromStop = l.toStop
      /\ ReversedLink(l).toStop = l.fromStop
  BY ReversedFields
<1>2. /\ Reversal(q).rows[i].trip = q.rows[Len(q.rows) + 1 - i].trip
      /\ Reversal(q).rows[i].to = q.rows[Len(q.rows) + 1 - i].from
  BY ReversalRow
<1>3. /\ Reversal(q).rows[j].trip = q.rows[Len(q.rows) + 1 - j].trip
      /\ Reversal(q).rows[j].from = q.rows[Len(q.rows) + 1 - j].to
  BY ReversalRow
<1>q. QED BY <1>1, <1>2, <1>3 DEF LinkMatches

\* Whether a rider may stay on board does not depend on the direction of the scan.
LEMMA ReversalMayStay ==
  ASSUME NEW q \in Queries, NEW i \in 1 .. Len(q.rows), NEW j \in 1 .. Len(q.rows)
  PROVE  MayStay(Reversal(q), Reversal(q).rows[i], Reversal(q).rows[j])
           <=> MayStay(q, q.rows[Len(q.rows) + 1 - j], q.rows[Len(q.rows) + 1 - i])
<1> DEFINE a == q.rows[Len(q.rows) + 1 - j]
           b == q.rows[Len(q.rows) + 1 - i]
           x == Reversal(q).rows[i]
           y == Reversal(q).rows[j]
<1>1. x.arrTime = -b.depTime /\ b.depTime \in Int BY ReversalRow
<1>2. y.depTime = -a.arrTime /\ a.arrTime \in Int BY ReversalRow
<1>3. Reversal(q).links = {ReversedLink(l) : l \in q.links} /\ q.links \subseteq Links
  BY ReversalFields DEF Queries
<1>4. \A l \in q.links, type \in {"stay", "leave"} :
        LinkMatches(ReversedLink(l), type, x, y) <=> LinkMatches(l, type, a, b)
  BY <1>3, ReversalLinkMatches
<1> HIDE DEF a, b, x, y
<1>5. \A type \in {"stay", "leave"} : (\E l \in Reversal(q).links : LinkMatches(l, type, x, y))
                                       <=> (\E l \in q.links : LinkMatches(l, type, a, b))
  BY <1>3, <1>4
<1>6. x.arrTime <= y.depTime <=> a.arrTime <= b.depTime BY <1>1, <1>2
<1>q. QED BY <1>5, <1>6 DEF MayStay, a, b, x, y

\* Continuations that run forward do so when they are reversed.
LEMMA ReversalContinuesForward ==
  ASSUME NEW q \in Queries, ContinuesForward(q)
  PROVE  ContinuesForward(Reversal(q))
<1> DEFINE n == Len(q.rows)
           d == Reversal(q)
<1>1. n \in Nat /\ DOMAIN d.rows = 1 .. n /\ DOMAIN q.rows = 1 .. n BY ReversalRows
<1>2. ASSUME NEW a \in 1 .. n, NEW b \in 1 .. n, IsLast(d, a), IsFirst(d, b),
             d.rows[a].arrTime <= d.rows[b].depTime, b < a,
             NEW l \in d.links, LinkMatches(l, "stay", d.rows[a], d.rows[b])
      PROVE  d.rows[a].depTime # d.rows[b].depTime /\ d.rows[a].arrTime # d.rows[b].arrTime
  <2> DEFINE x == n + 1 - b
             y == n + 1 - a
  <2>1. /\ y \in 1 .. n /\ d.rows[a].depTime = -q.rows[y].arrTime /\ d.rows[a].arrTime = -q.rows[y].depTime
        /\ q.rows[y].depTime \in Int /\ q.rows[y].arrTime \in Int
    BY ReversalRow
  <2>2. /\ x \in 1 .. n /\ d.rows[b].depTime = -q.rows[x].arrTime /\ d.rows[b].arrTime = -q.rows[x].depTime
        /\ q.rows[x].depTime \in Int /\ q.rows[x].arrTime \in Int
    BY ReversalRow
  <2>3. IsLast(q, x) /\ IsFirst(q, y) BY <1>2, ReversalEnds
  <2>4. y < x BY <1>1, <1>2
  <2>5. \E k \in q.links : LinkMatches(k, "stay", q.rows[x], q.rows[y])
    <3>1. d.links = {ReversedLink(k) : k \in q.links} /\ q.links \subseteq Links
      BY ReversalFields DEF Queries
    <3>2. PICK k \in q.links : l = ReversedLink(k) BY <3>1
    <3>q. QED BY <1>2, <3>1, <3>2, ReversalLinkMatches
  <2> HIDE DEF x, y, d
  <2>6. q.rows[x].arrTime <= q.rows[y].depTime BY <1>2, <2>1, <2>2
  <2>7. q.rows[x].depTime # q.rows[y].depTime /\ q.rows[x].arrTime # q.rows[y].arrTime
    BY <1>1, <2>1, <2>2, <2>3, <2>4, <2>5, <2>6 DEF ContinuesForward
  <2>8. d.rows[a].depTime # d.rows[b].depTime BY <2>1, <2>2, <2>7
  <2>9. d.rows[a].arrTime # d.rows[b].arrTime BY SMTT(30), <2>1, <2>2, <2>7
  <2>q. QED BY <2>8, <2>9
<1>q. QED BY <1>1, <1>2 DEF ContinuesForward

\* A reversed query is one the scan may be given.
LEMMA ReversalWellFormed ==
  ASSUME NEW q, WellFormed(q)
  PROVE  WellFormed(Reversal(q))
<1> DEFINE n == Len(q.rows)
           d == Reversal(q)
<1>0. q \in Queries BY DEF WellFormed
<1>1. n \in Nat /\ DOMAIN d.rows = 1 .. n /\ DOMAIN q.rows = 1 .. n /\ d.rows \in Seq(Rows)
  BY <1>0, ReversalRows
<1>2. d \in Queries
  <2>1. d.walk \subseteq Edges
    <3>1. d.walk = {[e EXCEPT !.from = e.to, !.to = e.from] : e \in q.walk} /\ q.walk \subseteq Edges
      BY <1>0, ReversalFields DEF Queries, ReversedWalk
    <3>q. QED BY <3>1, ReversedFields
  <2>2. d.rules \in Seq(Rules)
    <3>1. d.rules = [i \in DOMAIN q.rules |-> ReversedRule(q.rules[i])] /\ q.rules \in Seq(Rules)
      BY <1>0, ReversalFields DEF Queries
    <3>2. \A i \in DOMAIN q.rules : ReversedRule(q.rules[i]) \in Rules
      <4>1. ASSUME NEW i \in DOMAIN q.rules PROVE ReversedRule(q.rules[i]) \in Rules
        <5>1. q.rules[i] \in Rules BY <3>1
        <5>q. QED BY <5>1, ReversedFields
      <4>q. QED BY <4>1
    <3>3. DOMAIN q.rules = 1 .. Len(q.rules) /\ Len(q.rules) \in Nat BY <3>1
    <3>q. QED BY <3>1, <3>2, <3>3
  <2>3. d.links \subseteq Links
    <3>1. d.links = {ReversedLink(l) : l \in q.links} /\ q.links \subseteq Links
      BY <1>0, ReversalFields DEF Queries
    <3>q. QED BY <3>1, ReversedFields
  <2>4. /\ d.sources = q.targets /\ d.targets = q.sources /\ d.at = -q.at
        /\ d.latest = q.latest /\ d.conditional = q.conditional
    BY <1>0, ReversalFields
  <2>5. /\ q.sources \subseteq Endpoints /\ q.targets \subseteq Endpoints /\ q.at \in Int
        /\ q.latest \in BOOLEAN /\ q.conditional \in BOOLEAN
    BY <1>0 DEF Queries
  <2>6. -q.at \in Int BY <2>5
  <2> DEFINE rows == ReversedRows(q.rows)
             walk == ReversedWalk(q.walk)
             rules == [i \in DOMAIN q.rules |-> ReversedRule(q.rules[i])]
             links == {ReversedLink(l) : l \in q.links}
  <2>7. rows \in Seq(Rows) /\ walk \subseteq Edges /\ rules \in Seq(Rules) /\ links \subseteq Links
    BY <1>0, <1>1, <2>1, <2>2, <2>3, ReversalFields
  <2>8. d = [q EXCEPT !.rows = rows, !.walk = walk, !.rules = rules, !.links = links,
                      !.sources = q.targets, !.targets = q.sources, !.at = -q.at]
    BY DEF Reversal
  <2> HIDE DEF rows, walk, rules, links, d
  <2>q. QED BY <1>0, <2>5, <2>6, <2>7, <2>8 DEF Queries
<1>3. ASSUME NEW i \in 1 .. n
      PROVE  /\ d.rows[i].depTime <= d.rows[i].arrTime
             /\ d.rows[i].depTime > -Infinity /\ d.rows[i].arrTime < Infinity
  <2> DEFINE j == n + 1 - i
  <2>1. /\ j \in 1 .. n /\ d.rows[i].depTime = -q.rows[j].arrTime /\ d.rows[i].arrTime = -q.rows[j].depTime
        /\ q.rows[j].depTime \in Int /\ q.rows[j].arrTime \in Int
    BY <1>0, ReversalRow
  <2> HIDE DEF j, d
  <2>2. /\ q.rows[j].depTime <= q.rows[j].arrTime
        /\ q.rows[j].depTime > -Infinity /\ q.rows[j].arrTime < Infinity
    BY <1>1, <2>1 DEF WellFormed
  <2>q. QED BY <2>1, <2>2, ConstantsAssumption
<1>4. ASSUME NEW i \in 1 .. n, NEW j \in 1 .. n, d.rows[i].trip = d.rows[j].trip, NEW k \in i .. j
      PROVE  d.rows[k].trip = d.rows[i].trip
  <2>1. k \in 1 .. n BY <1>1
  <2>2. n + 1 - k \in n + 1 - j .. n + 1 - i BY <1>1, <2>1
  <2>3. /\ d.rows[i].trip = q.rows[n + 1 - i].trip /\ n + 1 - i \in 1 .. n
        /\ d.rows[j].trip = q.rows[n + 1 - j].trip /\ n + 1 - j \in 1 .. n
        /\ d.rows[k].trip = q.rows[n + 1 - k].trip
    BY <1>0, <2>1, ReversalRow
  <2>q. QED BY <1>1, <1>4, <2>2, <2>3 DEF WellFormed
<1>5. d.at > -Infinity /\ d.at < Infinity
  <2>1. d.at = -q.at /\ q.at \in Int BY <1>0, ReversalFields DEF Queries
  <2>q. QED BY <2>1, ConstantsAssumption DEF WellFormed
<1>q. QED BY <1>1, <1>2, <1>3, <1>4, <1>5 DEF WellFormed

\* A continuation that is loaded joins two rows and no link forbids it.
LEMMA LoadedLinkFacts ==
  ASSUME NEW q, NEW l \in LoadedLinks(q)
  PROVE  /\ l \in q.links
         /\ l.type = "stay" =>
              \E a, b \in DOMAIN q.rows :
                /\ IsLast(q, a) /\ IsFirst(q, b) /\ LinkMatches(l, "stay", q.rows[a], q.rows[b])
                /\ MayStay(q, q.rows[a], q.rows[b])
BY DEF LoadedLinks, MayStay

\* The links that survive loading are the same in both directions.
LEMMA ReversalLoadedLinks ==
  ASSUME NEW q \in Queries, NEW l \in LoadedLinks(q)
  PROVE  ReversedLink(l) \in LoadedLinks(Reversal(q))
<1> DEFINE n == Len(q.rows)
           d == Reversal(q)
           r == ReversedLink(l)
           Blocked(x, i, j) == \E f \in x.links : LinkMatches(f, "leave", x.rows[i], x.rows[j])
<1>1. n \in Nat /\ DOMAIN d.rows = 1 .. n /\ DOMAIN q.rows = 1 .. n BY ReversalRows
<1>2. d.links = {ReversedLink(k) : k \in q.links} /\ q.links \subseteq Links
  BY ReversalFields DEF Queries
<1>3. l \in q.links BY DEF LoadedLinks
<1>4. PICK a \in 1 .. n, b \in 1 .. n :
        /\ IsLast(q, a) /\ IsFirst(q, b) /\ q.rows[a].arrTime <= q.rows[b].depTime
        /\ LinkMatches(l, l.type, q.rows[a], q.rows[b])
        /\ l.type = "stay" => ~Blocked(q, a, b)
  BY <1>1 DEF LoadedLinks
<1> DEFINE x == n + 1 - b
           y == n + 1 - a
<1>5. x \in 1 .. n /\ y \in 1 .. n /\ n + 1 - x = b /\ n + 1 - y = a BY <1>1
<1>6. r \in d.links /\ r.type = l.type BY <1>2, <1>3, ReversedFields
<1>7. IsLast(d, x) /\ IsFirst(d, y)
  <2>1. IsLast(d, x) <=> IsFirst(q, n + 1 - x) BY <1>5, ReversalEnds
  <2>2. IsFirst(d, y) <=> IsLast(q, n + 1 - y) BY <1>5, ReversalEnds
  <2>q. QED BY <1>4, <1>5, <2>1, <2>2
<1>8. d.rows[x].arrTime <= d.rows[y].depTime
  <2>1. d.rows[x].arrTime = -q.rows[n + 1 - x].depTime /\ q.rows[n + 1 - x].depTime \in Int
    BY <1>5, ReversalRow
  <2>2. d.rows[y].depTime = -q.rows[n + 1 - y].arrTime /\ q.rows[n + 1 - y].arrTime \in Int
    BY <1>5, ReversalRow
  <2> HIDE DEF d, x, y
  <2>q. QED BY SMTT(30), <1>4, <1>5, <2>1, <2>2
<1>9. \A k \in Links : \A type : LinkMatches(ReversedLink(k), type, d.rows[x], d.rows[y])
                             <=> LinkMatches(k, type, q.rows[a], q.rows[b])
  <2>1. TAKE k \in Links
  <2>t. TAKE type
  <2>2. LinkMatches(ReversedLink(k), type, d.rows[x], d.rows[y])
          <=> LinkMatches(k, type, q.rows[n + 1 - y], q.rows[n + 1 - x])
    BY <1>5, ReversalLinkMatches
  <2>q. QED BY <1>5, <2>2
<1>10. LinkMatches(r, r.type, d.rows[x], d.rows[y]) BY <1>2, <1>3, <1>4, <1>6, <1>9
<1>11. r.type = "stay" => ~Blocked(d, x, y) BY <1>2, <1>4, <1>6, <1>9
<1>12. r \in LoadedLinks(d)
  <2> HIDE DEF x, y, r, d
  <2>q. QED BY <1>1, <1>5, <1>6, <1>7, <1>8, <1>10, <1>11 DEF LoadedLinks
<1>q. QED BY <1>12

(***************************************************************************)
(* The network.                                                            *)
(***************************************************************************)

\* What the scan works on is the query in the direction of the scan.
LEMMA NetworkFacts ==
  ASSUME NEW q \in Timetables
  PROVE  LET d == Directed(q)
             n == Network(q)
         IN  /\ WellFormed(d) /\ d \in Queries /\ d.conditional = q.conditional
             /\ n.conns = Sorted(d.rows) /\ n.walk = d.walk /\ n.rules = d.rules
             /\ n.links \subseteq LoadedLinks(d)
             /\ n.sources = d.sources /\ n.targets = d.targets /\ n.start = d.at
             /\ RunsForward(q) => RunsForward(d)
             /\ ContinuesForward(q) => ContinuesForward(d)
             /\ HasGap(d) => HasGap(q)
<1>1. WellFormed(q) /\ q \in Queries BY TimetablesAssumption DEF WellFormed
<1>2. CASE ~q.latest
  <2>1. Directed(q) = q BY <1>2 DEF Directed
  <2>q. QED BY <1>1, <1>2, <2>1 DEF Network
<1>3. CASE q.latest
  <2>1. Directed(q) = Reversal(q) BY <1>3 DEF Directed
  <2>2. WellFormed(Reversal(q)) BY <1>1, ReversalWellFormed
  <2>3. Reversal(q) \in Queries BY <2>2 DEF WellFormed
  <2>4. Network(q).links \subseteq LoadedLinks(Reversal(q))
    <3>1. Network(q).links = {ReversedLink(l) : l \in LoadedLinks(q)} BY <1>3 DEF Network
    <3>q. QED BY <1>1, <3>1, ReversalLoadedLinks
  <2>5. (RunsForward(q) => RunsForward(Reversal(q))) BY <1>1, ReversalRunsForward
  <2>6. (ContinuesForward(q) => ContinuesForward(Reversal(q))) BY <1>1, ReversalContinuesForward
  <2>7. (HasGap(Reversal(q)) => HasGap(q)) BY <1>1, ReversalGap
  <2>8. LET d == Reversal(q)
             n == Network(q)
        IN   /\ n.conns = Sorted(d.rows) /\ n.walk = d.walk /\ n.rules = d.rules
             /\ n.sources = d.sources /\ n.targets = d.targets /\ n.start = d.at
             /\ d.conditional = q.conditional
    BY <1>1, <1>3, ReversalFields DEF Network
  <2>q. QED BY <2>1, <2>2, <2>3, <2>4, <2>5, <2>6, <2>7, <2>8
<1>q. QED BY <1>2, <1>3

\* The connections are the rows in order of departure.
LEMMA SortedFacts ==
  ASSUME NEW d, WellFormed(d)
  PROVE  LET c == Sorted(d.rows)
             p == Place(d.rows)
             n == Len(d.rows)
         IN  /\ n \in Nat /\ d.rows \in Seq(Rows) /\ DOMAIN d.rows = 1 .. n
             /\ c \in Seq(Rows) /\ Len(c) = n /\ DOMAIN c = 1 .. n
             /\ p \in [1 .. n -> 1 .. n] /\ \A i \in 1 .. n : \E k \in 1 .. n : p[k] = i
             /\ \A k \in 1 .. n : c[k] = d.rows[p[k]] /\ c[k] \in Rows
             /\ \A k, l \in 1 .. n : k < l => /\ Before(d.rows, p[k], p[l])
                                              /\ c[k].depTime <= c[l].depTime
<1> DEFINE c == Sorted(d.rows)
           p == Place(d.rows)
           n == Len(d.rows)
<1>1. d.rows \in Seq(Rows) BY DEF WellFormed, Queries
<1>2. n \in Nat /\ DOMAIN d.rows = 1 .. n /\ \A i \in 1 .. n : d.rows[i] \in Rows BY <1>1
<1>3. \A i \in 1 .. n : d.rows[i].depTime \in Int BY <1>2 DEF Rows
<1>4. Timed(d.rows) BY <1>1, <1>2, <1>3 DEF Timed
<1>5. /\ p \in [1 .. n -> 1 .. n] /\ \A i \in 1 .. n : \E k \in 1 .. n : p[k] = i
      /\ \A k, l \in 1 .. n : k < l => Before(d.rows, p[k], p[l])
  BY <1>2, <1>4, PlaceFacts
<1>6. c = [k \in 1 .. n |-> d.rows[p[k]]] BY <1>2 DEF Sorted
<1>7. \A k \in 1 .. n : c[k] = d.rows[p[k]] /\ c[k] \in Rows
  <2>1. TAKE k \in 1 .. n
  <2>2. c[k] = d.rows[p[k]] BY <1>6
  <2>3. p[k] \in 1 .. n BY <1>5
  <2> HIDE DEF c, p
  <2>q. QED BY <1>2, <2>2, <2>3
<1>8. c \in [1 .. n -> Rows] BY <1>6, <1>7
<1>9. c \in Seq(Rows) /\ Len(c) = n /\ DOMAIN c = 1 .. n BY <1>2, <1>8
<1>10. ASSUME NEW k \in 1 .. n, NEW l \in 1 .. n, k < l PROVE c[k].depTime <= c[l].depTime
  <2>1. Before(d.rows, p[k], p[l]) BY <1>5, <1>10
  <2>2. p[k] \in 1 .. n /\ p[l] \in 1 .. n BY <1>5
  <2>3. d.rows[p[k]].depTime \in Int /\ d.rows[p[l]].depTime \in Int BY <1>3, <2>2
  <2>4. d.rows[p[k]].depTime <= d.rows[p[l]].depTime BY <2>1, <2>3 DEF Before
  <2>5. c[k] = d.rows[p[k]] /\ c[l] = d.rows[p[l]] BY <1>7
  <2> HIDE DEF c, p
  <2>q. QED BY <2>4, <2>5
<1>q. QED BY <1>1, <1>2, <1>5, <1>7, <1>9, <1>10

\* The connections of a trip that runs forward are in the order of its rows, and
\* two of them with none in between are two rows next to each other.
LEMMA SortedTrips ==
  ASSUME NEW d, WellFormed(d), RunsForward(d),
         NEW k \in 1 .. Len(d.rows), NEW l \in 1 .. Len(d.rows),
         Sorted(d.rows)[k].trip = Sorted(d.rows)[l].trip
  PROVE  /\ k < l <=> Place(d.rows)[k] < Place(d.rows)[l]
         /\ k = l <=> Place(d.rows)[k] = Place(d.rows)[l]
         /\ k < l /\ (\A m \in k + 1 .. l - 1 : Sorted(d.rows)[m].trip # Sorted(d.rows)[k].trip)
              => Place(d.rows)[l] = Place(d.rows)[k] + 1
<1> DEFINE c == Sorted(d.rows)
           p == Place(d.rows)
           n == Len(d.rows)
<1>1. /\ n \in Nat /\ DOMAIN d.rows = 1 .. n
      /\ p \in [1 .. n -> 1 .. n] /\ \A i \in 1 .. n : \E x \in 1 .. n : p[x] = i
      /\ \A x \in 1 .. n : c[x] = d.rows[p[x]] /\ c[x] \in Rows
      /\ \A x, y \in 1 .. n : x < y => Before(d.rows, p[x], p[y])
  BY SortedFacts
<1>2. \A x, y \in 1 .. n : x < y /\ c[x].trip = c[y].trip => p[x] < p[y]
  <2>1. SUFFICES ASSUME NEW x \in 1 .. n, NEW y \in 1 .. n, x < y, c[x].trip = c[y].trip, ~(p[x] < p[y])
                 PROVE  FALSE
    OBVIOUS
  <2>2. Before(d.rows, p[x], p[y]) BY <1>1, <2>1
  <2>3. p[x] \in 1 .. n /\ p[y] \in 1 .. n BY <1>1
  <2>4. d.rows[p[x]].depTime \in Int /\ d.rows[p[y]].depTime \in Int BY <1>1 DEF Rows
  <2>5. d.rows[p[y]].trip = d.rows[p[x]].trip BY <1>1, <2>1
  <2>6. p[y] <= p[x] BY <2>1, <2>3
  <2>7. d.rows[p[y]].depTime <= d.rows[p[x]].depTime BY <1>1, <2>3, <2>5, <2>6 DEF RunsForward
  <2>q. QED BY <2>2, <2>3, <2>4, <2>6, <2>7 DEF Before
<1>3. p[k] \in 1 .. n /\ p[l] \in 1 .. n BY <1>1
<1>4. k < l <=> p[k] < p[l]
  <2>1. k < l => p[k] < p[l] BY <1>2
  <2>2. l < k => p[l] < p[k] BY <1>2
  <2>3. k \in Int /\ l \in Int OBVIOUS
  <2> HIDE DEF p
  <2>q. QED BY <1>3, <2>1, <2>2, <2>3
<1>5. k = l <=> p[k] = p[l]
  <2>1. k < l => p[k] < p[l] BY <1>2
  <2>2. l < k => p[l] < p[k] BY <1>2
  <2>3. k \in Int /\ l \in Int OBVIOUS
  <2> HIDE DEF p
  <2>q. QED BY <1>3, <2>1, <2>2, <2>3
<1>6. ASSUME k < l, \A m \in k + 1 .. l - 1 : c[m].trip # c[k].trip
      PROVE  p[l] = p[k] + 1
  <2>1. p[k] < p[l] BY <1>4, <1>6
  <2>2. SUFFICES ASSUME p[l] # p[k] + 1 PROVE FALSE OBVIOUS
  <2>3. p[k] + 1 \in p[k] .. p[l] /\ p[k] + 1 \in 1 .. n BY <1>3, <2>1
  <2>4. d.rows[p[k]].trip = d.rows[p[l]].trip BY <1>1
  <2>5. d.rows[p[k] + 1].trip = d.rows[p[k]].trip BY <1>1, <1>3, <2>3, <2>4 DEF WellFormed
  <2>6. PICK m \in 1 .. n : p[m] = p[k] + 1 BY <1>1, <2>3
  <2>7. c[m].trip = c[k].trip BY <1>1, <2>5, <2>6
  <2>8. p[k] < p[m] /\ p[m] < p[l] BY <1>3, <2>1, <2>2, <2>6
  <2>9. k < m
    <3>1. m < k => p[m] < p[k] BY <1>2, <2>7
    <3>2. m # k BY <2>8, <1>3
    <3> HIDE DEF p
    <3>q. QED BY <3>1, <3>2, <2>6, <1>3
  <2>10. m < l
    <3>1. l < m => p[l] < p[m] BY <1>2, <2>7
    <3>2. m # l BY <2>8, <1>3
    <3>q. QED BY <3>1, <3>2, <2>8, <1>3, <2>6
  <2>q. QED BY <1>6, <2>7, <2>9, <2>10
<1>q. QED BY <1>4, <1>5, <1>6

\* The fields of a row.
LEMMA RowFields ==
  ASSUME NEW c \in Rows
  PROVE  /\ c.trip \in Trips /\ c.from \in Stops /\ c.to \in Stops
         /\ c.depTime \in Int /\ c.arrTime \in Int
BY DEF Rows

\* What the scan may count on.
LEMMA NetFacts ==
  ASSUME QueryInv
  PROVE  LET d == Directed(tt)
             p == Place(d.rows)
             n == Len(net.conns)
         IN  /\ n \in Nat /\ Len(d.rows) = n /\ DOMAIN net.conns = 1 .. n /\ DOMAIN d.rows = 1 .. n
             /\ p \in [1 .. n -> 1 .. n]
             /\ \A k \in 1 .. n : net.conns[k] = d.rows[p[k]] /\ net.conns[k] \in Rows
             /\ \A k \in 1 .. n : /\ net.conns[k].depTime \in Int /\ net.conns[k].arrTime \in Int
                                  /\ net.conns[k].depTime <= net.conns[k].arrTime
                                  /\ net.conns[k].arrTime < Infinity
                                  /\ net.conns[k].trip \in Trips
                                  /\ net.conns[k].from \in Stops /\ net.conns[k].to \in Stops
             /\ \A k, l \in 1 .. n : k <= l => net.conns[k].depTime <= net.conns[l].depTime
             /\ net.walk = d.walk /\ net.walk \subseteq Edges
             /\ net.rules = d.rules /\ net.rules \in Seq(Rules)
             /\ net.links \subseteq LoadedLinks(d) /\ net.links \subseteq Links
             /\ net.sources = d.sources /\ net.sources \subseteq Endpoints
             /\ net.targets = d.targets /\ net.targets \subseteq Endpoints
             /\ net.start = d.at /\ net.start \in Int
             /\ d.conditional = tt.conditional /\ Infinity \in Int
<1> DEFINE d == Directed(tt)
           p == Place(d.rows)
           n == Len(net.conns)
<1>1. /\ WellFormed(d) /\ d \in Queries /\ d.conditional = tt.conditional
      /\ net.conns = Sorted(d.rows) /\ net.walk = d.walk /\ net.rules = d.rules
      /\ net.links \subseteq LoadedLinks(d)
      /\ net.sources = d.sources /\ net.targets = d.targets /\ net.start = d.at
  BY NetworkFacts DEF QueryInv
<1> HIDE DEF d
<1>2. /\ n \in Nat /\ Len(d.rows) = n /\ DOMAIN net.conns = 1 .. n /\ DOMAIN d.rows = 1 .. n
      /\ p \in [1 .. n -> 1 .. n]
      /\ \A k \in 1 .. n : net.conns[k] = d.rows[p[k]] /\ net.conns[k] \in Rows
      /\ \A k, l \in 1 .. n : k < l => net.conns[k].depTime <= net.conns[l].depTime
  <2> DEFINE c == Sorted(d.rows)
             m == Len(d.rows)
  <2>1. /\ m \in Nat /\ DOMAIN d.rows = 1 .. m
        /\ Len(c) = m /\ DOMAIN c = 1 .. m /\ p \in [1 .. m -> 1 .. m]
        /\ \A k \in 1 .. m : c[k] = d.rows[p[k]] /\ c[k] \in Rows
        /\ \A k, l \in 1 .. m : k < l => c[k].depTime <= c[l].depTime
    BY <1>1, SortedFacts
  <2>2. net.conns = c BY <1>1
  <2> HIDE DEF c, m, p
  <2>3. n = m BY <2>1, <2>2
  <2> HIDE DEF n
  <2>q. QED BY <2>1, <2>2, <2>3 DEF m
<1>3. ASSUME NEW k \in 1 .. n
      PROVE  /\ net.conns[k].depTime \in Int /\ net.conns[k].arrTime \in Int
             /\ net.conns[k].depTime <= net.conns[k].arrTime
             /\ net.conns[k].arrTime < Infinity
             /\ net.conns[k].trip \in Trips
             /\ net.conns[k].from \in Stops /\ net.conns[k].to \in Stops
  <2>1. net.conns[k] = d.rows[p[k]] /\ p[k] \in DOMAIN d.rows BY <1>2
  <2>2. d.rows[p[k]].depTime <= d.rows[p[k]].arrTime /\ d.rows[p[k]].arrTime < Infinity
    BY <1>1, <2>1 DEF WellFormed
  <2>3. net.conns[k] \in Rows BY <1>2
  <2>q. QED BY <2>1, <2>2, <2>3, RowFields
<1>4. ASSUME NEW k \in 1 .. n, NEW l \in 1 .. n, k <= l
      PROVE  net.conns[k].depTime <= net.conns[l].depTime
  <2>1. CASE k = l BY <2>1, <1>3
  <2>2. CASE k < l BY <2>2, <1>2
  <2>q. QED BY <2>1, <2>2, <1>4, <1>2
<1>5. /\ d.walk \subseteq Edges /\ d.rules \in Seq(Rules) /\ d.links \subseteq Links
      /\ d.sources \subseteq Endpoints /\ d.targets \subseteq Endpoints /\ d.at \in Int
  BY <1>1 DEF Queries
<1>6. net.links \subseteq Links BY <1>1, <1>5, LoadedLinkFacts
<1>q. QED BY <1>1, <1>2, <1>3, <1>4, <1>5, <1>6, ConstantsAssumption DEF d

(***************************************************************************)
(* The labels the scan makes.                                              *)
(***************************************************************************)

\* The label a source starts with.
LEMMA SeedLabelFacts ==
  ASSUME QueryInv, NEW e \in net.sources
  PROVE  LET l == SeedLabel(net, e)
         IN  /\ l \in LabelSet /\ l.stop = e.stop /\ l.arrival = net.start + e.walk /\ l.ctx = NoContext
             /\ l.arrival >= net.start
             /\ l.legs = IF e.walk = 0 THEN <<>>
                         ELSE <<Leg("access", Any, e.stop, e.stop, net.start, net.start + e.walk, FALSE)>>
             /\ Leg("access", Any, e.stop, e.stop, net.start, net.start + e.walk, FALSE) \in Legs
<1> DEFINE g == Leg("access", Any, e.stop, e.stop, net.start, net.start + e.walk, FALSE)
           x == IF e.walk = 0 THEN <<>> ELSE <<g>>
<1>1. e \in Endpoints /\ net.start \in Int BY NetFacts
<1>2. e.stop \in Stops /\ e.walk \in Nat BY <1>1 DEF Endpoints
<1>3. net.start + e.walk \in Int /\ net.start + e.walk >= net.start BY <1>1, <1>2
<1>4. g \in Legs BY <1>1, <1>2, <1>3 DEF Leg, Legs
<1>5. x \in Seq(Legs)
  <2> HIDE DEF g
  <2>q. QED BY <1>4
<1>6. NoContext \in Contexts BY DEF NoContext, Contexts
<1>7. SeedLabel(net, e) = [stop |-> e.stop, arrival |-> net.start + e.walk, alight |-> 0,
                           ctx |-> NoContext, legs |-> x]
  BY DEF SeedLabel
<1> HIDE DEF g, x
<1>8. SeedLabel(net, e) \in LabelSet BY <1>2, <1>3, <1>5, <1>6, <1>7 DEF LabelSet
<1>9. SeedLabel(net, e).stop = e.stop /\ SeedLabel(net, e).arrival = net.start + e.walk
      /\ SeedLabel(net, e).ctx = NoContext /\ SeedLabel(net, e).legs = x
  BY <1>7
<1>q. QED BY <1>3, <1>4, <1>8, <1>9 DEF g, x

\* The label a walk leads to.
LEMMA WalkedLabelFacts ==
  ASSUME NEW l \in LabelSet, NEW e \in Edges
  PROVE  LET w == WalkedLabel(l, e)
             g == Leg("walk", Any, l.stop, e.to, l.arrival, l.arrival + e.secs, FALSE)
         IN  /\ w \in LabelSet /\ w.stop = e.to /\ w.arrival = l.arrival + e.secs
             /\ w.alight = l.alight /\ w.ctx = l.ctx /\ w.legs = Append(l.legs, g) /\ g \in Legs
<1> DEFINE g == Leg("walk", Any, l.stop, e.to, l.arrival, l.arrival + e.secs, FALSE)
           w == WalkedLabel(l, e)
<1>1. /\ l.stop \in Stops /\ l.arrival \in Int /\ l.alight \in Int /\ l.ctx \in Contexts
      /\ l.legs \in Seq(Legs) /\ e.to \in Stops /\ e.secs \in Nat
  BY DEF LabelSet, Edges
<1>2. l.arrival + e.secs \in Int BY <1>1
<1>3. g \in Legs BY <1>1, <1>2 DEF Leg, Legs
<1>4. w = [l EXCEPT !.stop = e.to, !.arrival = l.arrival + e.secs, !.legs = Append(l.legs, g)]
  BY DEF WalkedLabel
<1>5. Append(l.legs, g) \in Seq(Legs)
  <2> HIDE DEF g
  <2>q. QED BY <1>1, <1>3
<1> HIDE DEF g, w
<1>6. w \in LabelSet BY <1>1, <1>2, <1>4, <1>5 DEF LabelSet
<1>7. w.stop = e.to /\ w.arrival = l.arrival + e.secs /\ w.alight = l.alight /\ w.ctx = l.ctx
      /\ w.legs = Append(l.legs, g)
  BY <1>4 DEF LabelSet
<1>q. QED BY <1>3, <1>6, <1>7 DEF g, w

\* The label a rider gets who leaves where the trip has taken them.
LEMMA TransitLabelFacts ==
  ASSUME QueryInv, NEW s \in States, s.board \in 1 .. Len(net.conns), s.last \in 1 .. Len(net.conns)
  PROVE  LET l == TransitLabel(s)
             b == net.conns[s.board]
             x == net.conns[s.last]
         IN  /\ l \in LabelSet /\ l.stop = x.to /\ l.arrival = x.arrTime /\ l.alight = x.arrTime
             /\ l.ctx = (IF net.rules = <<>> THEN NoContext ELSE [trip |-> x.trip, fromStop |-> x.to])
             /\ l.legs = Append(s.legs, RideLeg(s)) /\ RideLeg(s) \in Legs
             /\ RideLeg(s).kind = "ride" /\ RideLeg(s).trip = b.trip /\ RideLeg(s).from = b.from
             /\ RideLeg(s).to = x.to /\ RideLeg(s).dep = b.depTime /\ RideLeg(s).arr = x.arrTime
             /\ RideLeg(s).stay = s.stay
<1> DEFINE l == TransitLabel(s)
           b == net.conns[s.board]
           x == net.conns[s.last]
           c == IF net.rules = <<>> THEN NoContext ELSE [trip |-> x.trip, fromStop |-> x.to]
<1>1. /\ b.trip \in Trips /\ b.from \in Stops /\ b.depTime \in Int
      /\ x.trip \in Trips /\ x.to \in Stops /\ x.arrTime \in Int
  BY NetFacts
<1>2. s.legs \in Seq(Legs) /\ s.stay \in BOOLEAN BY DEF States
<1>3. RideLeg(s) = [kind |-> "ride", trip |-> b.trip, from |-> b.from, to |-> x.to,
                    dep |-> b.depTime, arr |-> x.arrTime, stay |-> s.stay]
  BY DEF RideLeg, Leg
<1> HIDE DEF b, x
<1>4. RideLeg(s) \in Legs BY <1>1, <1>2, <1>3 DEF Legs
<1>5. c \in Contexts BY <1>1 DEF Contexts, NoContext
<1>6. l = [stop |-> x.to, arrival |-> x.arrTime, alight |-> x.arrTime, ctx |-> c,
           legs |-> Append(s.legs, RideLeg(s))]
  BY DEF TransitLabel, x
<1>7. Append(s.legs, RideLeg(s)) \in Seq(Legs) BY <1>2, <1>4
<1> HIDE DEF c, l
<1>8. l \in LabelSet BY <1>1, <1>5, <1>6, <1>7 DEF LabelSet
<1>9. /\ l.stop = x.to /\ l.arrival = x.arrTime /\ l.alight = x.arrTime /\ l.ctx = c
      /\ l.legs = Append(s.legs, RideLeg(s))
  BY <1>6
<1>10. /\ RideLeg(s).kind = "ride" /\ RideLeg(s).trip = b.trip /\ RideLeg(s).from = b.from
       /\ RideLeg(s).to = x.to /\ RideLeg(s).dep = b.depTime /\ RideLeg(s).arr = x.arrTime
       /\ RideLeg(s).stay = s.stay
  BY <1>3
<1>q. QED BY <1>4, <1>8, <1>9, <1>10 DEF b, x, c, l

\* Of the labels that are added one may lead to the best target.
LEMMA AddLabelsFacts ==
  ASSUME QueryInv, NEW new, new \subseteq LabelSet, NEW rest, AddLabels(new, rest)
  PROVE  /\ labels' = {k \in labels : ~\E l \in new : SameSlot(k, l)} \cup new
         /\ queue' = rest \cup new
         /\ \/ target' = target
            \/ /\ target' \in TargetSet(net) /\ target'.label \in new
               /\ target'.label.stop = target'.egress.stop
               /\ target'.total = target'.label.arrival + target'.egress.walk
<1> DEFINE ends == {[total |-> l.arrival + e.walk, label |-> l, egress |-> e] :
                      l \in new, e \in {t \in net.targets : \E l \in new : t.stop = l.stop}}
           better == {t \in ends : t.label.stop = t.egress.stop /\ t.total < target.total}
           earliest == {t \in better : \A u \in better : t.total <= u.total}
<1>1. labels' = {k \in labels : ~\E l \in new : SameSlot(k, l)} \cup new /\ queue' = rest \cup new
      /\ target' \in IF better = {} THEN {target} ELSE earliest
  BY DEF AddLabels
<1>2. ASSUME NEW t \in better
      PROVE  /\ t \in TargetSet(net) /\ t.label \in new /\ t.label.stop = t.egress.stop
             /\ t.total = t.label.arrival + t.egress.walk
  <2>1. PICK l \in new, e \in net.targets : t = [total |-> l.arrival + e.walk, label |-> l, egress |-> e]
    OBVIOUS
  <2>2. t.total = l.arrival + e.walk /\ t.label = l /\ t.egress = e BY <2>1
  <2>3. l.arrival \in Int /\ e.walk \in Nat BY NetFacts DEF LabelSet, Endpoints
  <2>4. l.arrival + e.walk \in Int BY <2>3
  <2>5. t.label.stop = t.egress.stop OBVIOUS
  <2> HIDE DEF better
  <2>q. QED BY <2>1, <2>2, <2>4, <2>5 DEF TargetSet
<1> HIDE DEF better
<1>3. CASE better = {} BY <1>1, <1>3
<1>4. CASE better # {} BY <1>1, <1>2, <1>4
<1>q. QED BY <1>1, <1>3, <1>4

(***************************************************************************)
(* Types, and the groups.                                                  *)
(***************************************************************************)

\* Not being on a trip is one of the states of a trip.
LEMMA NotBoardedIsState == NotBoarded \in States
<1>1. <<>> \in Seq(Legs) OBVIOUS
<1>q. QED BY <1>1 DEF NotBoarded, States

\* What departs before the query starts comes first.
LEMMA TooEarlyFacts ==
  ASSUME QueryInv
  PROVE  LET n == Len(net.conns)
             S == {i \in DOMAIN net.conns : net.conns[i].depTime < net.start}
         IN  Cardinality(S) \in 0 .. n /\ S = 1 .. Cardinality(S)
<1> DEFINE n == Len(net.conns)
           S == {i \in DOMAIN net.conns : net.conns[i].depTime < net.start}
<1>1. /\ n \in Nat /\ DOMAIN net.conns = 1 .. n /\ net.start \in Int
      /\ \A k \in 1 .. n : net.conns[k].depTime \in Int
      /\ \A k, l \in 1 .. n : k <= l => net.conns[k].depTime <= net.conns[l].depTime
  BY NetFacts
<1>2. S \subseteq 1 .. n BY <1>1
<1>3. ASSUME NEW i \in S, NEW j \in 1 .. i PROVE j \in S
  <2>1. i \in 1 .. n /\ j \in 1 .. n /\ net.conns[i].depTime < net.start BY <1>1
  <2>2. net.conns[j].depTime <= net.conns[i].depTime BY <1>1, <2>1
  <2>3. net.conns[j].depTime < net.start BY <1>1, <2>1, <2>2
  <2>q. QED BY <1>1, <2>1, <2>3
<1> HIDE DEF S, n
<1>4. Cardinality(S) \in 0 .. n /\ S = 1 .. Cardinality(S) BY <1>1, <1>2, <1>3, InitialSegment
<1>q. QED BY <1>4 DEF S, n

\* The scan starts with its types right and no group.
LEMMA TypeInit ==
  ASSUME Init
  PROVE  TypeInv /\ GroupInv
<1> DEFINE n == Len(net.conns)
           S == {i \in DOMAIN net.conns : net.conns[i].depTime < net.start}
<1>1. QueryInv BY DEF Init, QueryInv
<1>2. /\ n \in Nat /\ DOMAIN net.conns = 1 .. n /\ net.start \in Int
      /\ \A k \in 1 .. n : net.conns[k].depTime \in Int
      /\ \A k, l \in 1 .. n : k <= l => net.conns[k].depTime <= net.conns[l].depTime
  BY <1>1, NetFacts
<1>3. Cardinality(S) \in 0 .. n /\ S = 1 .. Cardinality(S) BY <1>1, TooEarlyFacts
<1>4. next = Cardinality(S) + 1 BY DEF Init, FirstAfter
<1>5. LabelsInv
  <2>1. labels = {SeedLabel(net, e) : e \in {s \in net.sources : \A o \in net.sources :
                                               o.stop = s.stop => s.walk <= o.walk}}
        /\ queue = labels
    BY DEF Init
  <2>2. \A l \in labels : l \in LabelSet /\ l.arrival >= net.start BY <1>1, <2>1, SeedLabelFacts
  <2>3. ASSUME NEW l \in labels, NEW k \in labels, SameSlot(l, k) PROVE l = k
    <3>1. PICK e \in net.sources : /\ l = SeedLabel(net, e)
                                   /\ \A o \in net.sources : o.stop = e.stop => e.walk <= o.walk
      BY <2>1
    <3>2. PICK f \in net.sources : /\ k = SeedLabel(net, f)
                                   /\ \A o \in net.sources : o.stop = f.stop => f.walk <= o.walk
      BY <2>1
    <3>3. l.stop = e.stop /\ k.stop = f.stop BY <1>1, <3>1, <3>2, SeedLabelFacts
    <3>4. e.stop = f.stop BY <3>3, <2>3 DEF SameSlot
    <3>5. e \in Endpoints /\ f \in Endpoints BY <1>1, NetFacts
    <3>6. e.walk \in Nat /\ f.walk \in Nat /\ e = [stop |-> e.stop, walk |-> e.walk]
          /\ f = [stop |-> f.stop, walk |-> f.walk]
      BY <3>5 DEF Endpoints
    <3>7. e.walk = f.walk BY <3>1, <3>2, <3>4, <3>6
    <3>q. QED BY <3>1, <3>2, <3>4, <3>6, <3>7
  <2>q. QED BY <2>1, <2>2, <2>3 DEF LabelsInv
<1>6. BoardInv
  <2>1. onboard = [t \in Trips |-> NotBoarded] BY DEF Init
  <2>q. QED BY <2>1, NotBoardedIsState DEF BoardInv, OnTrip
<1>7. PassInv /\ GroupInv
  <2>1. group = {} /\ todo = {} /\ retry = {} /\ progressed = FALSE BY DEF Init
  <2>2. next \in 1 .. n + 1
    <3> HIDE DEF S, n
    <3>q. QED BY <1>2, <1>3, <1>4
  <2>3. ASSUME NEW k \in next .. n
        PROVE  /\ net.conns[k].depTime >= net.start
               /\ \A j \in 1 .. next - 1 : net.conns[j].depTime < net.conns[k].depTime
    <3> DEFINE m == Cardinality(S)
    <3>1. m \in 0 .. n /\ S = 1 .. m /\ next = m + 1 BY <1>3, <1>4
    <3> HIDE DEF m
    <3>2. k \in 1 .. n /\ k \notin 1 .. m BY <1>2, <2>2, <3>1
    <3>3. ~(net.conns[k].depTime < net.start) BY <1>2, <3>1, <3>2
    <3>4. ASSUME NEW j \in 1 .. next - 1 PROVE net.conns[j].depTime < net.conns[k].depTime
      <4>1. j \in 1 .. m BY <3>1
      <4>2. j \in S BY <3>1, <4>1
      <4>3. net.conns[j].depTime < net.start /\ j \in 1 .. n BY <4>2, <1>2
      <4>q. QED BY <1>2, <3>2, <3>3, <4>3
    <3>q. QED BY <1>2, <3>2, <3>3, <3>4
  <2>q. QED BY <2>1, <2>2, <2>3 DEF PassInv, GroupInv
<1>8. TargetInv
  <2> DEFINE ends == {[total |-> l.arrival + e.walk, label |-> l, egress |-> e] :
                        l \in labels, e \in net.targets}
             here == {t \in ends : t.label.stop = t.egress.stop /\ t.total < Infinity}
  <2>1. target \in IF here = {} THEN {NoTarget} ELSE {t \in here : \A u \in here : t.total <= u.total}
    BY DEF Init
  <2>2. NoTarget.total = Infinity BY DEF NoTarget
  <2>3. CASE here = {}
    <3>1. target = NoTarget BY <2>1, <2>3
    <3>2. ~Found BY <2>2, <3>1, ConstantsAssumption DEF Found
    <3>q. QED BY <3>2 DEF TargetInv
  <2>4. CASE here # {}
    <3>1. target \in here BY <2>1, <2>4
    <3>2. PICK l \in labels, e \in net.targets :
            target = [total |-> l.arrival + e.walk, label |-> l, egress |-> e]
      BY <3>1
    <3>3. target.label.stop = target.egress.stop BY <3>1
    <3>4. l \in LabelSet /\ e \in Endpoints /\ l.arrival >= net.start
      BY <1>1, <1>5, NetFacts DEF LabelsInv
    <3>5. l.arrival + e.walk \in Int
      <4>1. l.arrival \in Int /\ e.walk \in Nat BY <3>4 DEF LabelSet, Endpoints
      <4>q. QED BY <4>1
    <3>q. QED BY <3>2, <3>3, <3>4, <3>5 DEF TargetInv, TargetSet
  <2>q. QED BY <2>3, <2>4
<1>9. OutcomeInv BY DEF Init, OutcomeInv
<1>q. QED BY <1>1, <1>5, <1>6, <1>7, <1>8, <1>9 DEF TypeInv

\* The group that comes next is an interval.
LEMMA NextGroupFacts ==
  ASSUME QueryInv, PassInv, GroupInv, NextGroup
  PROVE  /\ next \in 1 .. Len(net.conns) /\ next' \in next + 1 .. Len(net.conns) + 1
         /\ group' = next .. next' - 1
         /\ \A i \in 1 .. Len(net.conns) : i \in group' <=> net.conns[i].depTime = net.conns[next].depTime
         /\ todo' = group' /\ retry' = {} /\ progressed' = FALSE /\ UNCHANGED <<tt, net, scanVars, outcome>>
<1> DEFINE n == Len(net.conns)
           at == net.conns[next].depTime
           S == {i \in DOMAIN net.conns : net.conns[i].depTime <= at}
           m == Cardinality(S)
<1>1. /\ n \in Nat /\ DOMAIN net.conns = 1 .. n
      /\ \A k \in 1 .. n : net.conns[k].depTime \in Int
      /\ \A k, l \in 1 .. n : k <= l => net.conns[k].depTime <= net.conns[l].depTime
  BY NetFacts
<1>2. next \in 1 .. n
  <2>1. next <= n BY DEF NextGroup, Exhausted
  <2>2. next \in 1 .. n + 1 BY DEF PassInv
  <2> HIDE DEF n
  <2>q. QED BY <1>1, <2>1, <2>2
<1>3. m \in 0 .. n /\ S = 1 .. m
  <2>1. S \subseteq 1 .. n BY <1>1
  <2>2. ASSUME NEW i \in S, NEW j \in 1 .. i PROVE j \in S
    <3>1. i \in 1 .. n /\ j \in 1 .. n /\ net.conns[i].depTime <= at BY <1>1
    <3>2. net.conns[j].depTime <= net.conns[i].depTime BY <1>1, <3>1
    <3>3. net.conns[j].depTime <= at BY <1>1, <1>2, <3>1, <3>2
    <3>q. QED BY <1>1, <3>1, <3>3
  <2> HIDE DEF S, n
  <2>q. QED BY <1>1, <2>1, <2>2, InitialSegment
<1>4. group' = {i \in DOMAIN net.conns : net.conns[i].depTime = at}
  BY <1>1, <1>2 DEF NextGroup, GroupFrom
<1>5. \A j \in 1 .. next - 1 : net.conns[j].depTime < at
  <2>1. next \in next .. n BY <1>1, <1>2
  <2>q. QED BY <2>1 DEF GroupInv
<1>6. next <= m
  <2>1. next \in S BY <1>1, <1>2
  <2> HIDE DEF S, m
  <2>q. QED BY <1>2, <1>3, <2>1
<1> HIDE DEF m
<1>7. group' = next .. m
  <2>1. ASSUME NEW i \in group' PROVE i \in next .. m
    <3>1. i \in 1 .. n /\ net.conns[i].depTime = at BY <1>1, <1>4
    <3>2. i \in 1 .. m BY <1>1, <1>3, <3>1
    <3>3. i \notin 1 .. next - 1 BY <1>1, <1>5, <3>1
    <3>q. QED BY <1>2, <3>1, <3>2, <3>3
  <2>2. ASSUME NEW i \in next .. m PROVE i \in group'
    <3>1. i \in 1 .. n /\ i \in 1 .. m /\ next <= i BY <1>1, <1>2, <1>3
    <3>2. net.conns[i].depTime <= at BY <1>3, <3>1
    <3>3. at <= net.conns[i].depTime BY <1>1, <1>2, <3>1
    <3>q. QED BY <1>1, <1>2, <1>4, <3>1, <3>2, <3>3
  <2>q. QED BY <2>1, <2>2
<1>8. next' = m + 1
  <2>1. next \in Int /\ m \in Int BY <1>2, <1>3
  <2>2. Cardinality(next .. m) = IF next > m THEN 0 ELSE m - next + 1 BY <2>1, FS_Interval
  <2>3. next' = next + Cardinality(group') BY DEF NextGroup
  <2>q. QED BY <1>6, <1>7, <2>1, <2>2, <2>3
<1>9. todo' = group' /\ retry' = {} /\ progressed' = FALSE /\ UNCHANGED <<tt, net, scanVars, outcome>>
  BY DEF NextGroup
<1>10. \A i \in 1 .. n : i \in group' <=> net.conns[i].depTime = at BY <1>1, <1>4
<1>11. next' \in next + 1 .. n + 1 /\ group' = next .. next' - 1
  <2> HIDE DEF n
  <2>q. QED BY <1>1, <1>2, <1>3, <1>6, <1>7, <1>8
<1>q. QED BY <1>2, <1>9, <1>10, <1>11

\* How a group that is an interval extends what has been visited.
LEMMA IntervalFacts ==
  ASSUME NEW n \in Int, NEW a \in Int, NEW b \in Int, 1 <= a, a <= n, a < b, b <= n + 1,
         NEW g, g = a .. b - 1
  PROVE  /\ g \subseteq 1 .. n /\ g \subseteq 1 .. b - 1 /\ b \in 1 .. n + 1
         /\ 1 .. a - 1 \subseteq 1 .. b - 1
         /\ \A i \in g : \A k \in i .. b - 1 : k \in g
         /\ \A k \in b .. n : k \in a .. n /\ k \in 1 .. n /\ k \notin g
         /\ \A j \in 1 .. b - 1 : j \in 1 .. a - 1 \/ j \in g
OBVIOUS

\* Taking up the next group keeps the types, and the groups in turn.
LEMMA NextGroupType ==
  ASSUME TypeInv, GroupInv, NextGroup
  PROVE  TypeInv' /\ GroupInv'
<1> DEFINE n == Len(net.conns)
<1>0. QueryInv /\ PassInv BY DEF TypeInv
<1>1. /\ n \in Nat /\ DOMAIN net.conns = 1 .. n
      /\ \A k \in 1 .. n : net.conns[k].depTime \in Int
      /\ \A k, l \in 1 .. n : k <= l => net.conns[k].depTime <= net.conns[l].depTime
      /\ net.start \in Int
  BY <1>0, NetFacts
<1>2. /\ next \in 1 .. n /\ next' \in next + 1 .. n + 1
      /\ group' = next .. next' - 1
      /\ \A i \in 1 .. n : i \in group' <=> net.conns[i].depTime = net.conns[next].depTime
      /\ todo' = group' /\ retry' = {} /\ progressed' = FALSE /\ UNCHANGED <<tt, net, scanVars, outcome>>
  BY <1>0, NextGroupFacts
<1>a. /\ group' \subseteq 1 .. n /\ group' \subseteq 1 .. next' - 1 /\ next' \in 1 .. n + 1
      /\ 1 .. next - 1 \subseteq 1 .. next' - 1
      /\ \A i \in group' : \A k \in i .. next' - 1 : k \in group'
      /\ \A k \in next' .. n : k \in next .. n /\ k \in 1 .. n /\ k \notin group'
      /\ \A j \in 1 .. next' - 1 : j \in 1 .. next - 1 \/ j \in group'
  <2> DEFINE a == next
             b == next'
             g == group'
  <2>1. n \in Int /\ a \in Int /\ b \in Int /\ 1 <= a /\ a <= n /\ a < b /\ b <= n + 1 /\ g = a .. b - 1
    <3> HIDE DEF n
    <3>q. QED BY <1>1, <1>2
  <2> HIDE DEF n, a, b, g
  <2>2. /\ g \subseteq 1 .. n /\ g \subseteq 1 .. b - 1 /\ b \in 1 .. n + 1
        /\ 1 .. a - 1 \subseteq 1 .. b - 1
        /\ \A i \in g : \A k \in i .. b - 1 : k \in g
        /\ \A k \in b .. n : k \in a .. n /\ k \in 1 .. n /\ k \notin g
        /\ \A j \in 1 .. b - 1 : j \in 1 .. a - 1 \/ j \in g
    BY <2>1, IntervalFacts
  <2>q. QED BY <2>2 DEF a, b, g
<1>3. PassInv'
  <2>1. net' = net BY <1>2
  <2>q. QED BY <1>2, <1>a, <2>1 DEF PassInv
<1>4. BoardInv'
  <2>1. BoardInv /\ onboard' = onboard /\ net' = net /\ 1 .. next - 1 \subseteq 1 .. next' - 1
    <3>1. BoardInv /\ onboard' = onboard /\ net' = net BY <1>2 DEF TypeInv, scanVars
    <3>q. QED BY <3>1, <1>a
  <2>q. QED BY <2>1 DEF BoardInv, OnTrip
<1>5. QueryInv' /\ LabelsInv' /\ TargetInv' /\ OutcomeInv'
  BY <1>2 DEF TypeInv, QueryInv, LabelsInv, TargetInv, OutcomeInv, scanVars, SameSlot, Found
<1>6. GroupInv'
  <2>1. net' = net BY <1>2
  <2>2. \A i \in group' : \A k \in i .. next' - 1 : k \in group' BY <1>a
  <2>3. group' \subseteq 1 .. n BY <1>a
  <2>4. \A i \in group' : net.conns[i].depTime >= net.start
    <3>1. net.conns[next].depTime >= net.start BY <1>1, <1>2 DEF GroupInv
    <3>q. QED BY <3>1, <1>1, <1>2, <2>3
  <2>5. \A i, j \in group' : net.conns[i].depTime = net.conns[j].depTime BY <1>2, <2>3
  <2>6. ASSUME NEW k \in next' .. n
        PROVE  /\ net.conns[k].depTime >= net.start
               /\ \A j \in 1 .. next' - 1 : net.conns[j].depTime < net.conns[k].depTime
    <3>1. k \in next .. n /\ k \in 1 .. n /\ k \notin group' BY <1>a
    <3>2. net.conns[k].depTime >= net.start
          /\ \A j \in 1 .. next - 1 : net.conns[j].depTime < net.conns[k].depTime
      BY <3>1 DEF GroupInv
    <3>3. net.conns[next].depTime < net.conns[k].depTime
      <4>1. net.conns[next].depTime <= net.conns[k].depTime BY <1>1, <1>2, <3>1
      <4>2. net.conns[next].depTime # net.conns[k].depTime BY <1>2, <3>1
      <4>q. QED BY <1>1, <1>2, <3>1, <4>1, <4>2
    <3>4. ASSUME NEW j \in 1 .. next' - 1 PROVE net.conns[j].depTime < net.conns[k].depTime
      <4>1. CASE j \in 1 .. next - 1 BY <4>1, <3>2
      <4>2. CASE j \notin 1 .. next - 1
        <5>1. j \in group' /\ j \in 1 .. n BY <4>2, <1>a
        <5>q. QED BY <5>1, <1>2, <3>3
      <4>q. QED BY <4>1, <4>2
    <3>q. QED BY <3>2, <3>4
  <2>q. QED BY <2>1, <2>2, <2>4, <2>5, <2>6 DEF GroupInv
<1>q. QED BY <1>3, <1>4, <1>5, <1>6 DEF TypeInv

\* Adding labels leaves one of a slot, and a target that one of them reaches.
LEMMA AddLabelsType ==
  ASSUME QueryInv, LabelsInv, TargetInv, UNCHANGED net,
         NEW new, new \subseteq LabelSet, \A l \in new : l.arrival >= net.start,
         \A l, k \in new : SameSlot(l, k) => l = k,
         NEW rest, rest \subseteq queue, AddLabels(new, rest)
  PROVE  LabelsInv' /\ TargetInv'
<1>1. /\ labels' = {k \in labels : ~\E l \in new : SameSlot(k, l)} \cup new
      /\ queue' = rest \cup new
      /\ \/ target' = target
         \/ /\ target' \in TargetSet(net) /\ target'.label \in new
            /\ target'.label.stop = target'.egress.stop
            /\ target'.total = target'.label.arrival + target'.egress.walk
  BY AddLabelsFacts
<1>2. \A l, k \in labels' : SameSlot(l, k) => l = k
  <2>1. SUFFICES ASSUME NEW l \in labels', NEW k \in labels', SameSlot(l, k) PROVE l = k
    OBVIOUS
  <2>2. SameSlot(k, l) BY <2>1 DEF SameSlot
  <2>q. QED BY <1>1, <2>1, <2>2 DEF LabelsInv
<1>3. LabelsInv' BY <1>1, <1>2 DEF LabelsInv, SameSlot
<1>4. TargetInv' BY <1>1 DEF TargetInv, Found, TargetSet
<1>q. QED BY <1>3, <1>4

\* Riding on, staying on board and boarding are all one step.
LEMMA RideType ==
  ASSUME TypeInv, GroupInv, queue = {}, outcome = "running",
         NEW i \in todo, NEW s \in States, s.board \in 1 .. next - 1,
         net.conns[s.board].trip = net.conns[i].trip, Ride(i, s)
  PROVE  TypeInv' /\ GroupInv'
<1> DEFINE n == Len(net.conns)
           c == net.conns[i]
           riding == [s EXCEPT !.last = i]
<1>0. QueryInv /\ PassInv /\ BoardInv /\ LabelsInv /\ TargetInv /\ OutcomeInv BY DEF TypeInv
<1>1. /\ n \in Nat /\ DOMAIN net.conns = 1 .. n /\ next \in 1 .. n + 1
      /\ i \in group /\ i \in 1 .. next - 1 /\ i \in 1 .. n /\ s.board \in 1 .. n
      /\ c.trip \in Trips /\ c.depTime \in Int /\ c.arrTime \in Int /\ c.depTime <= c.arrTime
      /\ net.start \in Int
  BY SMTT(30), <1>0, NetFacts DEF PassInv
<1>2. /\ onboard' = [onboard EXCEPT ![c.trip] = riding]
      /\ Visit(i, TRUE) /\ UNCHANGED <<tt, net, outcome>>
      /\ IF Allowed(tt, c.dropOff) /\ Improves(TransitLabel(riding))
         THEN AddLabels({TransitLabel(riding)}, {}) ELSE UNCHANGED <<labels, queue, target>>
  BY DEF Ride
<1>3. riding \in States /\ riding.board = s.board /\ riding.last = i
  <2>1. i \in Nat BY <1>1
  <2>q. QED BY <2>1 DEF States
<1>4. todo' = todo \ {i} /\ retry' = retry /\ progressed' = TRUE /\ next' = next /\ group' = group
  BY <1>2, <1>0 DEF Visit, PassInv
<1>5. QueryInv' /\ PassInv' /\ GroupInv' BY <1>0, <1>2, <1>4 DEF QueryInv, PassInv, GroupInv
<1>6. BoardInv'
  <2>1. onboard' \in [Trips -> States] BY <1>0, <1>1, <1>2, <1>3 DEF BoardInv
  <2>2. ASSUME NEW t \in Trips, onboard'[t] # NotBoarded
        PROVE  /\ onboard'[t].board \in 1 .. next' - 1 /\ onboard'[t].last \in 1 .. next' - 1
               /\ net'.conns[onboard'[t].board].trip = t /\ net'.conns[onboard'[t].last].trip = t
    <3>1. CASE t = c.trip
      <4>1. onboard'[t] = riding BY <1>0, <1>1, <1>2, <3>1 DEF BoardInv
      <4> HIDE DEF riding
      <4>q. QED BY <1>1, <1>2, <1>3, <1>4, <3>1, <4>1
    <3>2. CASE t # c.trip
      <4>1. onboard'[t] = onboard[t] BY <1>0, <1>2, <3>2 DEF BoardInv
      <4>q. QED BY <1>0, <1>2, <1>4, <2>2, <4>1 DEF BoardInv, OnTrip
    <3>q. QED BY <3>1, <3>2
  <2>q. QED BY <2>1, <2>2 DEF BoardInv, OnTrip
<1>7. TransitLabel(riding) \in LabelSet /\ TransitLabel(riding).arrival >= net.start
  <2>1. /\ TransitLabel(riding) \in LabelSet
        /\ TransitLabel(riding).arrival = net.conns[riding.last].arrTime
    <3> HIDE DEF riding
    <3>q. QED BY <1>0, <1>1, <1>3, TransitLabelFacts
  <2>2. c.depTime >= net.start BY <1>1 DEF GroupInv
  <2>q. QED BY <1>1, <1>3, <2>1, <2>2
<1>8. LabelsInv' /\ TargetInv'
  <2>1. CASE Allowed(tt, c.dropOff) /\ Improves(TransitLabel(riding))
    <3> DEFINE new == {TransitLabel(riding)}
    <3>1. AddLabels(new, {}) BY <1>2, <2>1
    <3>2. new \subseteq LabelSet /\ (\A l \in new : l.arrival >= net.start)
          /\ (\A l, k \in new : SameSlot(l, k) => l = k)
      BY <1>7
    <3> HIDE DEF new
    <3>q. QED BY <1>0, <1>2, <3>1, <3>2, AddLabelsType
  <2>2. CASE ~(Allowed(tt, c.dropOff) /\ Improves(TransitLabel(riding)))
    <3>1. UNCHANGED <<labels, queue, target, net>> BY <1>2, <2>2
    <3>q. QED BY <1>0, <3>1 DEF LabelsInv, TargetInv, Found, SameSlot, TargetSet
  <2>q. QED BY <2>1, <2>2
<1>9. OutcomeInv' BY <1>2 DEF OutcomeInv
<1>q. QED BY <1>5, <1>6, <1>8, <1>9 DEF TypeInv

\* Walking on from a queued label keeps the types.
LEMMA RelaxWalkType ==
  ASSUME TypeInv, GroupInv, RelaxWalk
  PROVE  TypeInv' /\ GroupInv'
<1>0. QueryInv /\ PassInv /\ BoardInv /\ LabelsInv /\ TargetInv /\ OutcomeInv BY DEF TypeInv
<1>1. UNCHANGED <<tt, net, onboard, passVars, outcome>> /\ outcome = "running" BY DEF RelaxWalk
<1>2. PICK l \in queue :
        LET reached == IF l \notin labels THEN {}
                       ELSE {WalkedLabel(l, e) : e \in {w \in net.walk : w.from = l.stop}}
            best == {x \in reached : \A y \in reached : x.stop = y.stop => x.arrival <= y.arrival}
        IN  AddLabels({x \in best : Improves(x)}, queue \ {l})
  BY DEF RelaxWalk
<1> DEFINE reached == IF l \notin labels THEN {}
                      ELSE {WalkedLabel(l, e) : e \in {w \in net.walk : w.from = l.stop}}
           best == {x \in reached : \A y \in reached : x.stop = y.stop => x.arrival <= y.arrival}
           new == {x \in best : Improves(x)}
<1>3. AddLabels(new, queue \ {l}) BY <1>2
<1>4. l \in LabelSet /\ l.arrival >= net.start /\ l.arrival \in Int /\ net.start \in Int /\ net.walk \subseteq Edges
  BY <1>0, NetFacts DEF LabelsInv, LabelSet
<1>5. \A x \in new : \E e \in net.walk : e.from = l.stop /\ x = WalkedLabel(l, e) OBVIOUS
<1>6. ASSUME NEW x \in new PROVE x \in LabelSet /\ x.arrival >= net.start
  <2>1. PICK e \in net.walk : x = WalkedLabel(l, e) BY <1>5
  <2>2. x \in LabelSet /\ x.arrival = l.arrival + e.secs BY <1>4, <2>1, WalkedLabelFacts
  <2>3. e.secs \in Nat BY <1>4 DEF Edges
  <2>q. QED BY <1>4, <2>2, <2>3
<1>7. ASSUME NEW x \in new, NEW y \in new, SameSlot(x, y) PROVE x = y
  <2>1. PICK e \in net.walk : e.from = l.stop /\ x = WalkedLabel(l, e) BY <1>5
  <2>2. PICK f \in net.walk : f.from = l.stop /\ y = WalkedLabel(l, f) BY <1>5
  <2>3. x.stop = e.to /\ y.stop = f.to /\ x.arrival = l.arrival + e.secs /\ y.arrival = l.arrival + f.secs
    BY <1>4, <2>1, <2>2, WalkedLabelFacts
  <2>4. e.to = f.to BY <1>7, <2>3 DEF SameSlot
  <2>5. x \in reached /\ y \in reached /\ x \in best /\ y \in best OBVIOUS
  <2>6. x.stop = y.stop BY <1>7 DEF SameSlot
  <2>7. x.arrival <= y.arrival /\ y.arrival <= x.arrival BY <2>5, <2>6
  <2> HIDE DEF best, reached, new
  <2>8. e \in Edges /\ f \in Edges BY <1>4
  <2>9. e.secs \in Nat /\ f.secs \in Nat /\ e = [from |-> e.from, to |-> e.to, secs |-> e.secs]
        /\ f = [from |-> f.from, to |-> f.to, secs |-> f.secs]
    BY <2>8 DEF Edges
  <2>10. e.secs = f.secs BY <1>4, <2>3, <2>7, <2>9
  <2>11. e = f BY <2>1, <2>2, <2>4, <2>9, <2>10
  <2>q. QED BY <2>1, <2>2, <2>11
<1> HIDE DEF new
<1>8. LabelsInv' /\ TargetInv'
  <2>1. queue \ {l} \subseteq queue OBVIOUS
  <2>2. new \subseteq LabelSet /\ (\A x \in new : x.arrival >= net.start)
        /\ (\A x, y \in new : SameSlot(x, y) => x = y)
    BY <1>6, <1>7
  <2>q. QED BY <1>0, <1>1, <1>3, <2>1, <2>2, AddLabelsType
<1>9. QueryInv' /\ PassInv' /\ BoardInv' /\ GroupInv' /\ OutcomeInv'
  BY <1>0, <1>1 DEF QueryInv, PassInv, BoardInv, GroupInv, OutcomeInv, passVars, OnTrip
<1>q. QED BY <1>8, <1>9 DEF TypeInv

\* The connection being visited is the first of those still to be visited.
LEMMA VisitedFacts ==
  ASSUME TypeInv, Scanning
  PROVE  /\ MinOf(todo) \in todo /\ \A k \in todo : MinOf(todo) <= k
         /\ MinOf(todo) \in group /\ MinOf(todo) \in 1 .. next - 1 /\ MinOf(todo) \in 1 .. Len(net.conns)
         /\ queue = {} /\ outcome = "running"
<1>1. /\ Len(net.conns) \in Nat /\ next \in 1 .. Len(net.conns) + 1
      /\ todo \subseteq group /\ group \subseteq 1 .. next - 1
  BY NetFacts DEF TypeInv, PassInv
<1>2. todo \subseteq Nat /\ todo # {} BY <1>1 DEF Scanning
<1>3. MinOf(todo) \in todo /\ \A k \in todo : MinOf(todo) <= k BY <1>2, MinOfNaturals
<1>4. MinOf(todo) \in group /\ MinOf(todo) \in 1 .. next - 1 BY <1>1, <1>3
<1>5. MinOf(todo) \in 1 .. Len(net.conns) BY <1>1, <1>4
<1>q. QED BY <1>3, <1>4, <1>5 DEF Scanning

\* A rider who stays on board comes from a trip that was ridden.
LEMMA ContinuationFacts ==
  ASSUME TypeInv, NEW i \in 1 .. Len(net.conns), NEW s \in Continuations(i)
  PROVE  \E l \in net.links :
           /\ l.type = "stay" /\ l.toTrip = net.conns[i].trip /\ l.toStop \in {net.conns[i].from, Any}
           /\ l.fromTrip \in Trips /\ OnTrip(l.fromTrip)
           /\ s = [board |-> i, legs |-> Append(onboard[l.fromTrip].legs, RideLeg(onboard[l.fromTrip])),
                   stay |-> TRUE, last |-> i]
           /\ s \in States /\ s.board = i /\ s.last = i
<1>0. QueryInv /\ BoardInv /\ PassInv BY DEF TypeInv
<1>1. PICK l \in net.links :
        /\ l.type = "stay" /\ l.toTrip = net.conns[i].trip /\ l.toStop \in {net.conns[i].from, Any}
        /\ onboard[l.fromTrip] # NotBoarded
        /\ s = [board |-> i, legs |-> TransitLabel(onboard[l.fromTrip]).legs, stay |-> TRUE, last |-> i]
  BY DEF Continuations
<1>2. l \in Links /\ next \in 1 .. Len(net.conns) + 1 /\ Len(net.conns) \in Nat BY <1>0, NetFacts DEF PassInv
<1>3. l.fromTrip \in Trips BY <1>2 DEF Links
<1>4. /\ onboard[l.fromTrip] \in States
      /\ onboard[l.fromTrip].board \in 1 .. next - 1 /\ onboard[l.fromTrip].last \in 1 .. next - 1
  BY <1>0, <1>1, <1>3 DEF BoardInv, OnTrip
<1>5. onboard[l.fromTrip].board \in 1 .. Len(net.conns) /\ onboard[l.fromTrip].last \in 1 .. Len(net.conns)
  BY <1>2, <1>4
<1>6. /\ TransitLabel(onboard[l.fromTrip]).legs = Append(onboard[l.fromTrip].legs, RideLeg(onboard[l.fromTrip]))
      /\ TransitLabel(onboard[l.fromTrip]) \in LabelSet
  BY <1>0, <1>4, <1>5, TransitLabelFacts
<1>7. TransitLabel(onboard[l.fromTrip]).legs \in Seq(Legs) BY <1>6 DEF LabelSet
<1>8. i \in Nat OBVIOUS
<1>9. s \in States /\ s.board = i /\ s.last = i BY <1>1, <1>7, <1>8 DEF States
<1>q. QED BY <1>1, <1>3, <1>6, <1>9 DEF OnTrip

\* A label that boards a connection is at its stop, and ready in time.
LEMMA BoardingFacts ==
  ASSUME TypeInv, NEW i \in 1 .. Len(net.conns), NEW l \in BoardingLabels(net.conns[i])
  PROVE  /\ l \in labels /\ l \in LabelSet /\ l.stop = net.conns[i].from
         /\ BoardingReady(l, net.conns[i]) <= net.conns[i].depTime
         /\ [board |-> i, legs |-> l.legs, stay |-> FALSE, last |-> i] \in States
<1>1. /\ l \in labels /\ l.stop = net.conns[i].from
      /\ BoardingReady(l, net.conns[i]) <= net.conns[i].depTime
  BY DEF BoardingLabels, LabelsAt
<1>2. l \in LabelSet BY <1>1 DEF TypeInv, LabelsInv
<1>3. l.legs \in Seq(Legs) BY <1>2 DEF LabelSet
<1>4. i \in Nat OBVIOUS
<1>5. [board |-> i, legs |-> l.legs, stay |-> FALSE, last |-> i] \in States BY <1>3, <1>4 DEF States
<1>q. QED BY <1>1, <1>2, <1>5

\* A visit in which the state of no trip changes.
LEMMA VisitType ==
  ASSUME TypeInv, GroupInv, NEW i \in todo, NEW reached \in BOOLEAN, Visit(i, reached),
         UNCHANGED <<tt, net, scanVars, outcome>>
  PROVE  TypeInv' /\ GroupInv'
<1>0. QueryInv /\ PassInv /\ BoardInv /\ LabelsInv /\ TargetInv /\ OutcomeInv BY DEF TypeInv
<1>1. /\ todo' = todo \ {i} /\ retry' = (IF reached THEN retry ELSE retry \cup {i})
      /\ progressed' = (progressed \/ reached) /\ next' = next /\ group' = group
      /\ tt' = tt /\ net' = net /\ labels' = labels /\ queue' = queue /\ onboard' = onboard
      /\ target' = target /\ outcome' = outcome
  BY DEF Visit, scanVars
<1>2. PassInv'
  <2>1. progressed' \in BOOLEAN BY <1>0, <1>1 DEF PassInv
  <2>2. todo' \subseteq group /\ retry' \subseteq group /\ todo' \cap retry' = {} BY <1>0, <1>1 DEF PassInv
  <2>q. QED BY <1>0, <1>1, <2>1, <2>2 DEF PassInv
<1>3. QueryInv' /\ LabelsInv' /\ BoardInv' /\ TargetInv' /\ OutcomeInv' /\ GroupInv'
  BY <1>0, <1>1 DEF QueryInv, LabelsInv, BoardInv, TargetInv, OutcomeInv, GroupInv, SameSlot, OnTrip, Found
<1>q. QED BY <1>2, <1>3 DEF TypeInv

\* A step that only ends the scan.
LEMMA EndType ==
  ASSUME TypeInv, GroupInv, UNCHANGED <<tt, net, scanVars, passVars>>,
         outcome' \in {"running", "found", "none", "failed", "cancelled"},
         outcome' \in {"found", "none"} => queue = {}, outcome' = "found" => Found
  PROVE  TypeInv' /\ GroupInv'
<1>0. QueryInv /\ PassInv /\ BoardInv /\ LabelsInv /\ TargetInv /\ OutcomeInv BY DEF TypeInv
<1>1. /\ tt' = tt /\ net' = net /\ labels' = labels /\ queue' = queue /\ onboard' = onboard
      /\ target' = target /\ next' = next /\ group' = group /\ todo' = todo /\ retry' = retry
      /\ progressed' = progressed
  BY DEF scanVars, passVars
<1>2. QueryInv' /\ LabelsInv' /\ BoardInv' /\ TargetInv' /\ PassInv' /\ GroupInv'
  BY <1>0, <1>1 DEF QueryInv, LabelsInv, BoardInv, TargetInv, PassInv, GroupInv, SameSlot, OnTrip, Found
<1>3. OutcomeInv' BY <1>1 DEF OutcomeInv, Found
<1>q. QED BY <1>2, <1>3 DEF TypeInv

\* A visit of a connection keeps the types, whatever comes of it.
LEMMA ScanConnectionType ==
  ASSUME TypeInv, GroupInv, ScanConnection
  PROVE  TypeInv' /\ GroupInv'
<1> DEFINE i == MinOf(todo)
           c == net.conns[i]
<1>0. Scanning /\ ProcessConnection(i) BY DEF ScanConnection
<1>1. i \in todo /\ i \in group /\ i \in 1 .. next - 1 /\ i \in 1 .. Len(net.conns) /\ queue = {} /\ outcome = "running"
  BY <1>0, VisitedFacts
<1>2. c.trip \in Trips BY <1>1, NetFacts DEF TypeInv
<1> HIDE DEF i
<1>3. CASE BeforeBoarding(i) BY <1>1, <1>3, VisitType DEF BeforeBoarding
<1>4. CASE NotContiguous(i) BY <1>4, EndType DEF NotContiguous
<1>5. CASE RideOn(i)
  <2>1. onboard[c.trip] # NotBoarded /\ Ride(i, onboard[c.trip]) BY <1>5 DEF RideOn, Boarded
  <2>2. /\ onboard[c.trip] \in States /\ onboard[c.trip].board \in 1 .. next - 1
        /\ net.conns[onboard[c.trip].board].trip = c.trip
    BY <1>2, <2>1 DEF TypeInv, BoardInv, OnTrip
  <2>q. QED BY <1>1, <2>1, <2>2, RideType
<1>6. CASE StayOnboard(i)
  <2>1. PICK s \in Continuations(i) : Ride(i, s) BY <1>6 DEF StayOnboard
  <2>2. s \in States /\ s.board = i BY <1>1, ContinuationFacts
  <2>q. QED BY <1>1, <2>1, <2>2, RideType
<1>7. CASE RuleError(i) BY <1>7, EndType DEF RuleError
<1>8. CASE Board(i)
  <2>1. PICK l \in BoardingLabels(c) : Ride(i, [board |-> i, legs |-> l.legs, stay |-> FALSE, last |-> i])
    BY <1>8 DEF Board
  <2> DEFINE s == [board |-> i, legs |-> l.legs, stay |-> FALSE, last |-> i]
  <2>2. s \in States /\ s.board = i BY <1>1, BoardingFacts
  <2>3. Ride(i, s) BY <2>1
  <2> HIDE DEF s
  <2>q. QED BY <1>1, <2>2, <2>3, RideType
<1>9. CASE NotReachable(i) BY <1>1, <1>9, VisitType DEF NotReachable
<1>q. QED BY <1>0, <1>3, <1>4, <1>5, <1>6, <1>7, <1>8, <1>9 DEF ProcessConnection

\* Another pass over the group keeps the types.
LEMMA NextPassType ==
  ASSUME TypeInv, GroupInv, NextPass
  PROVE  TypeInv' /\ GroupInv'
<1>0. QueryInv /\ PassInv /\ BoardInv /\ LabelsInv /\ TargetInv /\ OutcomeInv BY DEF TypeInv
<1>1. /\ todo' = retry /\ retry' = {} /\ progressed' = FALSE
      /\ tt' = tt /\ net' = net /\ labels' = labels /\ queue' = queue /\ onboard' = onboard
      /\ target' = target /\ next' = next /\ group' = group /\ outcome' = outcome
  BY DEF NextPass, scanVars
<1>2. QueryInv' /\ LabelsInv' /\ BoardInv' /\ TargetInv' /\ OutcomeInv' /\ GroupInv'
  BY <1>0, <1>1 DEF QueryInv, LabelsInv, BoardInv, TargetInv, OutcomeInv, GroupInv, SameSlot, OnTrip, Found
<1>3. PassInv' BY <1>0, <1>1 DEF PassInv
<1>q. QED BY <1>2, <1>3 DEF TypeInv

\* The end of the scan, or its cancellation, keeps the types.
LEMMA FinishType ==
  ASSUME TypeInv, GroupInv, Finish \/ Cancel
  PROVE  TypeInv' /\ GroupInv'
<1>1. UNCHANGED <<tt, net, scanVars, passVars>> /\ queue = {} BY DEF Finish, Cancel, PassOver
<1>2. outcome' \in {"found", "none", "cancelled"} /\ (outcome' = "found" => Found) BY DEF Finish, Cancel
<1>q. QED BY <1>1, <1>2, EndType

\* So does a step that changes nothing.
LEMMA StutterType ==
  ASSUME TypeInv, GroupInv, UNCHANGED vars
  PROVE  TypeInv' /\ GroupInv'
<1>1. UNCHANGED <<tt, net, scanVars, passVars>> /\ outcome' = outcome BY DEF vars
<1>2. /\ outcome' \in {"running", "found", "none", "failed", "cancelled"}
      /\ (outcome' \in {"found", "none"} => queue = {}) /\ (outcome' = "found" => Found)
  BY <1>1 DEF TypeInv, OutcomeInv
<1>q. QED BY <1>1, <1>2, EndType

\* Every step keeps the types and the groups in turn.
LEMMA TypeStep ==
  ASSUME TypeInv, GroupInv, [Next]_vars
  PROVE  TypeInv' /\ GroupInv'
BY RelaxWalkType, ScanConnectionType, NextPassType, NextGroupType, FinishType, StutterType DEF Next, Step

(***************************************************************************)
(* The order in which a trip is ridden.                                    *)
(***************************************************************************)

\* The connections of a trip that runs forward are sorted as its rows are.
LEMMA TripOrder ==
  ASSUME QueryInv, RunsForward(tt), NEW k \in 1 .. Len(net.conns), NEW l \in 1 .. Len(net.conns),
         net.conns[k].trip = net.conns[l].trip
  PROVE  LET p == Place(Directed(tt).rows)
         IN  /\ p[k] \in 1 .. Len(net.conns) /\ p[l] \in 1 .. Len(net.conns)
             /\ net.conns[k] = Directed(tt).rows[p[k]] /\ net.conns[l] = Directed(tt).rows[p[l]]
             /\ k < l <=> p[k] < p[l]
             /\ k = l <=> p[k] = p[l]
             /\ k < l /\ (\A m \in k + 1 .. l - 1 : net.conns[m].trip # net.conns[k].trip)
                  => p[l] = p[k] + 1
<1> DEFINE d == Directed(tt)
           p == Place(d.rows)
           n == Len(net.conns)
<1>1. WellFormed(d) /\ net.conns = Sorted(d.rows) /\ RunsForward(d)
  BY NetworkFacts DEF QueryInv
<1>2. /\ n = Len(d.rows) /\ p \in [1 .. n -> 1 .. n]
      /\ \A x \in 1 .. n : net.conns[x] = d.rows[p[x]]
  BY NetFacts
<1> HIDE DEF d
<1>3. /\ k < l <=> p[k] < p[l]
      /\ k = l <=> p[k] = p[l]
      /\ k < l /\ (\A m \in k + 1 .. l - 1 : net.conns[m].trip # net.conns[k].trip)
           => p[l] = p[k] + 1
  <2> DEFINE c == Sorted(d.rows)
             m == Len(d.rows)
  <2>1. /\ k \in 1 .. m /\ l \in 1 .. m /\ c[k].trip = c[l].trip BY <1>1, <1>2
  <2>2. /\ k < l <=> p[k] < p[l]
        /\ k = l <=> p[k] = p[l]
        /\ k < l /\ (\A x \in k + 1 .. l - 1 : c[x].trip # c[k].trip) => p[l] = p[k] + 1
    BY <1>1, <2>1, SortedTrips
  <2>3. c = net.conns BY <1>1
  <2> HIDE DEF c, p
  <2>q. QED BY <2>2, <2>3
<1>q. QED BY <1>2, <1>3 DEF d

\* A rider is never where an earlier segment of the same trip would leave.
LEMMA EarlierIsDetached ==
  ASSUME QueryInv, RunsForward(tt), NEW k \in 1 .. Len(net.conns), NEW l \in 1 .. Len(net.conns),
         net.conns[k].trip = net.conns[l].trip, k < l
  PROVE  net.conns[l].to # net.conns[k].from \/ net.conns[l].arrTime > net.conns[k].depTime
<1> DEFINE d == Directed(tt)
           p == Place(d.rows)
           n == Len(net.conns)
<1>1. RunsForward(d) BY NetworkFacts DEF QueryInv
<1>2. DOMAIN d.rows = 1 .. n BY NetFacts
<1>3. /\ p[k] \in 1 .. n /\ p[l] \in 1 .. n /\ p[k] < p[l]
      /\ net.conns[k] = d.rows[p[k]] /\ net.conns[l] = d.rows[p[l]]
  BY TripOrder
<1>4. /\ net.conns[k].depTime \in Int /\ net.conns[l].depTime \in Int /\ net.conns[l].arrTime \in Int
      /\ net.conns[l].depTime <= net.conns[l].arrTime /\ net.conns[k].depTime <= net.conns[l].depTime
  BY NetFacts
<1> HIDE DEF d, p, n
<1>5. d.rows[p[l]].to # d.rows[p[k]].from \/ d.rows[p[l]].arrTime # d.rows[p[k]].depTime
  BY <1>1, <1>2, <1>3 DEF RunsForward
<1>q. QED BY <1>3, <1>4, <1>5

\* The segment after those ridden is the next of the trip.
LEMMA RidesInOrder ==
  ASSUME TypeInv, OrderInv, RunsForward(tt), NEW i \in todo, \A k \in todo : i <= k,
         NEW t \in Trips, OnTrip(t), net.conns[i].trip = t, i > onboard[t].last
  PROVE  LET p == Place(Directed(tt).rows)
         IN  /\ p[i] = p[onboard[t].last] + 1
             /\ p[i] \in 1 .. Len(net.conns) /\ p[onboard[t].last] \in 1 .. Len(net.conns)
             /\ net.conns[i] = Directed(tt).rows[p[i]]
             /\ net.conns[onboard[t].last] = Directed(tt).rows[p[onboard[t].last]]
<1> DEFINE x == onboard[t].last
           n == Len(net.conns)
<1>0. QueryInv BY DEF TypeInv
<1>1. /\ next \in 1 .. n + 1 /\ n \in Nat /\ i \in 1 .. next - 1 /\ x \in 1 .. next - 1
      /\ net.conns[x].trip = t
      /\ \A k \in DOMAIN net.conns : net.conns[k].trip = t /\ k > x => k \in todo \/ k >= next
      /\ DOMAIN net.conns = 1 .. n
  BY <1>0, NetFacts DEF TypeInv, PassInv, BoardInv, OrderInv
<1>2. i \in 1 .. n /\ x \in 1 .. n /\ x < i BY <1>1
<1>3. ASSUME NEW m \in x + 1 .. i - 1 PROVE net.conns[m].trip # t
  <2>1. m \in 1 .. n /\ m > x /\ m < i /\ ~(m >= next) BY <1>1, <1>2
  <2>2. m \notin todo BY <2>1, <1>2
  <2>q. QED BY <1>1, <2>1, <2>2
<1>4. x \in 1 .. n /\ i \in 1 .. n /\ net.conns[x].trip = net.conns[i].trip BY <1>1, <1>2
<1>5. \A m \in x + 1 .. i - 1 : net.conns[m].trip # net.conns[x].trip BY <1>1, <1>3
<1>6. LET p == Place(Directed(tt).rows)
      IN  /\ p[x] \in 1 .. n /\ p[i] \in 1 .. n
          /\ net.conns[x] = Directed(tt).rows[p[x]] /\ net.conns[i] = Directed(tt).rows[p[i]]
          /\ x < i /\ (\A m \in x + 1 .. i - 1 : net.conns[m].trip # net.conns[x].trip)
               => p[i] = p[x] + 1
  <2> HIDE DEF x
  <2>q. QED BY <1>0, <1>4, TripOrder
<1>q. QED BY <1>2, <1>5, <1>6

\* A segment that does not follow on is one after a gap.
LEMMA DetachedIsGap ==
  ASSUME TypeInv, OrderInv, RunsForward(tt), NEW i \in todo, \A k \in todo : i <= k,
         i \in 1 .. Len(net.conns), NotContiguous(i)
  PROVE  HasGap(Directed(tt))
<1> DEFINE t == net.conns[i].trip
           x == onboard[t].last
           d == Directed(tt)
           p == Place(d.rows)
           n == Len(net.conns)
<1>0. QueryInv /\ t \in Trips /\ DOMAIN d.rows = 1 .. n /\ Len(d.rows) = n /\ n \in Nat
      /\ \A k \in 1 .. n : net.conns[k].depTime \in Int /\ net.conns[k].arrTime \in Int
  BY NetFacts DEF TypeInv
<1>1. OnTrip(t) /\ onboard[t].board <= i /\ (net.conns[x].to # net.conns[i].from \/ net.conns[x].arrTime > net.conns[i].depTime)
  BY DEF NotContiguous, Boarded, Detached, OnTrip
<1>2. /\ i < onboard[t].board \/ i > x
      /\ net.conns[x].trip = t /\ onboard[t].board \in Nat /\ i \in Nat
      /\ x \in 1 .. n
  <2>1. next \in 1 .. n + 1 BY DEF TypeInv, PassInv
  <2>2. /\ x \in 1 .. next - 1 /\ onboard[t].board \in 1 .. next - 1 /\ net.conns[x].trip = t
    BY <1>0, <1>1 DEF TypeInv, BoardInv
  <2>3. i < onboard[t].board \/ i > x BY <1>0, <1>1 DEF OrderInv
  <2> HIDE DEF n, x, t
  <2>q. QED BY <1>0, <2>1, <2>2, <2>3
<1>3. i > x BY <1>1, <1>2
<1>4. /\ p[i] = p[x] + 1 /\ p[i] \in 1 .. n /\ p[x] \in 1 .. n
      /\ net.conns[i] = d.rows[p[i]] /\ net.conns[x] = d.rows[p[x]]
  BY <1>0, <1>1, <1>3, RidesInOrder
<1> HIDE DEF t, x, d, p, n
<1>5. p[x] \in 1 .. n - 1 BY <1>0, <1>4
<1>6. d.rows[p[x]].trip = d.rows[p[x] + 1].trip BY <1>2, <1>4 DEF t
<1>7. ~Adjoin(d, p[x], p[x] + 1)
  <2>1. net.conns[x].arrTime \in Int /\ net.conns[i].depTime \in Int BY <1>0, <1>2 DEF n
  <2>q. QED BY <1>1, <1>4, <2>1 DEF Adjoin
<1>q. QED BY <1>0, <1>5, <1>6, <1>7 DEF HasGap, d

\* The scan starts on no trip.
LEMMA OrderInit ==
  ASSUME Init
  PROVE  OrderInv
<1>1. todo = {} /\ retry = {} /\ group = {} /\ onboard = [t \in Trips |-> NotBoarded] BY DEF Init
<1>q. QED BY <1>1 DEF OrderInv, OnTrip

\* Riding a connection keeps the order of what is left of the trip.
LEMMA OrderRide ==
  ASSUME TypeInv, GroupInv, OrderInv, NEW i \in todo, \A k \in todo : i <= k,
         NEW s \in States, Ride(i, s), s.board <= i,
         \A k \in todo \cup retry : net.conns[k].trip = net.conns[i].trip /\ k # i => k < s.board \/ k > i,
         \A k \in DOMAIN net.conns : net.conns[k].trip = net.conns[i].trip /\ k > i => k \in todo \/ k >= next
  PROVE  OrderInv'
<1> DEFINE t == net.conns[i].trip
           riding == [s EXCEPT !.last = i]
<1>0. QueryInv /\ PassInv /\ BoardInv BY DEF TypeInv
<1>1. i \in 1 .. Len(net.conns) /\ t \in Trips /\ i \in Nat /\ DOMAIN net.conns = 1 .. Len(net.conns)
  <2>1. i \in 1 .. next - 1 /\ next \in 1 .. Len(net.conns) + 1 /\ Len(net.conns) \in Nat
        /\ DOMAIN net.conns = 1 .. Len(net.conns)
    BY <1>0, NetFacts DEF PassInv
  <2>2. i \in 1 .. Len(net.conns) /\ i \in Nat BY <2>1
  <2>3. net.conns[i].trip \in Trips BY <1>0, <2>2, NetFacts
  <2>q. QED BY <2>1, <2>2, <2>3
<1>2. /\ onboard' = [onboard EXCEPT ![t] = riding] /\ todo' = todo \ {i} /\ retry' = retry
      /\ next' = next /\ group' = group /\ net' = net
  BY DEF Ride, Visit
<1>3. riding.board = s.board /\ riding.last = i /\ riding # NotBoarded => riding.board = s.board /\ riding.last = i
  OBVIOUS
<1>4. riding.board = s.board /\ riding.last = i BY <1>1 DEF States
<1>5. onboard'[t] = riding /\ \A u \in Trips \ {t} : onboard'[u] = onboard[u]
  BY <1>0, <1>1, <1>2 DEF BoardInv
<1>6. \A a \in retry', b \in todo' : a < b BY <1>2 DEF OrderInv
<1>7. ASSUME NEW u \in Trips, onboard'[u] # NotBoarded
      PROVE  /\ onboard'[u].board <= onboard'[u].last
             /\ \A k \in DOMAIN net.conns : net.conns[k].trip = u /\ k > onboard'[u].last => k \in todo' \/ k >= next
             /\ \A k \in todo' \cup retry' : net.conns[k].trip = u => k < onboard'[u].board \/ k > onboard'[u].last
  <2>1. CASE u = t
    <3>1. onboard'[u].board = s.board /\ onboard'[u].last = i BY <1>4, <1>5, <2>1
    <3>2. ASSUME NEW k \in DOMAIN net.conns, net.conns[k].trip = u, k > i PROVE k \in todo' \/ k >= next
      <4>1. k # i BY <1>1, <3>2
      <4>q. QED BY <1>2, <2>1, <3>2, <4>1
    <3>3. i \notin todo' /\ i \notin retry' BY <1>0, <1>2 DEF PassInv
    <3>4. todo' \cup retry' \subseteq (todo \cup retry) \ {i} BY <1>2, <3>3
    <3>q. QED BY <2>1, <3>1, <3>2, <3>4
  <2>2. CASE u # t
    <3>1. onboard'[u] = onboard[u] /\ OnTrip(u) BY <1>5, <1>7, <2>2 DEF OnTrip
    <3>2. \A k \in DOMAIN net.conns : net.conns[k].trip = u => k # i BY <2>2
    <3>q. QED BY <1>2, <3>1, <3>2 DEF OrderInv
  <2>q. QED BY <2>1, <2>2
<1>8. ASSUME NEW k \in group, onboard'[net.conns[k].trip] = NotBoarded PROVE k \in todo' \cup retry'
  <2>1. k \in 1 .. Len(net.conns) /\ net.conns[k].trip \in Trips
    <3>1. k \in 1 .. next - 1 /\ next \in 1 .. Len(net.conns) + 1 /\ Len(net.conns) \in Nat
      BY <1>0, NetFacts DEF PassInv
    <3>2. k \in 1 .. Len(net.conns) BY <3>1
    <3>q. QED BY <1>0, <3>2, NetFacts
  <2>2. net.conns[k].trip # t
    <3>1. riding # NotBoarded
      <4>1. riding.last # 0 BY <1>1, <1>4
      <4>2. NotBoarded.last = 0 BY DEF NotBoarded
      <4> HIDE DEF riding
      <4>q. QED BY <4>1, <4>2
    <3>q. QED BY <1>5, <1>8, <3>1
  <2>3. ~OnTrip(net.conns[k].trip) /\ k # i BY <1>5, <1>8, <2>1, <2>2 DEF OnTrip
  <2>q. QED BY <1>2, <2>3 DEF OrderInv
<1>q. QED BY <1>2, <1>6, <1>7, <1>8 DEF OrderInv, OnTrip

\* Riding on keeps the order.
LEMMA OrderRideOn ==
  ASSUME TypeInv, GroupInv, OrderInv, RunsForward(tt), Scanning, RideOn(MinOf(todo))
  PROVE  OrderInv'
<1> DEFINE i == MinOf(todo)
           t == net.conns[i].trip
           s == onboard[t]
           n == Len(net.conns)
<1>1. /\ i \in todo /\ \A k \in todo : i <= k
      /\ i \in group /\ i \in 1 .. next - 1 /\ i \in 1 .. n
  BY VisitedFacts
<1>2. QueryInv /\ PassInv /\ BoardInv /\ next \in 1 .. n + 1 BY DEF TypeInv, PassInv
<1>3. t \in Trips /\ DOMAIN net.conns = 1 .. n /\ n \in Nat /\ net.conns[i].depTime \in Int
  BY <1>1, <1>2, NetFacts
<1>4. OnTrip(t) /\ Ride(i, s) /\ net.conns[s.last].to = net.conns[i].from
      /\ ~(net.conns[s.last].arrTime > net.conns[i].depTime)
  BY DEF RideOn, Boarded, Detached, OnTrip
<1>5. /\ s \in States /\ s.board \in 1 .. next - 1 /\ s.last \in 1 .. next - 1
      /\ net.conns[s.board].trip = t /\ net.conns[s.last].trip = t
  BY <1>2, <1>3, <1>4 DEF BoardInv
<1>6. /\ s.board <= s.last
      /\ \A k \in DOMAIN net.conns : net.conns[k].trip = t /\ k > s.last => k \in todo \/ k >= next
      /\ \A k \in todo \cup retry : net.conns[k].trip = t => k < s.board \/ k > s.last
      /\ \A k \in retry : k < i
  BY <1>1, <1>3, <1>4 DEF OrderInv
<1>7. s.last \in 1 .. n /\ s.board \in Nat /\ i \in Nat /\ s.last \in Nat
  <2> HIDE DEF s, n, i
  <2>q. QED BY <1>1, <1>2, <1>3, <1>5
<1>8. ~(i < s.last)
  <2>1. ASSUME i < s.last PROVE FALSE
    <3>1. net.conns[s.last].to # net.conns[i].from \/ net.conns[s.last].arrTime > net.conns[i].depTime
      <4> HIDE DEF s, i
      <4>q. QED BY <1>1, <1>2, <1>5, <1>7, <2>1, EarlierIsDetached DEF t, n
    <3>q. QED BY <1>4, <3>1
  <2>q. QED BY <2>1
<1>9. i > s.last
  <2>1. i < s.board \/ i > s.last BY <1>1, <1>6
  <2> HIDE DEF s, i
  <2>q. QED BY <1>6, <1>7, <1>8, <2>1
<1>10. s.board <= i
  <2> HIDE DEF s, i
  <2>q. QED BY <1>6, <1>7, <1>9
<1>11. \A k \in DOMAIN net.conns : net.conns[k].trip = t /\ k > i => k \in todo \/ k >= next
  <2> HIDE DEF s, i, n, t
  <2>q. QED BY <1>3, <1>6, <1>7, <1>9
<1>12. ASSUME NEW k \in todo \cup retry, net.conns[k].trip = t, k # i
       PROVE  k < s.board \/ k > i
  <2>0. k \in 1 .. next - 1 /\ k \in 1 .. n
    <3>1. k \in 1 .. next - 1 BY <1>2 DEF PassInv
    <3> HIDE DEF n
    <3>q. QED BY <3>1, <1>2, <1>3
  <2>1. CASE k \in todo
    <3>1. i <= k BY <1>1, <2>1
    <3> HIDE DEF s, i, n, t
    <3>q. QED BY <3>1, <1>7, <1>12, <2>0
  <2>2. CASE k \in retry
    <3>1. k \notin todo BY <1>2, <2>2 DEF PassInv
    <3>2. k > s.last => k >= next BY <1>3, <1>6, <1>12, <2>0, <3>1
    <3>3. k < s.board \/ k > s.last BY <1>6, <1>12
    <3>4. ~(k >= next) BY <2>0, <1>2, <1>3
    <3>q. QED BY <3>2, <3>3, <3>4
  <2>q. QED BY <1>12, <2>1, <2>2
<1> HIDE DEF i, s
<1>q. QED BY <1>1, <1>4, <1>5, <1>10, <1>11, <1>12, OrderRide DEF t, n

\* Boarding a trip, from a stop or from the trip it continues, keeps the order.
LEMMA OrderBoarding ==
  ASSUME TypeInv, GroupInv, OrderInv, Scanning, NEW i, i = MinOf(todo), ~Boarded(i),
         NEW s \in States, s.board = i, Ride(i, s)
  PROVE  OrderInv'
<1> DEFINE t == net.conns[i].trip
           n == Len(net.conns)
<1>1. /\ i \in todo /\ \A k \in todo : i <= k
      /\ i \in group /\ i \in 1 .. next - 1 /\ i \in 1 .. n
  BY VisitedFacts
<1>2. QueryInv /\ PassInv /\ BoardInv /\ next \in 1 .. n + 1 BY DEF TypeInv, PassInv
<1>3. t \in Trips /\ DOMAIN net.conns = 1 .. n /\ n \in Nat BY <1>1, <1>2, NetFacts
<1>4. \A k \in retry : k < i BY <1>1 DEF OrderInv
<1>5. ~OnTrip(t) BY DEF Boarded, OnTrip
<1>6. ASSUME NEW k \in DOMAIN net.conns, net.conns[k].trip = t, k > i PROVE k \in todo \/ k >= next
  <2>1. CASE k >= next BY <2>1
  <2>2. CASE ~(k >= next)
    <3>1. k \in i .. next - 1
      <4> HIDE DEF n
      <4>q. QED BY <1>1, <1>2, <1>3, <1>6, <2>2
    <3>2. k \in group BY <1>1, <3>1 DEF GroupInv
    <3>3. k \in todo \cup retry BY <1>5, <1>6, <3>2 DEF OrderInv
    <3>4. k \notin retry
      <4> HIDE DEF n
      <4>q. QED BY <1>1, <1>3, <1>4, <1>6
    <3>q. QED BY <3>3, <3>4
  <2>q. QED BY <2>1, <2>2
<1>7. ASSUME NEW k \in todo \cup retry, k # i PROVE k < s.board \/ k > i
  <2>0. k \in 1 .. next - 1 BY <1>2 DEF PassInv
  <2>1. CASE k \in todo
    <3>1. i <= k BY <1>1, <2>1
    <3>q. QED BY <3>1, <1>1, <1>7, <2>0, <1>2, <1>3
  <2>2. CASE k \in retry BY <1>4, <2>2
  <2>q. QED BY <1>7, <2>1, <2>2
<1>8. s.board <= i BY <1>1
<1>q. QED BY <1>1, <1>6, <1>7, <1>8, OrderRide

\* A visit keeps the order.
LEMMA OrderScanConnection ==
  ASSUME TypeInv, GroupInv, OrderInv, RunsForward(tt), ScanConnection
  PROVE  OrderInv'
<1> DEFINE i == MinOf(todo)
           c == net.conns[i]
<1>0. Scanning /\ ProcessConnection(i) BY DEF ScanConnection
<1>1. /\ i \in todo /\ \A k \in todo : i <= k
      /\ i \in group /\ i \in 1 .. next - 1 /\ i \in 1 .. Len(net.conns)
  BY <1>0, VisitedFacts
<1>2. QueryInv /\ PassInv /\ BoardInv BY DEF TypeInv
<1>3. c.trip \in Trips BY <1>1, <1>2, NetFacts
<1>4. CASE BeforeBoarding(i)
  <2>1. /\ todo' = todo \ {i} /\ retry' = retry /\ group' = group /\ next' = next
        /\ net' = net /\ onboard' = onboard
    BY <1>4 DEF BeforeBoarding, Visit, scanVars
  <2>2. OnTrip(c.trip) /\ onboard[c.trip].board > i BY <1>4 DEF BeforeBoarding, Boarded, OnTrip
  <2>3. onboard[c.trip].board <= onboard[c.trip].last
        /\ onboard[c.trip].board \in 1 .. next - 1 /\ onboard[c.trip].last \in 1 .. next - 1
    BY <1>2, <1>3, <2>2 DEF OrderInv, BoardInv
  <2>4. ~(i > onboard[c.trip].last)
    <3>1. next \in Int BY <1>2, NetFacts DEF PassInv
    <3> HIDE DEF i, c
    <3>q. QED BY <1>1, <2>2, <2>3, <3>1
  <2>5. \A t \in Trips : OnTrip(t) =>
          \A k \in DOMAIN net.conns : net.conns[k].trip = t /\ k > onboard[t].last => k \in todo' \/ k >= next
    <3>1. SUFFICES ASSUME NEW t \in Trips, OnTrip(t), NEW k \in DOMAIN net.conns, net.conns[k].trip = t, k > onboard[t].last
                   PROVE  k \in todo' \/ k >= next
      OBVIOUS
    <3>2. k \in todo \/ k >= next BY <3>1 DEF OrderInv
    <3>3. k # i BY <2>4, <3>1
    <3>q. QED BY <2>1, <3>2, <3>3
  <2>6. \A k \in group : ~OnTrip(net.conns[k].trip) => k \in todo' \cup retry'
    BY <2>1, <2>2 DEF OrderInv
  <2>q. QED BY <2>1, <2>5, <2>6 DEF OrderInv, OnTrip
<1>5. CASE NotContiguous(i) \/ RuleError(i)
  <2>1. /\ todo' = todo /\ retry' = retry /\ group' = group /\ next' = next /\ net' = net /\ onboard' = onboard
    BY <1>5 DEF NotContiguous, RuleError, scanVars, passVars
  <2>q. QED BY <2>1 DEF OrderInv, OnTrip
<1>6. CASE RideOn(i) BY <1>0, <1>6, OrderRideOn
<1>7. CASE StayOnboard(i)
  <2>1. PICK s \in Continuations(i) : Ride(i, s) BY <1>7 DEF StayOnboard
  <2>2. s \in States /\ s.board = i BY <1>1, ContinuationFacts
  <2>3. ~Boarded(i) BY <1>7 DEF StayOnboard
  <2>q. QED BY <1>0, <2>1, <2>2, <2>3, OrderBoarding
<1>8. CASE Board(i)
  <2>1. PICK l \in BoardingLabels(c) : Ride(i, [board |-> i, legs |-> l.legs, stay |-> FALSE, last |-> i])
    BY <1>8 DEF Board
  <2> DEFINE s == [board |-> i, legs |-> l.legs, stay |-> FALSE, last |-> i]
  <2>2. s \in States /\ s.board = i BY <1>1, BoardingFacts
  <2>3. ~Boarded(i) BY <1>8 DEF Board, MayBoard
  <2>4. Ride(i, s) BY <2>1
  <2> HIDE DEF s
  <2>q. QED BY <1>0, <2>2, <2>3, <2>4, OrderBoarding
<1>9. CASE NotReachable(i)
  <2>1. /\ todo' = todo \ {i} /\ retry' = retry \cup {i} /\ group' = group /\ next' = next
        /\ net' = net /\ onboard' = onboard
    BY <1>9 DEF NotReachable, Visit, scanVars
  <2>2. ~OnTrip(c.trip) BY <1>9 DEF NotReachable, Boarded, OnTrip
  <2>3. \A a \in retry', b \in todo' : a < b
    <3>1. SUFFICES ASSUME NEW a \in retry', NEW b \in todo' PROVE a < b OBVIOUS
    <3>2. b \in todo /\ b # i /\ i <= b BY <1>1, <2>1, <3>1
    <3>3. b \in 1 .. next - 1 /\ next \in Int BY <1>2, <3>2, NetFacts DEF PassInv
    <3>4. i < b
      <4> HIDE DEF i
      <4>q. QED BY <1>1, <3>2, <3>3
    <3>q. QED BY <2>1, <3>1, <3>2, <3>4 DEF OrderInv
  <2>4. \A t \in Trips : OnTrip(t) =>
       /\ onboard[t].board <= onboard[t].last
       /\ \A k \in DOMAIN net.conns : net.conns[k].trip = t /\ k > onboard[t].last => k \in todo' \/ k >= next
       /\ \A k \in todo' \cup retry' : net.conns[k].trip = t => k < onboard[t].board \/ k > onboard[t].last
    <3>1. \A k : k = i => ~OnTrip(net.conns[k].trip) BY <2>2
    <3>2. todo' \cup retry' \subseteq todo \cup retry BY <1>1, <2>1
    <3>q. QED BY <2>1, <3>1, <3>2 DEF OrderInv
  <2>5. \A k \in group : ~OnTrip(net.conns[k].trip) => k \in todo' \cup retry' BY <2>1 DEF OrderInv
  <2>q. QED BY <2>1, <2>3, <2>4, <2>5 DEF OrderInv, OnTrip
<1>q. QED BY <1>0, <1>4, <1>5, <1>6, <1>7, <1>8, <1>9 DEF ProcessConnection

\* A new group: whatever has not been ridden of a trip is in it or after it.
LEMMA OrderNextGroup ==
  ASSUME TypeInv, GroupInv, OrderInv, NextGroup
  PROVE  OrderInv'
<1> DEFINE n == Len(net.conns)
<1>0. QueryInv /\ PassInv /\ BoardInv BY DEF TypeInv
<1>1. /\ n \in Nat /\ DOMAIN net.conns = 1 .. n /\ next \in 1 .. n /\ next' \in next + 1 .. n + 1
      /\ group' = next .. next' - 1 /\ todo' = group' /\ retry' = {}
      /\ net' = net /\ onboard' = onboard
  <2>1. UNCHANGED scanVars /\ net' = net BY DEF NextGroup
  <2>2. onboard' = onboard BY <2>1 DEF scanVars
  <2>q. QED BY <1>0, <2>1, <2>2, NetFacts, NextGroupFacts
<1>2. todo = {} BY DEF NextGroup, PassOver
<1>3. ASSUME NEW t \in Trips, OnTrip(t)
      PROVE  /\ onboard[t].board <= onboard[t].last
             /\ \A k \in DOMAIN net.conns : net.conns[k].trip = t /\ k > onboard[t].last => k \in todo' \/ k >= next'
             /\ \A k \in todo' : k > onboard[t].last
  <2>1. /\ onboard[t].board <= onboard[t].last /\ onboard[t].last \in 1 .. next - 1
        /\ \A k \in DOMAIN net.conns : net.conns[k].trip = t /\ k > onboard[t].last => k >= next
    BY <1>0, <1>2, <1>3 DEF OrderInv, BoardInv
  <2>2. ASSUME NEW k \in DOMAIN net.conns, k >= next PROVE k \in todo' \/ k >= next'
    <3> DEFINE a == next
               b == next'
               g == todo'
    <3>1. k \in 1 .. n /\ a \in Int /\ b \in Int /\ g = a .. b - 1 /\ k >= a BY <1>1, <2>2
    <3> HIDE DEF a, b, g, n
    <3>2. k \in g \/ k >= b BY <3>1
    <3>q. QED BY <3>2 DEF a, b, g
  <2>3. ASSUME NEW k \in todo' PROVE k > onboard[t].last
    <3> DEFINE a == next
               b == next'
               x == onboard[t].last
    <3>1. k \in a .. b - 1 /\ a \in Int /\ b \in Int /\ x \in 1 .. a - 1 BY <1>1, <2>1, <2>3
    <3> HIDE DEF a, b, x
    <3>2. k > x BY <3>1
    <3>q. QED BY <3>2 DEF x
  <2>q. QED BY <2>1, <2>2, <2>3
<1>q. QED BY <1>1, <1>3 DEF OrderInv, OnTrip

\* Another pass keeps the order: what is retried was set aside in order.
LEMMA OrderNextPass ==
  ASSUME TypeInv, OrderInv, NextPass
  PROVE  OrderInv'
<1>1. /\ todo' = retry /\ retry' = {} /\ group' = group /\ next' = next /\ net' = net /\ onboard' = onboard
      /\ todo = {}
  BY DEF NextPass, PassOver, scanVars
<1>2. \A t \in Trips : OnTrip(t) =>
       \A k \in DOMAIN net.conns : net.conns[k].trip = t /\ k > onboard[t].last => k >= next
  BY <1>1 DEF OrderInv
<1>q. QED BY <1>1, <1>2 DEF OrderInv, OnTrip

\* Where trips run forward, every step keeps the order.
LEMMA OrderStep ==
  ASSUME TypeInv, GroupInv, OrderInv, RunsForward(tt), [Next]_vars
  PROVE  OrderInv'
<1>1. CASE UNCHANGED <<net, onboard, passVars>>
  <2>1. /\ todo' = todo /\ retry' = retry /\ group' = group /\ next' = next /\ net' = net /\ onboard' = onboard
    BY <1>1 DEF passVars
  <2>q. QED BY <2>1 DEF OrderInv, OnTrip
<1>2. CASE RelaxWalk BY <1>1, <1>2 DEF RelaxWalk
<1>3. CASE Finish \/ Cancel \/ UNCHANGED vars BY <1>1, <1>3 DEF Finish, Cancel, vars, scanVars
<1>q. QED
  BY <1>2, <1>3, OrderScanConnection, OrderNextPass, OrderNextGroup DEF Next, Step

(***************************************************************************)
(* What makes the router give up.                                          *)
(***************************************************************************)

\* Only a segment that does not follow on, or rules that contradict each
\* other, end the scan with a failure.
LEMMA FailStep ==
  ASSUME TypeInv, GroupInv, RunsForward(tt) => OrderInv, outcome # "failed", [Next]_vars, outcome' = "failed",
         RunsForward(tt)
  PROVE  /\ tt' = tt /\ net' = net /\ labels' = labels
         /\ HasGap(Directed(tt)) \/ \E l \in labels, i \in DOMAIN net.conns :
                                      Conflicting(net.rules, RulesFor(l, net.conns[i]))
<1> DEFINE i == MinOf(todo)
<1>1. ScanConnection
  BY DEF Next, Step, RelaxWalk, NextPass, NextGroup, Finish, Cancel, vars
<1>2. Scanning /\ ProcessConnection(i) BY <1>1 DEF ScanConnection
<1>3. /\ i \in todo /\ \A k \in todo : i <= k
      /\ i \in 1 .. Len(net.conns)
  BY <1>2, VisitedFacts
<1>4. NotContiguous(i) \/ RuleError(i)
  BY <1>2 DEF ProcessConnection, BeforeBoarding, RideOn, StayOnboard, Board, NotReachable, Ride
<1>5. tt' = tt /\ net' = net /\ labels' = labels BY <1>4 DEF NotContiguous, RuleError, scanVars
<1>6. CASE NotContiguous(i) BY <1>3, <1>5, <1>6, DetachedIsGap
<1>7. CASE RuleError(i)
  <2>1. RulesConflict(net.conns[i]) BY <1>7 DEF RuleError
  <2>2. i \in DOMAIN net.conns BY <1>3, NetFacts DEF TypeInv
  <2> HIDE DEF i
  <2>q. QED BY <1>5, <2>1, <2>2 DEF RulesConflict, LabelsAt
<1>q. QED BY <1>4, <1>6, <1>7

\* The first conjuncts of the invariant, and all that a failed scan leaves be.
Conduct == TypeInv /\ GroupInv /\ (RunsForward(tt) => OrderInv) /\ FailInv

\* The scan has not failed when it starts.
LEMMA ConductInit ==
  ASSUME Init
  PROVE  Conduct
<1>1. outcome = "running" BY DEF Init
<1>q. QED BY <1>1, TypeInit, OrderInit DEF Conduct, FailInv

\* The query is fixed, and a failed scan goes no further.
LEMMA QueryIsFixed ==
  ASSUME [Next]_vars
  PROVE  /\ tt' = tt /\ net' = net
         /\ outcome # "running" => UNCHANGED vars
<1>1. CASE UNCHANGED vars BY <1>1 DEF vars
<1>2. CASE ScanConnection
  <2>1. Scanning /\ ProcessConnection(MinOf(todo)) BY <1>2 DEF ScanConnection
  <2>q. QED BY <2>1 DEF Scanning, ProcessConnection, BeforeBoarding, NotContiguous, RideOn, StayOnboard,
                        RuleError, Board, NotReachable, Ride
<1>3. CASE RelaxWalk \/ NextPass \/ NextGroup \/ Finish \/ Cancel
  BY <1>3 DEF RelaxWalk, NextPass, NextGroup, Finish, Cancel, PassOver
<1>q. QED BY <1>1, <1>2, <1>3 DEF Next, Step

\* Every step keeps what is known of failure.
LEMMA ConductStep ==
  ASSUME Conduct, [Next]_vars
  PROVE  Conduct'
<1>1. TypeInv /\ GroupInv /\ (RunsForward(tt) => OrderInv) /\ FailInv BY DEF Conduct
<1>2. TypeInv' /\ GroupInv' BY <1>1, TypeStep
<1>3. tt' = tt BY QueryIsFixed
<1>4. RunsForward(tt)' => OrderInv' BY <1>1, <1>3, OrderStep
<1>5. FailInv'
  <2>1. CASE outcome = "failed"
    <3>1. UNCHANGED vars BY <2>1, QueryIsFixed
    <3>2. tt' = tt /\ net' = net /\ labels' = labels /\ outcome' = outcome BY <3>1 DEF vars, scanVars
    <3>q. QED BY <1>1, <3>2 DEF FailInv, RulesFor
  <2>2. CASE outcome # "failed" BY <1>1, <1>3, <2>2, FailStep DEF FailInv, RulesFor
  <2>q. QED BY <2>1, <2>2
<1>q. QED BY <1>2, <1>4, <1>5 DEF Conduct

\* The types, the order of trips that run forward and the reasons for failure are invariant.
LEMMA ConductIsInvariant == Spec => []Conduct
<1>1. Init => Conduct BY ConductInit
<1>2. Conduct /\ [Next]_vars => Conduct' BY ConductStep
<1>q. QED BY <1>1, <1>2, PTL DEF Spec

\* Whatever the timetable, the scan keeps its books: one label for each stop
\* and context, none before the query's instant, trips boarded no later than
\* they are ridden to, groups that are consumed in order, a target that is
\* one, and no walk left to relax when there is an answer.
THEOREM ScanIsTyped == Spec => []ScanTypeOK
<1>1. ASSUME Conduct PROVE ScanTypeOK
  <2>0. QueryInv /\ PassInv /\ BoardInv /\ LabelsInv /\ TargetInv /\ OutcomeInv /\ (RunsForward(tt) => OrderInv)
    BY <1>1 DEF Conduct, TypeInv
  <2>1. \A l \in labels \cup queue : l.stop \in Stops /\ l.arrival \in Int /\ l.arrival >= net.start
    <3>1. \A l \in labels \cup queue : l \in LabelSet /\ l.arrival >= net.start BY <2>0 DEF LabelsInv
    <3>q. QED BY <3>1 DEF LabelSet
  <2>2. \A l, k \in labels : SameSlot(l, k) => l = k BY <2>0 DEF LabelsInv
  <2>3. ASSUME NEW t \in Trips, onboard[t] # NotBoarded
        PROVE  /\ onboard[t].board \in DOMAIN net.conns /\ onboard[t].last \in group \cup 1 .. next
               /\ net.conns[onboard[t].board].trip = t /\ net.conns[onboard[t].last].trip = t
               /\ RunsForward(tt) => onboard[t].board <= onboard[t].last
    <3>1. /\ onboard[t].board \in 1 .. next - 1 /\ onboard[t].last \in 1 .. next - 1
          /\ net.conns[onboard[t].board].trip = t /\ net.conns[onboard[t].last].trip = t
      BY <2>0, <2>3 DEF BoardInv, OnTrip
    <3>2. next \in 1 .. Len(net.conns) + 1 /\ DOMAIN net.conns = 1 .. Len(net.conns) /\ Len(net.conns) \in Nat
      BY <2>0, NetFacts DEF PassInv
    <3>3. onboard[t].board \in DOMAIN net.conns /\ onboard[t].last \in 1 .. next BY <3>1, <3>2
    <3>4. RunsForward(tt) => onboard[t].board <= onboard[t].last BY <2>0, <2>3 DEF OrderInv, OnTrip
    <3>q. QED BY <3>1, <3>3, <3>4
  <2>4. todo \cup retry \subseteq group /\ todo \cap retry = {} BY <2>0 DEF PassInv
  <2>5. group \subseteq 1 .. next - 1 /\ next \in 1 .. Len(net.conns) + 1 BY <2>0 DEF PassInv
  <2>6. Found => target.egress \in net.targets /\ target.label.stop = target.egress.stop
    BY <2>0 DEF TargetInv, TargetSet
  <2>7. /\ outcome \in {"running", "found", "none", "failed", "cancelled"}
        /\ outcome \in {"found", "none"} => queue = {}
    BY <2>0 DEF OutcomeInv
  <2>q. QED BY <2>1, <2>2, <2>3, <2>4, <2>5, <2>6, <2>7 DEF ScanTypeOK
<1>q. QED BY <1>1, ConductIsInvariant, PTL

\* A query over trips that go forward in time is given up only for a trip with
\* a gap or for transfer rules that contradict each other: no order of boarding,
\* retrying and riding leads to "invalid non-contiguous trip instance".
THEOREM GivesUpForAReason == Spec => []FailsOnlyOnBadData
<1>1. ASSUME Conduct PROVE FailsOnlyOnBadData
  <2>1. tt \in Timetables BY <1>1 DEF Conduct, TypeInv, QueryInv
  <2>2. HasGap(Directed(tt)) => HasGap(tt) BY <2>1, NetworkFacts
  <2>q. QED BY <1>1, <2>2 DEF Conduct, FailInv, FailsOnlyOnBadData
<1>q. QED BY <1>1, ConductIsInvariant, PTL

(***************************************************************************)
(* Continuations: a trip that continues the one being ridden is reached    *)
(* only when that one is over, and is not passed by.                       *)
(***************************************************************************)

\* Rows a and b are where a trip ends and where the one that continues it
\* begins, as connections of the scan.
LinkedAt(l, a, b) ==
  LET d == Directed(tt)
      p == Place(d.rows)
  IN  /\ a \in 1 .. Len(net.conns) /\ b \in 1 .. Len(net.conns)
      /\ net.conns[a].trip = l.fromTrip /\ IsLast(d, p[a])
      /\ net.conns[b].trip = l.toTrip /\ IsFirst(d, p[b])
      /\ LinkMatches(l, "stay", net.conns[a], net.conns[b])
      /\ MayStay(d, net.conns[a], net.conns[b])

\* The end of a trip is scanned before the beginning of its continuation.
LEMMA LinkOrder ==
  ASSUME QueryInv, Orderly(tt), NEW l \in net.links, l.type = "stay"
  PROVE  \E a, b \in 1 .. Len(net.conns) : LinkedAt(l, a, b) /\ (l.fromTrip # l.toTrip => a < b)
<1> DEFINE d == Directed(tt)
           p == Place(d.rows)
           n == Len(net.conns)
<1>1. /\ l \in LoadedLinks(d) /\ DOMAIN d.rows = 1 .. n /\ n \in Nat
      /\ \A k \in 1 .. n : net.conns[k] = d.rows[p[k]]
      /\ \A k \in 1 .. n : /\ net.conns[k].depTime \in Int /\ net.conns[k].arrTime \in Int
                           /\ net.conns[k].depTime <= net.conns[k].arrTime
  BY NetFacts
<1>2. /\ WellFormed(d) /\ ContinuesForward(d) BY NetworkFacts DEF QueryInv, Orderly
<1>3. /\ Len(d.rows) = n /\ p \in [1 .. n -> 1 .. n]
      /\ \A x \in 1 .. n : \E k \in 1 .. n : p[k] = x
      /\ \A k, m \in 1 .. n : k < m => Before(d.rows, p[k], p[m])
  <2>1. Len(d.rows) = n BY NetFacts
  <2> HIDE DEF d, n
  <2>q. QED BY <1>2, <2>1, SortedFacts
<1>4. PICK x, y \in 1 .. n :
        /\ IsLast(d, x) /\ IsFirst(d, y) /\ LinkMatches(l, "stay", d.rows[x], d.rows[y])
        /\ MayStay(d, d.rows[x], d.rows[y]) /\ l \in d.links
  BY <1>1, LoadedLinkFacts
<1>5. PICK a, b \in 1 .. n : p[a] = x /\ p[b] = y BY <1>3
<1>6. net.conns[a] = d.rows[x] /\ net.conns[b] = d.rows[y] BY <1>1, <1>5
<1>7. LinkedAt(l, a, b)
  <2>1. net.conns[a].trip = l.fromTrip /\ net.conns[b].trip = l.toTrip BY <1>4, <1>6 DEF LinkMatches
  <2>q. QED BY <1>4, <1>5, <1>6, <2>1 DEF LinkedAt
<1>8. ASSUME l.fromTrip # l.toTrip, ~(a < b) PROVE FALSE
  <2>1. a # b /\ x # y BY <1>4, <1>6, <1>8 DEF LinkMatches
  <2>2. b < a BY <1>1, <1>8, <2>1
  <2>3. Before(d.rows, y, x) BY <1>3, <1>5, <2>2
  <2>4. d.rows[x].arrTime <= d.rows[y].depTime BY <1>4 DEF MayStay
  <2>5. /\ d.rows[x].depTime \in Int /\ d.rows[x].arrTime \in Int /\ d.rows[y].depTime \in Int
        /\ d.rows[x].depTime <= d.rows[x].arrTime
    BY <1>1, <1>6
  <2> HIDE DEF d, p, n
  <2>6. d.rows[x].depTime = d.rows[y].depTime /\ y < x BY <2>3, <2>4, <2>5 DEF Before
  <2>7. d.rows[x].depTime # d.rows[y].depTime BY <1>1, <1>2, <1>4, <2>4, <2>6 DEF ContinuesForward
  <2>q. QED BY <2>6, <2>7
<1>q. QED BY <1>7, <1>8

\* No connection of the trip comes after its end, none before its beginning.
LEMMA LinkEnds ==
  ASSUME QueryInv, RunsForward(tt), NEW l, NEW a, NEW b, LinkedAt(l, a, b)
  PROVE  /\ \A k \in 1 .. Len(net.conns) : net.conns[k].trip = l.fromTrip => k <= a
         /\ \A k \in 1 .. Len(net.conns) : net.conns[k].trip = l.toTrip => b <= k
         /\ \A k \in 1 .. Len(net.conns) :
              net.conns[k].trip = l.toTrip /\ IsFirst(Directed(tt), Place(Directed(tt).rows)[k]) => k = b
<1> DEFINE d == Directed(tt)
           p == Place(d.rows)
           n == Len(net.conns)
<1>0. /\ a \in 1 .. n /\ b \in 1 .. n /\ n \in Nat /\ DOMAIN d.rows = 1 .. n
      /\ net.conns[a].trip = l.fromTrip /\ net.conns[b].trip = l.toTrip
      /\ IsLast(d, p[a]) /\ IsFirst(d, p[b])
  BY NetFacts DEF LinkedAt
<1>1. ASSUME NEW k \in 1 .. n, net.conns[k].trip = l.fromTrip PROVE k <= a
  <2>1. /\ p[k] \in 1 .. n /\ p[a] \in 1 .. n /\ (a < k <=> p[a] < p[k])
        /\ d.rows[p[k]].trip = d.rows[p[a]].trip
    BY <1>0, <1>1, TripOrder
  <2> HIDE DEF d, p, n
  <2>2. p[k] <= p[a] BY <1>0, <2>1 DEF IsLast, RowsOf
  <2>q. QED BY <1>0, <1>1, <2>1, <2>2
<1>2. ASSUME NEW k \in 1 .. n, net.conns[k].trip = l.toTrip PROVE b <= k
  <2>1. /\ p[k] \in 1 .. n /\ p[b] \in 1 .. n /\ (k < b <=> p[k] < p[b])
        /\ d.rows[p[k]].trip = d.rows[p[b]].trip
    BY <1>0, <1>2, TripOrder
  <2> HIDE DEF d, p, n
  <2>2. p[b] <= p[k] BY <1>0, <2>1 DEF IsFirst, RowsOf
  <2>q. QED BY <1>0, <1>2, <2>1, <2>2
<1>3. ASSUME NEW k \in 1 .. n, net.conns[k].trip = l.toTrip, IsFirst(d, p[k]) PROVE k = b
  <2>1. /\ p[k] \in 1 .. n /\ p[b] \in 1 .. n /\ (b < k <=> p[b] < p[k])
        /\ d.rows[p[k]].trip = d.rows[p[b]].trip
    BY <1>0, <1>3, TripOrder
  <2>2. b <= k BY <1>2, <1>3
  <2> HIDE DEF d, p, n
  <2>3. p[k] <= p[b] BY <1>0, <1>3, <2>1 DEF IsFirst, RowsOf
  <2>q. QED BY <1>0, <1>3, <2>1, <2>2, <2>3
<1>q. QED BY <1>1, <1>2, <1>3

\* When the scan comes to the beginning of a continuation, the trip it
\* continues has been ridden to its end.
LEMMA LinkedTripIsOver ==
  ASSUME TypeInv, OrderInv, RunsForward(tt), NEW i \in todo, \A k \in todo : i <= k, i \in 1 .. Len(net.conns),
         NEW l, NEW a, LinkedAt(l, a, i), a < i, l.fromTrip \in Trips, OnTrip(l.fromTrip)
  PROVE  onboard[l.fromTrip].last = a
<1> DEFINE x == onboard[l.fromTrip].last
           n == Len(net.conns)
<1>1. QueryInv /\ BoardInv /\ PassInv /\ n \in Nat /\ DOMAIN net.conns = 1 .. n BY NetFacts DEF TypeInv
<1>2. /\ x \in 1 .. next - 1 /\ net.conns[x].trip = l.fromTrip /\ next \in 1 .. n + 1
      /\ i \in 1 .. next - 1
  BY <1>1 DEF BoardInv, PassInv
<1>3. a \in 1 .. n /\ net.conns[a].trip = l.fromTrip BY DEF LinkedAt
<1>4. x \in 1 .. n
  <2> HIDE DEF x, n
  <2>q. QED BY <1>1, <1>2
<1>5. x <= a BY <1>1, <1>2, <1>4, LinkEnds
<1>6. a > x => a \in todo \/ a >= next BY <1>1, <1>3 DEF OrderInv
<1>7. a \notin todo BY <1>1, <1>3
<1> HIDE DEF x, n
<1>8. ~(a >= next) BY <1>1, <1>2, <1>3
<1>9. ~(a > x) BY <1>6, <1>7, <1>8
<1>10. x = a BY <1>1, <1>3, <1>4, <1>5, <1>9
<1>q. QED BY <1>10 DEF x

\* Then the rider may stay on board.
LEMMA ContinuationIsOpen ==
  ASSUME QueryInv, NEW i \in 1 .. Len(net.conns), NEW l \in net.links, l.type = "stay", NEW a, LinkedAt(l, a, i),
         OnTrip(l.fromTrip), onboard[l.fromTrip].last = a
  PROVE  Continuations(i) # {}
<1> DEFINE c == net.conns[i]
           d == Directed(tt)
<1>1. /\ LinkMatches(l, "stay", net.conns[a], c) /\ MayStay(d, net.conns[a], c) BY DEF LinkedAt
<1>2. /\ l.toTrip = c.trip /\ l.toStop \in {c.from, Any} /\ l.fromStop \in {Any, net.conns[a].to}
      /\ l.fromTrip = net.conns[a].trip
  BY <1>1 DEF LinkMatches
<1>3. net.conns[a].arrTime <= c.depTime BY <1>1 DEF MayStay
<1>4. ~LinkForbidden(l, c)
  <2>1. SUFFICES ASSUME LinkForbidden(l, c) PROVE FALSE OBVIOUS
  <2>2. PICK f \in net.links : /\ f.type = "leave" /\ f.fromTrip = l.fromTrip /\ f.toTrip = l.toTrip
                               /\ f.fromStop \in {l.fromStop, Any} /\ f.toStop \in {c.from, Any}
    BY <2>1 DEF LinkForbidden
  <2>3. LinkMatches(f, "leave", net.conns[a], c) BY <1>2, <2>2 DEF LinkMatches
  <2>4. net.links \subseteq LoadedLinks(d) BY NetFacts
  <2>5. f \in d.links BY <2>2, <2>4, LoadedLinkFacts
  <2>q. QED BY <1>1, <2>3, <2>5 DEF MayStay
<1>5. onboard[l.fromTrip] # NotBoarded BY DEF OnTrip
<1> DEFINE usable == {k \in net.links :
                   /\ k.type = "stay" /\ k.toTrip = c.trip /\ k.toStop \in {c.from, Any}
                   /\ ~LinkForbidden(k, c)
                   /\ onboard[k.fromTrip] # NotBoarded
                   /\ k.fromStop \in {Any, net.conns[onboard[k.fromTrip].last].to}
                   /\ net.conns[onboard[k.fromTrip].last].arrTime <= c.depTime}
<1>6. l \in usable BY <1>2, <1>3, <1>4, <1>5
<1>7. Continuations(i) = {[board |-> i, legs |-> TransitLabel(onboard[k.fromTrip]).legs, stay |-> TRUE, last |-> i] : k \in usable}
  BY DEF Continuations
<1> HIDE DEF usable
<1>q. QED BY <1>6, <1>7

\* And a rider who does was on board to the end.
LEMMA ContinuationIsFromTheEnd ==
  ASSUME TypeInv, OrderInv, LinkInv, Orderly(tt), Scanning, NEW i, i = MinOf(todo),
         ~Boarded(i), NEW l \in net.links, l.type = "stay", l.toTrip = net.conns[i].trip,
         l.fromTrip \in Trips, OnTrip(l.fromTrip)
  PROVE  LinkedAt(l, onboard[l.fromTrip].last, i)
<1> DEFINE n == Len(net.conns)
<1>1. /\ i \in todo /\ \A k \in todo : i <= k
      /\ i \in group /\ i \in 1 .. next - 1 /\ i \in 1 .. n
  BY VisitedFacts
<1>2. QueryInv /\ RunsForward(tt) /\ n \in Nat /\ DOMAIN net.conns = 1 .. n /\ next \in 1 .. n + 1
  BY NetFacts DEF TypeInv, Orderly, PassInv
<1>3. ~OnTrip(l.toTrip) BY DEF Boarded, OnTrip
<1>4. l.fromTrip # l.toTrip BY <1>3
<1>5. PICK a, b \in 1 .. n : LinkedAt(l, a, b) /\ a < b BY <1>2, <1>4, LinkOrder
<1>6. b \in todo \/ b >= next BY <1>2, <1>3, <1>5 DEF LinkInv, LinkedAt
<1>7. b <= i BY <1>1, <1>2, <1>5, LinkEnds
<1>8. b = i
  <2>1. b \in todo => i <= b BY <1>1
  <2> HIDE DEF n
  <2>q. QED BY <1>1, <1>2, <1>5, <1>6, <1>7, <2>1
<1>9. LinkedAt(l, a, i) /\ a < i BY <1>5, <1>8
<1>10. onboard[l.fromTrip].last = a
  <2> HIDE DEF n
  <2>q. QED BY <1>1, <1>2, <1>9, LinkedTripIsOver DEF n
<1>q. QED BY <1>9, <1>10

\* At first there is nothing to pass by.
LEMMA LinkInit ==
  ASSUME Init
  PROVE  LinkInv
<1>1. onboard = [t \in Trips |-> NotBoarded] /\ tt \in Timetables /\ net = Network(tt) BY DEF Init
<1>2. \A l \in net.links : l.fromTrip \in Trips
  <2>1. net.links \subseteq Links BY <1>1, NetFacts DEF QueryInv
  <2>q. QED BY <2>1 DEF Links
<1>q. QED BY <1>1, <1>2 DEF LinkInv, OnTrip

\* A visit takes away the beginning of a continuation only if that is boarded.
LEMMA LinkVisit ==
  ASSUME TypeInv, LinkInv, NEW i \in 1 .. Len(net.conns), todo' = todo \ {i},
         UNCHANGED <<tt, net, next, onboard>>,
         \A l \in net.links : l.type = "stay" /\ OnTrip(l.fromTrip) /\ ~OnTrip(l.toTrip) =>
           ~(net.conns[i].trip = l.toTrip /\ IsFirst(Directed(tt), Place(Directed(tt).rows)[i]))
  PROVE  LinkInv'
<1>1. SUFFICES ASSUME NEW l \in net.links, l.type = "stay", OnTrip(l.fromTrip), ~OnTrip(l.toTrip),
                      NEW k \in DOMAIN net.conns, net.conns[k].trip = l.toTrip,
                      IsFirst(Directed(tt), Place(Directed(tt).rows)[k])
               PROVE  k \in todo' \/ k >= next'
  BY DEF LinkInv, OnTrip, Directed
<1>2. k \in todo \/ k >= next BY <1>1 DEF LinkInv
<1>3. k # i BY <1>1
<1>q. QED BY <1>2, <1>3

\* Boarding a trip: what continues it is still to come.
LEMMA LinkBoarding ==
  ASSUME TypeInv, GroupInv, OrderInv, LinkInv, Orderly(tt), Scanning, NEW i, i = MinOf(todo), ~Boarded(i),
         NEW s \in States, s.board = i, Ride(i, s)
  PROVE  LinkInv'
<1> DEFINE t == net.conns[i].trip
           n == Len(net.conns)
           d == Directed(tt)
           p == Place(d.rows)
<1>1. /\ i \in todo /\ \A k \in todo : i <= k
      /\ i \in group /\ i \in 1 .. next - 1 /\ i \in 1 .. n
  BY VisitedFacts
<1>2. QueryInv /\ PassInv /\ BoardInv /\ next \in 1 .. n + 1 /\ RunsForward(tt) BY DEF TypeInv, PassInv, Orderly
<1>3. t \in Trips /\ DOMAIN net.conns = 1 .. n /\ n \in Nat /\ net.links \subseteq Links BY <1>1, <1>2, NetFacts
<1>4. /\ onboard' = [onboard EXCEPT ![t] = [s EXCEPT !.last = i]] /\ todo' = todo \ {i}
      /\ next' = next /\ net' = net /\ tt' = tt
  BY DEF Ride, Visit
<1>5. [s EXCEPT !.last = i] # NotBoarded
  <2>1. [s EXCEPT !.last = i].last = i BY DEF States
  <2>2. i # 0 BY <1>1
  <2>q. QED BY <2>1, <2>2 DEF NotBoarded
<1>6. \A u \in Trips : OnTrip(u)' <=> OnTrip(u) \/ u = t BY <1>2, <1>3, <1>4, <1>5 DEF BoardInv, OnTrip
<1>7. SUFFICES ASSUME NEW l \in net.links, l.type = "stay", OnTrip(l.fromTrip)', ~OnTrip(l.toTrip)',
                      NEW k \in 1 .. n, net.conns[k].trip = l.toTrip, IsFirst(d, p[k])
               PROVE  k \in todo' \/ k >= next
  BY <1>3, <1>4 DEF LinkInv, OnTrip, Directed
<1>8. l.fromTrip \in Trips /\ l.toTrip \in Trips BY <1>3 DEF Links
<1>9. ~OnTrip(l.toTrip) /\ l.toTrip # t BY <1>6, <1>7, <1>8
<1>10. k # i BY <1>7, <1>9
<1>11. CASE OnTrip(l.fromTrip)
  <2>1. k \in todo \/ k >= next BY <1>3, <1>7, <1>9, <1>11 DEF LinkInv
  <2>q. QED BY <1>4, <1>10, <2>1
<1>12. CASE l.fromTrip = t
  <2>1. PICK a, b \in 1 .. n : LinkedAt(l, a, b) /\ a < b
    <3>1. l.fromTrip # l.toTrip BY <1>9, <1>12
    <3>q. QED BY <1>2, <1>7, <3>1, LinkOrder
  <2>2. i <= a BY <1>1, <1>2, <1>12, <2>1, LinkEnds
  <2>3. k = b BY <1>2, <1>7, <2>1, LinkEnds
  <2>4. i < k BY <1>1, <1>3, <2>1, <2>2, <2>3
  <2>5. CASE k >= next BY <2>5
  <2>6. CASE ~(k >= next)
    <3>1. k \in i .. next - 1
      <4> HIDE DEF n
      <4>q. QED BY <1>1, <1>2, <1>3, <1>7, <2>4, <2>6
    <3>2. k \in group BY <1>1, <3>1 DEF GroupInv
    <3>3. k \in todo \cup retry BY <1>7, <1>9, <3>2 DEF OrderInv
    <3>4. k \notin retry
      <4>1. \A x \in retry : x < i BY <1>1 DEF OrderInv
      <4> HIDE DEF n
      <4>q. QED BY <1>1, <1>3, <2>4, <4>1
    <3>q. QED BY <1>4, <1>10, <3>3, <3>4
  <2>q. QED BY <2>5, <2>6
<1>q. QED BY <1>6, <1>7, <1>8, <1>11, <1>12

\* A visit does not pass the continuation of a trip by.
LEMMA LinkScanConnection ==
  ASSUME TypeInv, GroupInv, OrderInv, LinkInv, Orderly(tt), ScanConnection
  PROVE  LinkInv'
<1> DEFINE i == MinOf(todo)
           c == net.conns[i]
           d == Directed(tt)
           p == Place(d.rows)
<1>0. Scanning /\ ProcessConnection(i) BY DEF ScanConnection
<1>1. /\ i \in todo /\ \A k \in todo : i <= k
      /\ i \in group /\ i \in 1 .. next - 1 /\ i \in 1 .. Len(net.conns)
  BY <1>0, VisitedFacts
<1>2. QueryInv /\ PassInv /\ BoardInv /\ RunsForward(tt) BY DEF TypeInv, Orderly
<1>3. c.trip \in Trips /\ net.links \subseteq Links BY <1>1, <1>2, NetFacts
<1>4. CASE BeforeBoarding(i)
  <2>1. /\ todo' = todo \ {i} /\ next' = next /\ net' = net /\ onboard' = onboard /\ tt' = tt
    BY <1>4 DEF BeforeBoarding, Visit, scanVars
  <2>2. OnTrip(c.trip) BY <1>4 DEF BeforeBoarding, Boarded, OnTrip
  <2>q. QED BY <1>1, <2>1, <2>2, LinkVisit
<1>5. CASE NotContiguous(i) \/ RuleError(i)
  <2>1. /\ todo' = todo /\ next' = next /\ net' = net /\ onboard' = onboard /\ tt' = tt
    BY <1>5 DEF NotContiguous, RuleError, scanVars, passVars
  <2>q. QED BY <2>1 DEF LinkInv, OnTrip, Directed
<1>6. CASE RideOn(i)
  <2>0. OnTrip(c.trip) /\ Ride(i, onboard[c.trip]) BY <1>6 DEF RideOn, Boarded, OnTrip
  <2>1. /\ onboard' = [onboard EXCEPT ![c.trip] = [onboard[c.trip] EXCEPT !.last = i]] /\ todo' = todo \ {i}
        /\ next' = next /\ net' = net /\ tt' = tt
    BY <2>0 DEF Ride, Visit
  <2>2. \A u \in Trips : OnTrip(u)' => OnTrip(u) BY <1>2, <2>0, <2>1 DEF BoardInv, OnTrip
  <2>3. \A u \in Trips : OnTrip(u) => OnTrip(u)'
    <3>1. onboard[c.trip] \in States BY <1>2, <1>3 DEF BoardInv
    <3>2. [onboard[c.trip] EXCEPT !.last = i].last = i BY <3>1 DEF States
    <3>3. i # 0 BY <1>1
    <3>4. [onboard[c.trip] EXCEPT !.last = i] # NotBoarded BY <3>2, <3>3 DEF NotBoarded
    <3>q. QED BY <1>2, <2>1, <3>4 DEF BoardInv, OnTrip
  <2>4. SUFFICES ASSUME NEW l \in net.links, l.type = "stay", OnTrip(l.fromTrip)', ~OnTrip(l.toTrip)',
                        NEW k \in DOMAIN net.conns, net.conns[k].trip = l.toTrip, IsFirst(d, p[k])
                 PROVE  k \in todo' \/ k >= next
    BY <2>1 DEF LinkInv, OnTrip, Directed
  <2>5. l.fromTrip \in Trips /\ l.toTrip \in Trips BY <1>3 DEF Links
  <2>6. k \in todo \/ k >= next BY <2>2, <2>3, <2>4, <2>5 DEF LinkInv
  <2>7. k # i BY <2>0, <2>3, <2>4, <2>5, <1>3
  <2>q. QED BY <2>1, <2>6, <2>7
<1>7. CASE StayOnboard(i)
  <2>1. PICK s \in Continuations(i) : Ride(i, s) BY <1>7 DEF StayOnboard
  <2>2. s \in States /\ s.board = i BY <1>1, ContinuationFacts
  <2>3. ~Boarded(i) BY <1>7 DEF StayOnboard
  <2>q. QED BY <1>0, <2>1, <2>2, <2>3, LinkBoarding
<1>8. CASE Board(i)
  <2>1. PICK l \in BoardingLabels(c) : Ride(i, [board |-> i, legs |-> l.legs, stay |-> FALSE, last |-> i])
    BY <1>8 DEF Board
  <2> DEFINE s == [board |-> i, legs |-> l.legs, stay |-> FALSE, last |-> i]
  <2>2. s \in States /\ s.board = i BY <1>1, BoardingFacts
  <2>3. ~Boarded(i) BY <1>8 DEF Board, MayBoard
  <2>4. Ride(i, s) BY <2>1
  <2> HIDE DEF s
  <2>q. QED BY <1>0, <2>2, <2>3, <2>4, LinkBoarding
<1>9. CASE NotReachable(i)
  <2>1. /\ todo' = todo \ {i} /\ next' = next /\ net' = net /\ onboard' = onboard /\ tt' = tt
    BY <1>9 DEF NotReachable, Visit, scanVars
  <2>2. Continuations(i) = {} BY <1>9 DEF NotReachable
  <2>3. ASSUME NEW l \in net.links, l.type = "stay", OnTrip(l.fromTrip), ~OnTrip(l.toTrip),
               net.conns[i].trip = l.toTrip, IsFirst(d, p[i])
        PROVE  FALSE
    <3>1. l.fromTrip # l.toTrip /\ l.fromTrip \in Trips BY <1>3, <2>3 DEF Links
    <3>2. PICK a, b \in 1 .. Len(net.conns) : LinkedAt(l, a, b) /\ a < b BY <1>2, <2>3, <3>1, LinkOrder
    <3>3. i = b BY <1>1, <1>2, <2>3, <3>2, LinkEnds
    <3>4. LinkedAt(l, a, i) /\ a < i BY <3>2, <3>3
    <3>5. onboard[l.fromTrip].last = a
      <4> HIDE DEF i
      <4>q. QED BY <1>1, <1>2, <2>3, <3>1, <3>4, LinkedTripIsOver
    <3>6. Continuations(i) # {}
      <4> HIDE DEF i
      <4>q. QED BY <1>1, <1>2, <2>3, <3>4, <3>5, ContinuationIsOpen
    <3>q. QED BY <2>2, <3>6
  <2>4. i \in 1 .. Len(net.conns) BY <1>1
  <2> HIDE DEF i
  <2>q. QED BY <2>1, <2>3, <2>4, LinkVisit
<1>q. QED BY <1>0, <1>4, <1>5, <1>6, <1>7, <1>8, <1>9 DEF ProcessConnection

\* Where continuations run forward, no step passes one by.
LEMMA LinkStep ==
  ASSUME TypeInv, GroupInv, OrderInv, LinkInv, Orderly(tt), [Next]_vars
  PROVE  LinkInv'
<1>1. CASE UNCHANGED <<tt, net, onboard, passVars>>
  <2>1. /\ todo' = todo /\ next' = next /\ net' = net /\ onboard' = onboard /\ tt' = tt BY <1>1 DEF passVars
  <2>q. QED BY <2>1 DEF LinkInv, OnTrip, Directed
<1>2. CASE RelaxWalk BY <1>1, <1>2 DEF RelaxWalk
<1>3. CASE Finish \/ Cancel \/ UNCHANGED vars BY <1>1, <1>3 DEF Finish, Cancel, vars, scanVars
<1>4. CASE NextPass \/ NextGroup
  <2> DEFINE n == Len(net.conns)
  <2>0. QueryInv /\ PassInv BY DEF TypeInv
  <2>1. tt' = tt /\ net' = net /\ onboard' = onboard /\ todo = {}
    BY <1>4 DEF NextPass, NextGroup, PassOver, scanVars
  <2>2. ASSUME NEW k \in DOMAIN net.conns, k >= next PROVE k \in todo' \/ k >= next'
    <3>1. CASE NextPass BY <2>2, <3>1 DEF NextPass
    <3>2. CASE NextGroup
      <4> DEFINE a == next
                 b == next'
                 g == todo'
      <4>1. a \in 1 .. n /\ b \in a + 1 .. n + 1 /\ g = a .. b - 1
        BY <2>0, <3>2, NextGroupFacts
      <4>2. n \in Nat /\ k \in 1 .. n /\ k >= a BY <2>0, <2>2, NetFacts
      <4> HIDE DEF a, b, g, n
      <4>3. k \in g \/ k >= b BY <4>1, <4>2
      <4>q. QED BY <4>3 DEF g, b
    <3>q. QED BY <1>4, <3>1, <3>2
  <2>3. \A l \in net.links : l.type = "stay" /\ OnTrip(l.fromTrip) /\ ~OnTrip(l.toTrip) =>
          \A k \in DOMAIN net.conns :
            net.conns[k].trip = l.toTrip /\ IsFirst(Directed(tt), Place(Directed(tt).rows)[k]) => k >= next
    BY <2>1 DEF LinkInv
  <2>q. QED BY <2>1, <2>2, <2>3 DEF LinkInv, OnTrip, Directed
<1>q. QED BY <1>2, <1>3, <1>4, LinkScanConnection DEF Next, Step

(***************************************************************************)
(* Paths.                                                                  *)
(***************************************************************************)

\* The legs of a journey that is one leg longer.
LEMMA AppendFacts ==
  ASSUME NEW legs \in Seq(Legs), NEW g \in Legs
  PROVE  LET new == Append(legs, g)
             n == Len(legs)
         IN  /\ n \in Nat /\ new \in Seq(Legs) /\ Len(new) = n + 1
             /\ DOMAIN legs = 1 .. n /\ DOMAIN new = 1 .. n + 1
             /\ \A k \in 1 .. n : new[k] = legs[k] /\ legs[k] \in Legs
             /\ new[n + 1] = g
OBVIOUS

\* The ride before a change is the same one with a leg after it.
LEMMA LastRideOfLonger ==
  ASSUME NEW legs \in Seq(Legs), NEW g \in Legs, NEW n \in 0 .. Len(legs), NEW j
  PROVE  LastRide(Append(legs, g), n, j) <=> LastRide(legs, n, j)
<1>1. \A k \in 1 .. n : Append(legs, g)[k] = legs[k] BY AppendFacts
<1>2. ASSUME NEW i \in 1 .. n
      PROVE  LastRide(Append(legs, g), n, i) <=> LastRide(legs, n, i)
  <2>1. \A m \in i + 1 .. n : m \in 1 .. n BY <1>2
  <2>q. QED BY <1>1, <1>2, <2>1 DEF LastRide
<1>3. CASE j \in 1 .. n BY <1>2, <1>3
<1>4. CASE j \notin 1 .. n BY <1>4 DEF LastRide
<1>q. QED BY <1>3, <1>4

\* A leg that is sound stays so when another follows.
LEMMA SoundLegBefore ==
  ASSUME NEW q, NEW legs \in Seq(Legs), NEW g \in Legs, NEW k \in 1 .. Len(legs),
         LegIsSound(q, legs, g.stay, FALSE, k), NEW open \in BOOLEAN, NEW ended \in BOOLEAN
  PROVE  LegIsSound(q, Append(legs, g), open, ended, k)
<1> DEFINE new == Append(legs, g)
           n == Len(legs)
<1>1. /\ n \in Nat /\ Len(new) = n + 1 /\ new[n + 1] = g
      /\ \A m \in 1 .. n : new[m] = legs[m] /\ legs[m] \in Legs
  BY AppendFacts
<1>2. new[k] = legs[k] BY <1>1
<1>3. k > 1 => k - 1 \in 1 .. n /\ new[k - 1] = legs[k - 1] BY <1>1
<1>4. Continued(new, open, k) = Continued(legs, g.stay, k)
  <2>1. CASE k = n BY <1>1, <2>1 DEF Continued
  <2>2. CASE k # n
    <3>1. k + 1 \in 1 .. n /\ k # n + 1 BY <1>1, <2>2
    <3>2. new[k + 1] = legs[k + 1] BY <1>1, <3>1
    <3>3. Continued(legs, g.stay, k) = legs[k + 1].stay BY <2>2 DEF Continued
    <3>4. Continued(new, open, k) = new[k + 1].stay BY <1>1, <3>1 DEF Continued
    <3>q. QED BY <3>2, <3>3, <3>4
  <2>q. QED BY <2>1, <2>2
<1>5. \A j : LastRide(new, k - 1, j) <=> LastRide(legs, k - 1, j)
  <2>1. k - 1 \in 0 .. Len(legs) BY <1>1
  <2>q. QED BY <2>1, LastRideOfLonger
<1>6. \A j \in 1 .. k - 1 : new[j] = legs[j] BY <1>1
<1> HIDE DEF new
<1>7. new[k].kind = "access" =>
       /\ new[k].from = new[k].to /\ ~new[k].stay
       /\ k = 1 /\ [stop |-> new[k].to, walk |-> new[k].arr - new[k].dep] \in q.sources
  BY <1>2 DEF LegIsSound
<1>8. new[k].kind = "walk" =>
       /\ ~new[k].stay
       /\ [from |-> new[k].from, to |-> new[k].to, secs |-> new[k].arr - new[k].dep] \in q.walk
  BY <1>2 DEF LegIsSound
<1>9. new[k].kind = "ride" => RideIsReal(q, new, open, k)
  BY <1>2, <1>4 DEF LegIsSound, RideIsReal
<1>10. new[k].stay => StayIsReal(q, new, k)
  BY <1>2, <1>3 DEF LegIsSound, StayIsReal
<1>11. k > 1 => LegsMeet(new, k) BY <1>2, <1>3 DEF LegIsSound, LegsMeet
<1>12. k > 1 => ChangeIsMade(q, new, k)
  BY <1>2, <1>5, <1>6 DEF LegIsSound, ChangeIsMade
<1>13. new[k].kind = "access" =>
       /\ new[k].from = new[k].to /\ ~new[k].stay
       /\ \/ k = 1 /\ [stop |-> new[k].to, walk |-> new[k].arr - new[k].dep] \in q.sources
          \/ /\ ended /\ k = Len(new)
             /\ [stop |-> new[k].from, walk |-> new[k].arr - new[k].dep] \in q.targets
  BY <1>7
<1>14. LegIsSound(q, new, open, ended, k)
  BY <1>8, <1>9, <1>10, <1>11, <1>12, <1>13, Zenon DEF LegIsSound
<1>q. QED BY <1>14 DEF new

\* A path and a sound leg after it are a path.
LEMMA PathAppend ==
  ASSUME NEW q, NEW legs \in Seq(Legs), NEW g \in Legs, NEW open \in BOOLEAN, NEW ended \in BOOLEAN,
         Path(q, legs, g.stay, FALSE), LegIsSound(q, Append(legs, g), open, ended, Len(legs) + 1)
  PROVE  Path(q, Append(legs, g), open, ended)
<1>1. SUFFICES ASSUME NEW k \in DOMAIN Append(legs, g) PROVE LegIsSound(q, Append(legs, g), open, ended, k)
  BY DEF Path
<1>2. k \in 1 .. Len(legs) + 1 /\ DOMAIN legs = 1 .. Len(legs) /\ Len(legs) \in Nat BY AppendFacts
<1>3. CASE k = Len(legs) + 1 BY <1>3
<1>4. CASE k \in 1 .. Len(legs)
  <2>1. LegIsSound(q, legs, g.stay, FALSE, k) BY <1>2, <1>4 DEF Path
  <2>q. QED BY <1>4, <2>1, SoundLegBefore
<1>q. QED BY <1>2, <1>3, <1>4

\* Walking on from where a label is.
LEMMA WalkIsSound ==
  ASSUME NEW q \in Queries, NEW l \in LabelSet, SoundLabel(q, l), l.arrival >= q.at,
         NEW e \in q.walk, e \in Edges, e.from = l.stop
  PROVE  SoundLabel(q, WalkedLabel(l, e))
<1> DEFINE g == Leg("walk", Any, l.stop, e.to, l.arrival, l.arrival + e.secs, FALSE)
           w == WalkedLabel(l, e)
           n == Len(l.legs)
           new == Append(l.legs, g)
<1>1. /\ w.stop = e.to /\ w.arrival = l.arrival + e.secs
      /\ w.alight = l.alight /\ w.ctx = l.ctx /\ w.legs = new /\ g \in Legs
  BY WalkedLabelFacts
<1>2. /\ l.legs \in Seq(Legs) /\ l.arrival \in Int /\ e.secs \in Int BY DEF LabelSet, Edges
<1>3. /\ g.kind = "walk" /\ g.from = l.stop /\ g.to = e.to /\ g.dep = l.arrival
      /\ g.arr = l.arrival + e.secs /\ g.stay = FALSE
  BY DEF Leg
<1>4. /\ n \in Nat /\ Len(new) = n + 1 /\ DOMAIN new = 1 .. n + 1 /\ new[n + 1] = g
      /\ DOMAIN l.legs = 1 .. n
      /\ \A k \in 1 .. n : new[k] = l.legs[k] /\ l.legs[k] \in Legs
  <2> DEFINE x == l.legs
  <2>1. x \in Seq(Legs) /\ g \in Legs BY <1>1, <1>2
  <2> HIDE DEF x, g
  <2>q. QED BY <2>1, AppendFacts DEF x
<1>5. [from |-> g.from, to |-> g.to, secs |-> g.arr - g.dep] = e
  <2>1. g.arr - g.dep = e.secs
    <3> HIDE DEF g
    <3>q. QED BY <1>2, <1>3
  <2>2. e = [from |-> e.from, to |-> e.to, secs |-> e.secs] BY DEF Edges
  <2> HIDE DEF g
  <2>q. QED BY <1>3, <2>1, <2>2
<1>6. n # 0 => /\ n \in 1 .. n /\ 1 \in 1 .. n /\ l.legs # <<>> BY <1>4
<1>7. n = 0 => l.legs = <<>> BY <1>2
<1> HIDE DEF g, w, n
<1>8. LegIsSound(q, new, FALSE, FALSE, n + 1)
  <2>1. n + 1 > 1 => LegsMeet(new, n + 1)
    <3>1. SUFFICES ASSUME n # 0 PROVE LegsMeet(new, n + 1) BY <1>4
    <3>2. l.legs[n].to = l.stop /\ l.legs[n].arr = l.arrival BY <1>6, <3>1 DEF SoundLabel, n
    <3>3. new[n] = l.legs[n] /\ (n + 1) - 1 = n BY <1>4, <1>6, <3>1
    <3> HIDE DEF new
    <3>q. QED BY <1>2, <1>3, <1>4, <3>2, <3>3 DEF LegsMeet
  <2>2. ChangeIsMade(q, new, n + 1) BY <1>3, <1>4 DEF ChangeIsMade
  <2>q. QED BY <1>3, <1>4, <1>5, <2>1, <2>2 DEF LegIsSound
<1>9. Path(q, new, FALSE, FALSE)
  <2>1. Path(q, l.legs, FALSE, FALSE) BY DEF SoundLabel
  <2>q. QED BY <1>1, <1>2, <1>3, <1>8, <2>1, PathAppend DEF n
<1>10. SetsOut(q, new[1])
  <2>1. CASE n = 0
    <3>1. PICK s \in q.sources : s.stop = l.stop /\ s.walk = 0 BY <1>7, <2>1 DEF SoundLabel
    <3>2. new[1] = g BY <1>4, <2>1
    <3>q. QED BY <1>3, <3>1, <3>2 DEF SetsOut, EndsAt
  <2>2. CASE n # 0 BY <1>4, <1>6, <2>2 DEF SoundLabel
  <2>q. QED BY <2>1, <2>2
<1>11. ASSUME NEW j \in DOMAIN new, LastRide(new, Len(new), j), q.rules # <<>>
       PROVE  l.ctx = [trip |-> new[j].trip, fromStop |-> new[j].to] /\ l.alight = new[j].arr
  <2>1. j # n + 1 BY <1>3, <1>4, <1>11 DEF LastRide
  <2>2. j \in 1 .. n BY <1>4, <2>1
  <2>3. LastRide(new, n, j) BY <1>4, <1>11, <2>2 DEF LastRide
  <2>4. LastRide(l.legs, n, j)
    <3>1. n \in 0 .. Len(l.legs) BY <1>4 DEF n
    <3>q. QED BY <1>1, <1>2, <2>3, <3>1, LastRideOfLonger
  <2>5. j \in DOMAIN l.legs /\ LastRide(l.legs, Len(l.legs), j) BY <1>4, <2>2, <2>4 DEF n
  <2>6. l.ctx = [trip |-> l.legs[j].trip, fromStop |-> l.legs[j].to] /\ l.alight = l.legs[j].arr
    BY <1>11, <2>5 DEF SoundLabel
  <2>q. QED BY <1>4, <2>2, <2>6
<1>12. w.legs # <<>> BY <1>1, <1>4
<1>13. new[Len(new)].to = w.stop /\ new[Len(new)].arr = w.arrival BY <1>1, <1>3, <1>4
<1>14. SoundLabel(q, w) BY <1>1, <1>9, <1>10, <1>11, <1>12, <1>13, Zenon DEF SoundLabel
<1>q. QED BY <1>14 DEF w

\* Where a query starts.
LEMMA SeedIsSound ==
  ASSUME QueryInv, NEW e \in net.sources
  PROVE  SoundLabel(Directed(tt), SeedLabel(net, e))
<1> DEFINE q == Directed(tt)
           l == SeedLabel(net, e)
           g == Leg("access", Any, e.stop, e.stop, net.start, net.start + e.walk, FALSE)
<1>1. /\ l \in LabelSet /\ l.stop = e.stop /\ l.arrival = net.start + e.walk
      /\ l.legs = (IF e.walk = 0 THEN <<>> ELSE <<g>>) /\ g \in Legs
  BY SeedLabelFacts
<1>2. /\ net.sources = q.sources /\ net.start = q.at /\ net.start \in Int /\ e \in Endpoints BY NetFacts
<1>3. e = [stop |-> e.stop, walk |-> e.walk] /\ e.walk \in Nat BY <1>2 DEF Endpoints
<1>4. /\ g.kind = "access" /\ g.from = e.stop /\ g.to = e.stop /\ g.dep = net.start
      /\ g.arr = net.start + e.walk /\ g.stay = FALSE
  BY DEF Leg
<1> HIDE DEF q, l, g
<1>5. g.arr - g.dep = e.walk BY <1>2, <1>3, <1>4
<1>6. CASE e.walk = 0
  <2>1. l.legs = <<>> BY <1>1, <1>6
  <2>2. \A k : k \notin DOMAIN l.legs BY <2>1
  <2>q. QED BY <1>1, <1>2, <1>6, <2>1, <2>2 DEF SoundLabel, Path, q, l
<1>7. CASE e.walk # 0
  <2>1. l.legs = <<g>> /\ l.legs # <<>> /\ Len(l.legs) = 1 /\ l.legs[1] = g /\ DOMAIN l.legs = {1}
    BY <1>1, <1>7
  <2>2. [stop |-> g.to, walk |-> g.arr - g.dep] \in q.sources BY <1>2, <1>3, <1>4, <1>5
  <2>3. LegIsSound(q, l.legs, FALSE, FALSE, 1)
    <3> DEFINE x == l.legs
    <3>1. x[1] = g BY <2>1
    <3> HIDE DEF x
    <3>2. /\ x[1].kind = "access" /\ x[1].from = x[1].to /\ ~x[1].stay
          /\ [stop |-> x[1].to, walk |-> x[1].arr - x[1].dep] \in q.sources
      BY <1>4, <2>2, <3>1
    <3>3. x[1].kind # "walk" /\ x[1].kind # "ride" /\ ~(1 > 1) BY <3>2
    <3>4. LegIsSound(q, x, FALSE, FALSE, 1) BY <3>2, <3>3, Zenon DEF LegIsSound
    <3>q. QED BY <3>4 DEF x
  <2>4. SetsOut(q, g)
    <3>1. e \in q.sources BY <1>2
    <3>q. QED BY <1>2, <1>4, <1>5, <3>1 DEF SetsOut, EndsAt
  <2>5. \A j \in DOMAIN l.legs : ~LastRide(l.legs, Len(l.legs), j) BY <1>4, <2>1 DEF LastRide
  <2>q. QED BY <1>1, <1>4, <2>1, <2>3, <2>4, <2>5 DEF SoundLabel, Path, q, l
<1>q. QED BY <1>6, <1>7

\* The ride so far is a leg that can follow the legs before it; the rider gets
\* off there, or is to stay on board at the end of the trip.
LEMMA RideIsSound ==
  ASSUME QueryInv, NEW s \in States, s.board \in 1 .. Len(net.conns), s.last \in 1 .. Len(net.conns),
         net.conns[s.board].trip = net.conns[s.last].trip, SoundState(Directed(tt), s), NEW open \in BOOLEAN,
         IF open THEN IsLast(Directed(tt), Place(Directed(tt).rows)[s.last])
                 ELSE Allowed(Directed(tt), net.conns[s.last].dropOff)
  PROVE  /\ Path(Directed(tt), Append(s.legs, RideLeg(s)), open, FALSE)
         /\ SetsOut(Directed(tt), Append(s.legs, RideLeg(s))[1])
<1> DEFINE q == Directed(tt)
           p == Place(q.rows)
           g == RideLeg(s)
           n == Len(s.legs)
           new == Append(s.legs, g)
           b == p[s.board]
           e == p[s.last]
<1>1. /\ b \in DOMAIN q.rows /\ e \in DOMAIN q.rows
      /\ net.conns[s.board] = q.rows[b] /\ net.conns[s.last] = q.rows[e]
      /\ q.rows[b].depTime \in Int /\ q.rows[e].arrTime \in Int
  BY NetFacts
<1>2. /\ g \in Legs /\ g.kind = "ride" /\ g.trip = q.rows[b].trip /\ g.from = q.rows[b].from
      /\ g.to = q.rows[e].to /\ g.dep = q.rows[b].depTime /\ g.arr = q.rows[e].arrTime
      /\ g.stay = s.stay
  BY <1>1, TransitLabelFacts
<1>3. q.rows[b].trip = q.rows[e].trip BY <1>1
<1>4. SoundBoarding(q, s, b) /\ Ridden(q, b, e) BY DEF SoundState
<1>5. IF open THEN IsLast(q, e) ELSE Allowed(q, q.rows[e].dropOff) BY <1>1
<1>6. s.legs \in Seq(Legs) /\ s.stay \in BOOLEAN BY DEF States
<1> HIDE DEF q, p, b, e, g
<1>7. /\ n \in Nat /\ Len(new) = n + 1 /\ DOMAIN new = 1 .. n + 1 /\ new[n + 1] = g
      /\ DOMAIN s.legs = 1 .. n
      /\ \A k \in 1 .. n : new[k] = s.legs[k] /\ s.legs[k] \in Legs
  BY <1>2, <1>6, AppendFacts
<1>8. n # 0 => n \in 1 .. n /\ 1 \in 1 .. n /\ s.legs # <<>> /\ new[n] = s.legs[n] /\ new[1] = s.legs[1]
  BY <1>7
<1>9. n = 0 => s.legs = <<>> /\ new[1] = g BY <1>6, <1>7
<1>10. (n + 1) - 1 = n /\ (n + 1 > 1 => n # 0) /\ n \in 0 .. Len(s.legs) BY <1>7
<1> HIDE DEF new
<1>11. RideIsReal(q, new, open, n + 1)
  <2>1. RideOf(q, g, b, e)
    BY <1>2, <1>3, <1>4 DEF RideOf, Ridden
  <2>2. IF g.stay THEN IsFirst(q, b) ELSE Allowed(q, q.rows[b].pickup)
    BY <1>2, <1>4 DEF SoundBoarding, StayJoins
  <2>3. Continued(new, open, n + 1) = open BY <1>7 DEF Continued
  <2>q. QED BY <1>1, <1>5, <1>7, <2>1, <2>2, <2>3 DEF RideIsReal
<1>12. g.stay => StayIsReal(q, new, n + 1)
  <2>1. SUFFICES ASSUME s.stay PROVE StayIsReal(q, new, n + 1) BY <1>2
  <2>2. s.legs # <<>> /\ \E a \in DOMAIN q.rows : StayJoins(q, s.legs[n], a, b)
    BY <1>4, <2>1 DEF SoundBoarding
  <2>3. n # 0 BY <1>9, <2>2
  <2>4. n + 1 > 1 BY <1>7, <2>3
  <2>q. QED BY <1>1, <1>2, <1>7, <1>8, <1>10, <2>2, <2>3, <2>4 DEF StayIsReal
<1>13. n + 1 > 1 => LegsMeet(new, n + 1)
  <2>1. SUFFICES ASSUME n # 0 PROVE LegsMeet(new, n + 1) BY <1>10
  <2>2. s.legs # <<>> /\ new[n] = s.legs[n] BY <1>8, <2>1
  <2>3. CASE s.stay
    <3>1. PICK a \in DOMAIN q.rows : StayJoins(q, s.legs[n], a, b) BY <1>4, <2>3 DEF SoundBoarding
    <3>2. s.legs[n].arr <= q.rows[b].depTime BY <3>1 DEF StayJoins, MayStay
    <3>q. QED BY <1>2, <1>7, <1>10, <2>2, <2>3, <3>2 DEF LegsMeet
  <2>4. CASE ~s.stay
    <3>1. s.legs[n].to = q.rows[b].from /\ s.legs[n].arr <= q.rows[b].depTime
      BY <1>4, <2>2, <2>4 DEF SoundBoarding
    <3>q. QED BY <1>2, <1>7, <1>10, <2>2, <3>1 DEF LegsMeet
  <2>q. QED BY <1>6, <2>3, <2>4
<1>14. ChangeIsMade(q, new, n + 1)
  <2>1. SUFFICES ASSUME ~s.stay, NEW j \in 1 .. n, LastRide(new, n, j)
                 PROVE  ChangeOf(q, new[j], g.trip, g.from, g.dep)
    BY <1>2, <1>7, <1>10 DEF ChangeIsMade
  <2>2. LastRide(s.legs, n, j) BY <1>2, <1>6, <1>10, <2>1, LastRideOfLonger DEF new
  <2>3. ChangeOf(q, s.legs[j], q.rows[b].trip, q.rows[b].from, q.rows[b].depTime)
    BY <1>4, <1>7, <2>1, <2>2 DEF SoundBoarding
  <2>q. QED BY <1>2, <1>7, <2>3
<1>15. LegIsSound(q, new, open, FALSE, n + 1)
  <2>1. new[n + 1].kind = "ride" BY <1>2, <1>7
  <2>2. new[n + 1].kind # "access" /\ new[n + 1].kind # "walk" BY <2>1
  <2>3. new[n + 1].stay => StayIsReal(q, new, n + 1) BY <1>7, <1>12
  <2>q. QED BY <1>11, <1>13, <1>14, <2>2, <2>3, Zenon DEF LegIsSound
<1>16. Path(q, new, open, FALSE)
  <2>1. Path(q, s.legs, g.stay, FALSE) BY <1>2, <1>4 DEF SoundBoarding
  <2>q. QED BY <1>2, <1>6, <1>15, <2>1, PathAppend DEF new
<1>17. SetsOut(q, new[1])
  <2>1. CASE n # 0 BY <1>4, <1>8, <2>1 DEF SoundBoarding
  <2>2. CASE n = 0
    <3>1. ~s.stay BY <1>4, <1>9, <2>2 DEF SoundBoarding
    <3>2. \E o \in q.sources : o.stop = q.rows[b].from /\ o.walk = 0 BY <1>4, <1>9, <2>2, <3>1 DEF SoundBoarding
    <3>3. q.rows[b].depTime >= q.at BY <1>4 DEF SoundBoarding
    <3>q. QED BY <1>2, <1>9, <2>2, <3>2, <3>3 DEF SetsOut, EndsAt
  <2>q. QED BY <2>1, <2>2
<1>q. QED BY <1>16, <1>17 DEF new, g, q

\* Getting off.
LEMMA TransitIsSound ==
  ASSUME QueryInv, NEW s \in States, s.board \in 1 .. Len(net.conns), s.last \in 1 .. Len(net.conns),
         net.conns[s.board].trip = net.conns[s.last].trip, SoundState(Directed(tt), s),
         Allowed(Directed(tt), net.conns[s.last].dropOff)
  PROVE  SoundLabel(Directed(tt), TransitLabel(s))
<1> DEFINE q == Directed(tt)
           g == RideLeg(s)
           n == Len(s.legs)
           new == Append(s.legs, g)
           l == TransitLabel(s)
           x == net.conns[s.last]
<1>1. Path(q, new, FALSE, FALSE) /\ SetsOut(q, new[1])
  BY RideIsSound
<1>2. /\ l.stop = x.to /\ l.arrival = x.arrTime /\ l.alight = x.arrTime
      /\ net.rules # <<>> => l.ctx = [trip |-> x.trip, fromStop |-> x.to]
      /\ l.legs = new /\ g \in Legs /\ g.kind = "ride" /\ g.trip = x.trip /\ g.to = x.to /\ g.arr = x.arrTime
  BY TransitLabelFacts
<1>3. net.rules = q.rules BY NetFacts
<1>4. s.legs \in Seq(Legs) BY DEF States
<1> HIDE DEF q, g, l, x
<1>5. /\ n \in Nat /\ Len(new) = n + 1 /\ DOMAIN new = 1 .. n + 1 /\ new[n + 1] = g
  BY <1>2, <1>4, AppendFacts
<1> HIDE DEF new
<1>6. ASSUME NEW j \in DOMAIN new, LastRide(new, Len(new), j), q.rules # <<>>
      PROVE  l.ctx = [trip |-> new[j].trip, fromStop |-> new[j].to] /\ l.alight = new[j].arr
  <2>1. CASE j = n + 1 BY <1>2, <1>3, <1>5, <1>6, <2>1
  <2>2. CASE j # n + 1
    <3>1. n + 1 \in j + 1 .. Len(new) BY <1>5, <2>2
    <3>2. new[n + 1].kind # "ride" BY <1>6, <3>1 DEF LastRide
    <3>q. QED BY <1>2, <1>5, <3>2
  <2>q. QED BY <2>1, <2>2
<1>7. l.legs # <<>> /\ l.legs[Len(l.legs)].to = l.stop /\ l.legs[Len(l.legs)].arr = l.arrival
  <2>1. new # <<>>
    <3>1. 1 \in DOMAIN new BY <1>5
    <3>q. QED BY <3>1
  <2>q. QED BY <1>2, <1>5, <2>1
<1>8. SoundLabel(q, l)
  <2>1. Path(q, l.legs, FALSE, FALSE) /\ SetsOut(q, l.legs[1]) BY <1>1, <1>2
  <2>2. \A j \in DOMAIN l.legs : LastRide(l.legs, Len(l.legs), j) /\ q.rules # <<>> =>
          l.ctx = [trip |-> l.legs[j].trip, fromStop |-> l.legs[j].to] /\ l.alight = l.legs[j].arr
    BY <1>2, <1>6
  <2>q. QED BY <1>7, <2>1, <2>2, Zenon DEF SoundLabel
<1>q. QED BY <1>8 DEF q, l

\* Boarding where a label is.
LEMMA BoardingIsSound ==
  ASSUME TypeInv, GroupInv, NEW i \in group, i \in 1 .. Len(net.conns), NEW l \in BoardingLabels(net.conns[i]),
         SoundLabel(Directed(tt), l), ~RulesConflict(net.conns[i]), Allowed(Directed(tt), net.conns[i].pickup)
  PROVE  SoundBoarding(Directed(tt), [board |-> i, legs |-> l.legs, stay |-> FALSE, last |-> i],
                       Place(Directed(tt).rows)[i])
<1> DEFINE q == Directed(tt)
           b == Place(q.rows)[i]
           c == net.conns[i]
           s == [board |-> i, legs |-> l.legs, stay |-> FALSE, last |-> i]
           ms == RulesFor(l, c)
<1>1. QueryInv BY DEF TypeInv
<1>2. /\ c = q.rows[b] /\ c.depTime \in Int /\ c.depTime < Infinity /\ Infinity \in Int
      /\ net.rules = q.rules /\ net.rules \in Seq(Rules) /\ net.start = q.at
      /\ c.trip \in Trips
  <2>1. /\ c = q.rows[b] /\ c.depTime \in Int /\ c.arrTime \in Int /\ c.depTime <= c.arrTime
        /\ c.arrTime < Infinity /\ Infinity \in Int
        /\ net.rules = q.rules /\ net.rules \in Seq(Rules) /\ net.start = q.at /\ c.trip \in Trips
    BY <1>1, NetFacts
  <2> HIDE DEF c, q, b
  <2>q. QED BY <2>1
<1>3. /\ l \in labels /\ l \in LabelSet /\ l.stop = c.from /\ BoardingReady(l, c) <= c.depTime
  BY BoardingFacts
<1>4. c.depTime >= q.at BY <1>2 DEF GroupInv
<1>5. ~Conflicting(net.rules, ms) BY <1>3 DEF RulesConflict, LabelsAt
<1>6. ms \subseteq DOMAIN net.rules BY DEF RulesFor, MatchingRules
<1>7. l.arrival \in Int /\ l.alight \in Int /\ l.legs \in Seq(Legs) BY <1>3 DEF LabelSet
<1>8. l.arrival <= c.depTime /\ RulesAllow(net.rules, ms, l.alight, c.depTime)
  <2>1. ReadyBy(net.rules, ms, l.arrival, l.alight) <= c.depTime BY <1>3 DEF BoardingReady
  <2> HIDE DEF c, ms
  <2>q. QED BY <1>2, <1>5, <1>6, <1>7, <2>1, ReadyIsAllowed
<1>9. ASSUME NEW j \in DOMAIN l.legs, LastRide(l.legs, Len(l.legs), j)
      PROVE  ChangeOf(q, l.legs[j], c.trip, c.from, c.depTime)
  <2>1. CASE q.rules = <<>>
    <3>1. MatchingRules(q.rules, l.legs[j].trip, l.legs[j].to, c.trip, c.from) = {}
      BY <2>1 DEF MatchingRules
    <3>q. QED BY <3>1 DEF ChangeOf, RulesAllow
  <2>2. CASE q.rules # <<>>
    <3>1. l.ctx = [trip |-> l.legs[j].trip, fromStop |-> l.legs[j].to] /\ l.alight = l.legs[j].arr
      BY <1>9, <2>2 DEF SoundLabel
    <3>2. l.legs[j].trip \in Trips
      <4>1. RideIsReal(q, l.legs, FALSE, j) BY <1>9 DEF SoundLabel, Path, LegIsSound, LastRide
      <4>2. PICK x \in DOMAIN q.rows : q.rows[x].trip = l.legs[j].trip BY <4>1 DEF RideIsReal, RideOf
      <4>3. WellFormed(q) BY <1>1, NetworkFacts DEF QueryInv
      <4>4. q.rows[x] \in Rows
        <5> HIDE DEF q
        <5>q. QED BY <4>2, <4>3 DEF WellFormed, Queries
      <4>q. QED BY <4>2, <4>4 DEF Rows
    <3>3. l.ctx # NoContext
      <4>1. l.legs[j].trip # Any BY <3>2, ConstantsAssumption
      <4>q. QED BY <3>1, <4>1 DEF NoContext
    <3>4. ms = MatchingRules(q.rules, l.legs[j].trip, l.legs[j].to, c.trip, c.from)
      BY <1>2, <3>1, <3>3 DEF RulesFor
    <3> HIDE DEF ms, c, q
    <3>q. QED BY <1>2, <1>8, <3>1, <3>4 DEF ChangeOf
  <2>q. QED BY <2>1, <2>2
<1>10. IF l.legs = <<>> THEN \E o \in q.sources : o.stop = c.from /\ o.walk = 0
       ELSE /\ SetsOut(q, l.legs[1])
            /\ l.legs[Len(l.legs)].to = c.from /\ l.legs[Len(l.legs)].arr <= c.depTime
  BY <1>3, <1>8 DEF SoundLabel
<1>11. Path(q, l.legs, FALSE, FALSE) /\ Allowed(q, c.pickup) BY DEF SoundLabel
<1>12. SoundBoarding(q, s, b)
  <2>1. s.legs = l.legs /\ s.stay = FALSE OBVIOUS
  <2> HIDE DEF s, q, b, c
  <2>q. QED BY <1>2, <1>4, <1>9, <1>10, <1>11, <2>1, Zenon DEF SoundBoarding
<1>q. QED BY <1>12

\* The labels the sources start with are sound.
LEMMA SoundInit ==
  ASSUME Init
  PROVE  SoundInv
<1> DEFINE q == Directed(tt)
<1>1. QueryInv BY DEF Init, QueryInv
<1>2. \A l \in labels : SoundLabel(q, l)
  <2>1. \A l \in labels : \E e \in net.sources : l = SeedLabel(net, e) BY DEF Init
  <2>q. QED BY <1>1, <2>1, SeedIsSound
<1>3. queue = labels BY DEF Init
<1>4. \A t \in Trips : ~OnTrip(t)
  <2>1. onboard = [t \in Trips |-> NotBoarded] BY DEF Init
  <2>q. QED BY <2>1 DEF OnTrip
<1>5. Found => target.label \in labels
  <2> DEFINE ends == {[total |-> l.arrival + e.walk, label |-> l, egress |-> e] :
                        l \in labels, e \in net.targets}
             here == {t \in ends : t.label.stop = t.egress.stop /\ t.total < Infinity}
  <2>1. target \in IF here = {} THEN {NoTarget} ELSE {t \in here : \A u \in here : t.total <= u.total}
    BY DEF Init
  <2>2. CASE target \in here
    <3>1. target \in ends BY <2>2
    <3>2. \E l \in labels, e \in net.targets : target = [total |-> l.arrival + e.walk, label |-> l, egress |-> e]
      BY <3>1
    <3>q. QED BY <3>2
  <2>3. CASE target = NoTarget
    <3>1. target.total = Infinity /\ Infinity \in Int BY <2>3, ConstantsAssumption DEF NoTarget
    <3>2. ~Found BY <3>1 DEF Found
    <3>q. QED BY <3>2
  <2>q. QED BY <2>1, <2>2, <2>3
<1>q. QED BY <1>2, <1>3, <1>4, <1>5 DEF SoundInv

\* Labels of sound journeys are added, and the rest is as it was.
LEMMA SoundLabelsAdded ==
  ASSUME QueryInv, SoundInv, tt' = tt, NEW new, new \subseteq LabelSet,
         \A l \in new : SoundLabel(Directed(tt), l), NEW rest, rest \subseteq queue, AddLabels(new, rest)
  PROVE  /\ \A l \in labels' \cup queue' : SoundLabel(Directed(tt), l)
         /\ Found' => SoundLabel(Directed(tt), target'.label)
<1>1. /\ labels' = {k \in labels : ~\E l \in new : SameSlot(k, l)} \cup new
      /\ queue' = rest \cup new
      /\ target' = target \/ target'.label \in new
  BY AddLabelsFacts
<1>2. labels' \cup queue' \subseteq labels \cup queue \cup new BY <1>1
<1>3. \A l \in labels' \cup queue' : SoundLabel(Directed(tt), l) BY <1>2 DEF SoundInv
<1>4. Found' => SoundLabel(Directed(tt), target'.label) BY <1>1 DEF SoundInv, Found
<1>q. QED BY <1>3, <1>4

\* Walking on from a sound label gives sound labels.
LEMMA SoundRelaxWalk ==
  ASSUME TypeInv, SoundInv, RelaxWalk
  PROVE  SoundInv'
<1> DEFINE q == Directed(tt)
<1>0. QueryInv /\ LabelsInv BY DEF TypeInv
<1>1. /\ net.walk = q.walk /\ net.walk \subseteq Edges /\ net.start = q.at /\ q \in Queries
  BY <1>0, NetFacts, NetworkFacts DEF QueryInv
<1>2. tt' = tt /\ onboard' = onboard BY DEF RelaxWalk
<1>3. PICK l \in queue :
       LET reached == IF l \notin labels THEN {}
                         ELSE {WalkedLabel(l, e) : e \in {w \in net.walk : w.from = l.stop}}
           best == {x \in reached : \A y \in reached : x.stop = y.stop => x.arrival <= y.arrival}
       IN  AddLabels({x \in best : Improves(x)}, queue \ {l})
  BY DEF RelaxWalk
<1> DEFINE reached == IF l \notin labels THEN {}
                      ELSE {WalkedLabel(l, e) : e \in {w \in net.walk : w.from = l.stop}}
           best == {x \in reached : \A y \in reached : x.stop = y.stop => x.arrival <= y.arrival}
           new == {x \in best : Improves(x)}
<1>4. AddLabels(new, queue \ {l}) BY <1>3
<1>5. l \in LabelSet /\ l.arrival >= q.at /\ SoundLabel(q, l) BY <1>0, <1>1 DEF LabelsInv, SoundInv
<1>6. ASSUME NEW x \in new PROVE x \in LabelSet /\ SoundLabel(q, x)
  <2>1. x \in reached OBVIOUS
  <2>2. PICK e \in net.walk : e.from = l.stop /\ x = WalkedLabel(l, e) BY <2>1
  <2>3. e \in Edges /\ e \in q.walk BY <1>1
  <2> HIDE DEF q
  <2>q. QED BY <1>1, <1>5, <2>2, <2>3, WalkIsSound, WalkedLabelFacts
<1> HIDE DEF new
<1>7. new \subseteq LabelSet /\ queue \ {l} \subseteq queue BY <1>6
<1>8. /\ \A k \in labels' \cup queue' : SoundLabel(q, k)
      /\ Found' => SoundLabel(q, target'.label)
  BY <1>0, <1>2, <1>4, <1>6, <1>7, SoundLabelsAdded
<1>9. \A t \in Trips : OnTrip(t)' => SoundState(q, onboard'[t]) BY <1>2 DEF SoundInv, OnTrip
<1>q. QED BY <1>2, <1>8, <1>9 DEF SoundInv, Directed

\* Riding on from a sound state gives a sound label wherever the rider may leave.
LEMMA SoundRide ==
  ASSUME TypeInv, GroupInv, SoundInv, queue = {}, NEW i \in todo, NEW s \in States, s.board \in 1 .. next - 1,
         net.conns[s.board].trip = net.conns[i].trip, SoundState(Directed(tt), [s EXCEPT !.last = i]), Ride(i, s)
  PROVE  SoundInv'
<1> DEFINE q == Directed(tt)
           n == Len(net.conns)
           c == net.conns[i]
           riding == [s EXCEPT !.last = i]
           new == {TransitLabel(riding)}
<1>0. QueryInv /\ PassInv /\ BoardInv BY DEF TypeInv
<1>1. /\ i \in 1 .. n /\ s.board \in 1 .. n /\ n \in Nat
  <2>1. i \in 1 .. next - 1 /\ next \in 1 .. n + 1 /\ n \in Nat BY <1>0, NetFacts DEF PassInv
  <2> HIDE DEF n
  <2>q. QED BY <2>1
<1>2. c.trip \in Trips /\ q.conditional = tt.conditional BY <1>0, <1>1, NetFacts
<1>3. riding \in States /\ riding.board = s.board /\ riding.last = i
  <2>1. i \in Nat BY <1>1
  <2>q. QED BY <2>1 DEF States
<1>4. /\ tt' = tt /\ net' = net /\ onboard' = [onboard EXCEPT ![c.trip] = riding]
      /\ IF Allowed(tt, c.dropOff) /\ Improves(TransitLabel(riding))
         THEN AddLabels(new, {}) ELSE UNCHANGED <<labels, queue, target>>
  BY DEF Ride
<1>5. /\ \A k \in labels' \cup queue' : SoundLabel(q, k)
      /\ Found' => SoundLabel(q, target'.label)
  <2>1. CASE Allowed(tt, c.dropOff) /\ Improves(TransitLabel(riding))
    <3>1. Allowed(q, c.dropOff) BY <1>2, <2>1 DEF Allowed
    <3>2. TransitLabel(riding) \in LabelSet
      <4> HIDE DEF riding
      <4>q. QED BY <1>0, <1>1, <1>3, TransitLabelFacts
    <3>3. SoundLabel(q, TransitLabel(riding))
      <4>1. SoundState(q, riding) OBVIOUS
      <4>2. net.conns[riding.board].trip = net.conns[riding.last].trip
            /\ Allowed(q, net.conns[riding.last].dropOff)
            /\ riding.board \in 1 .. n /\ riding.last \in 1 .. n
        <5>1. net.conns[s.board].trip = c.trip OBVIOUS
        <5> HIDE DEF riding
        <5>q. QED BY <1>1, <1>3, <3>1, <5>1
      <4> HIDE DEF riding
      <4>q. QED BY <1>0, <1>3, <4>1, <4>2, TransitIsSound
    <3> DEFINE rest == {}
    <3>4. AddLabels(new, rest) BY <1>4, <2>1
    <3>5. new \subseteq LabelSet /\ (\A l \in new : SoundLabel(q, l)) /\ rest \subseteq queue BY <3>2, <3>3
    <3> HIDE DEF new, rest
    <3>q. QED BY <1>0, <1>4, <3>4, <3>5, SoundLabelsAdded
  <2>2. CASE ~(Allowed(tt, c.dropOff) /\ Improves(TransitLabel(riding)))
    <3>1. labels' = labels /\ queue' = queue /\ target' = target BY <1>4, <2>2
    <3>q. QED BY <3>1 DEF SoundInv, Found
  <2>q. QED BY <2>1, <2>2
<1>6. ASSUME NEW t \in Trips, OnTrip(t)' PROVE SoundState(q, onboard'[t])
  <2>1. CASE t = c.trip
    <3>1. onboard'[t] = riding BY <1>0, <1>2, <1>4, <2>1 DEF BoardInv
    <3>q. QED BY <3>1
  <2>2. CASE t # c.trip
    <3>1. onboard'[t] = onboard[t] BY <1>0, <1>4, <2>2 DEF BoardInv
    <3>q. QED BY <1>6, <3>1 DEF SoundInv, OnTrip
  <2>q. QED BY <2>1, <2>2
<1>q. QED BY <1>4, <1>5, <1>6 DEF SoundInv, Directed

\* A trip that is boarded.
LEMMA RiddenNowhere == ASSUME NEW q, NEW b \in Int PROVE Ridden(q, b, b)
<1>1. b .. b - 1 = {} OBVIOUS
<1>q. QED BY <1>1 DEF Ridden

\* A ride goes one segment further.
LEMMA RiddenFurther ==
  ASSUME NEW q, NEW b \in Int, NEW e \in Int, Ridden(q, b, e), Adjoin(q, e, e + 1)
  PROVE  Ridden(q, b, e + 1)
<1>1. b <= e /\ \A m \in b .. e - 1 : Adjoin(q, m, m + 1) BY DEF Ridden
<1>2. \A m \in b .. (e + 1) - 1 : m = e \/ m \in b .. e - 1 OBVIOUS
<1>q. QED BY <1>1, <1>2 DEF Ridden

\* Staying on a trip keeps everything sound.
LEMMA SoundRideOn ==
  ASSUME TypeInv, GroupInv, OrderInv, SoundInv, RunsForward(tt), Scanning, RideOn(MinOf(todo))
  PROVE  SoundInv'
<1> DEFINE i == MinOf(todo)
           t == net.conns[i].trip
           s == onboard[t]
           n == Len(net.conns)
           q == Directed(tt)
           p == Place(q.rows)
           riding == [s EXCEPT !.last = i]
<1>1. /\ i \in todo /\ \A k \in todo : i <= k
      /\ i \in group /\ i \in 1 .. next - 1 /\ i \in 1 .. n /\ queue = {}
  BY VisitedFacts
<1>2. QueryInv /\ PassInv /\ BoardInv /\ next \in 1 .. n + 1 BY DEF TypeInv, PassInv
<1>3. t \in Trips /\ DOMAIN net.conns = 1 .. n /\ n \in Nat /\ net.conns[i].depTime \in Int
  BY <1>1, <1>2, NetFacts
<1>4. OnTrip(t) /\ Ride(i, s) /\ net.conns[s.last].to = net.conns[i].from
      /\ ~(net.conns[s.last].arrTime > net.conns[i].depTime)
  BY DEF RideOn, Boarded, Detached, OnTrip
<1>5. /\ s \in States /\ s.board \in 1 .. next - 1 /\ s.last \in 1 .. next - 1
      /\ net.conns[s.board].trip = t /\ net.conns[s.last].trip = t
  BY <1>2, <1>3, <1>4 DEF BoardInv
<1>6. s.board \in 1 .. n /\ s.last \in 1 .. n
  <2> HIDE DEF n, s
  <2>q. QED BY <1>2, <1>3, <1>5
<1>7. i > s.last
  <2>1. /\ s.board <= s.last
        /\ \A k \in todo : net.conns[k].trip = t => k < s.board \/ k > s.last
    BY <1>3, <1>4 DEF OrderInv
  <2>2. i < s.board \/ i > s.last BY <1>1, <2>1
  <2>3. ~(i < s.last)
    <3>1. ASSUME i < s.last PROVE FALSE
      <4>1. net.conns[s.last].to # net.conns[i].from \/ net.conns[s.last].arrTime > net.conns[i].depTime
        <5> HIDE DEF s, i
        <5>q. QED BY <1>1, <1>2, <1>5, <1>6, <3>1, EarlierIsDetached DEF t, n
      <4>q. QED BY <1>4, <4>1
    <3>q. QED BY <3>1
  <2> HIDE DEF s, i, n
  <2>q. QED BY <1>1, <1>3, <1>6, <2>1, <2>2, <2>3
<1>8. /\ p[i] = p[s.last] + 1 /\ p[i] \in 1 .. n /\ p[s.last] \in 1 .. n
      /\ net.conns[i] = q.rows[p[i]] /\ net.conns[s.last] = q.rows[p[s.last]]
  BY <1>1, <1>3, <1>4, <1>7, RidesInOrder
<1>9. Adjoin(q, p[s.last], p[s.last] + 1)
  <2>1. net.conns[s.last].arrTime \in Int BY <1>2, <1>6, NetFacts
  <2>2. q.rows[p[s.last] + 1] = net.conns[i] BY <1>8
  <2>3. net.conns[s.last].trip = net.conns[i].trip BY <1>5
  <2> HIDE DEF s, i, p, q
  <2>q. QED BY <1>3, <1>4, <1>8, <2>1, <2>2, <2>3 DEF Adjoin
<1>10. SoundState(q, riding)
  <2>1. SoundBoarding(q, s, p[s.board]) /\ Ridden(q, p[s.board], p[s.last]) BY <1>3, <1>4 DEF SoundInv, SoundState
  <2>2. p[s.board] \in Int /\ p[s.last] \in Int
    <3>1. p \in [1 .. n -> 1 .. n] BY <1>2, NetFacts
    <3> HIDE DEF p, s, n
    <3>q. QED BY <1>6, <3>1
  <2>3. riding.board = s.board /\ riding.last = i /\ riding.legs = s.legs /\ riding.stay = s.stay
    BY <1>5 DEF States
  <2> HIDE DEF q, p, s, i, riding
  <2>4. Ridden(q, p[s.board], p[i]) BY <1>8, <1>9, <2>1, <2>2, RiddenFurther
  <2>5. SoundBoarding(q, riding, p[s.board]) BY <2>1, <2>3 DEF SoundBoarding
  <2>q. QED BY <2>3, <2>4, <2>5 DEF SoundState, p
<1>11. net.conns[s.board].trip = net.conns[i].trip BY <1>5
<1> HIDE DEF i, s
<1>q. QED BY <1>1, <1>4, <1>5, <1>10, <1>11, SoundRide DEF q, riding

\* Boarding a trip at a stop keeps everything sound.
LEMMA SoundBoard ==
  ASSUME TypeInv, GroupInv, SoundInv, Scanning, NEW i, i = MinOf(todo), Board(i)
  PROVE  SoundInv'
<1> DEFINE q == Directed(tt)
           p == Place(q.rows)
           c == net.conns[i]
<1>1. /\ i \in todo /\ i \in group /\ i \in 1 .. next - 1 /\ i \in 1 .. Len(net.conns) /\ queue = {}
  BY VisitedFacts
<1>2. PICK l \in BoardingLabels(c) : Ride(i, [board |-> i, legs |-> l.legs, stay |-> FALSE, last |-> i])
  BY DEF Board
<1> DEFINE s == [board |-> i, legs |-> l.legs, stay |-> FALSE, last |-> i]
<1>3. l \in labels /\ s \in States BY <1>1, BoardingFacts
<1>4. ~RulesConflict(c) /\ Allowed(tt, c.pickup) BY DEF Board, MayBoard
<1>5. q.conditional = tt.conditional /\ p[i] \in Int BY <1>1, NetFacts DEF TypeInv
<1>6. SoundBoarding(q, s, p[i])
  <2>1. Allowed(q, c.pickup) BY <1>4, <1>5 DEF Allowed
  <2>2. SoundLabel(q, l) BY <1>3 DEF SoundInv
  <2>q. QED BY <1>1, <1>4, <2>1, <2>2, BoardingIsSound
<1>7. s.board = i /\ s.last = i /\ [s EXCEPT !.last = i] = s
  <2>1. s.board = i /\ s.last = i OBVIOUS
  <2> HIDE DEF s
  <2>q. QED BY <1>3, <2>1 DEF States
<1>8. Ride(i, s) BY <1>2
<1> HIDE DEF s, q
<1>9. SoundState(q, s) BY <1>5, <1>6, <1>7, RiddenNowhere DEF SoundState
<1>q. QED BY <1>1, <1>3, <1>7, <1>8, <1>9, SoundRide DEF q

\* Boarding a trip from the one it continues keeps everything sound.
LEMMA SoundStayOnboard ==
  ASSUME TypeInv, GroupInv, OrderInv, LinkInv, SoundInv, Orderly(tt), Scanning,
         NEW i, i = MinOf(todo), StayOnboard(i)
  PROVE  SoundInv'
<1> DEFINE q == Directed(tt)
           p == Place(q.rows)
           c == net.conns[i]
           n == Len(net.conns)
<1>0. QueryInv /\ BoardInv /\ PassInv BY DEF TypeInv
<1>1. /\ i \in todo /\ i \in group /\ i \in 1 .. next - 1 /\ i \in 1 .. n /\ queue = {}
  BY VisitedFacts
<1>2. PICK s \in Continuations(i) : Ride(i, s) BY DEF StayOnboard
<1>3. PICK l \in net.links :
           /\ l.type = "stay" /\ l.toTrip = c.trip
           /\ l.fromTrip \in Trips /\ OnTrip(l.fromTrip)
           /\ s = [board |-> i, legs |-> Append(onboard[l.fromTrip].legs, RideLeg(onboard[l.fromTrip])),
                   stay |-> TRUE, last |-> i]
           /\ s \in States /\ s.board = i /\ s.last = i
  BY <1>1, ContinuationFacts
<1> DEFINE r == onboard[l.fromTrip]
           g == RideLeg(r)
           new == Append(r.legs, g)
           a == p[r.last]
           b == p[i]
<1>4. LinkedAt(l, r.last, i)
  <2>1. ~Boarded(i) BY DEF StayOnboard
  <2>q. QED BY <1>3, <2>1, ContinuationIsFromTheEnd
<1>5. /\ r \in States /\ r.board \in 1 .. n /\ r.last \in 1 .. n
      /\ net.conns[r.board].trip = net.conns[r.last].trip
  <2>1. /\ r \in States /\ r.board \in 1 .. next - 1 /\ r.last \in 1 .. next - 1
        /\ net.conns[r.board].trip = l.fromTrip /\ net.conns[r.last].trip = l.fromTrip
    BY <1>0, <1>3 DEF BoardInv
  <2>2. next \in 1 .. n + 1 /\ n \in Nat BY <1>0, NetFacts DEF PassInv
  <2> HIDE DEF r, n
  <2>q. QED BY <2>1, <2>2
<1>6. Path(q, new, TRUE, FALSE) /\ SetsOut(q, new[1])
  <2>1. SoundState(q, r) /\ IsLast(q, p[r.last]) BY <1>3, <1>4 DEF SoundInv, LinkedAt
  <2> HIDE DEF r, n
  <2>q. QED BY <1>0, <1>5, <2>1, RideIsSound DEF n
<1>7. /\ g \in Legs /\ g.kind = "ride" /\ g.trip = net.conns[r.board].trip
      /\ g.to = net.conns[r.last].to /\ g.arr = net.conns[r.last].arrTime
  BY <1>0, <1>5, TransitLabelFacts
<1>8. /\ a \in DOMAIN q.rows /\ b \in DOMAIN q.rows /\ b \in Int
      /\ q.rows[a] = net.conns[r.last] /\ q.rows[b] = c
      /\ net.start = q.at
  <2>1. r.last \in 1 .. n /\ i \in 1 .. n BY <1>1, <1>5
  <2> DEFINE x == r.last
  <2> HIDE DEF r
  <2>2. /\ DOMAIN q.rows = 1 .. n /\ p \in [1 .. n -> 1 .. n]
        /\ \A k \in 1 .. n : net.conns[k] = q.rows[p[k]]
        /\ net.start = q.at
    BY <1>0, NetFacts
  <2> HIDE DEF q, p, x, n
  <2>3. p[x] \in 1 .. n /\ p[i] \in 1 .. n BY <2>1, <2>2 DEF x
  <2>q. QED BY <2>1, <2>2, <2>3 DEF x
<1>9. StayJoins(q, g, a, b)
  <2>1. IsLast(q, a) /\ IsFirst(q, b) /\ MayStay(q, net.conns[r.last], c) BY <1>4 DEF LinkedAt
  <2> HIDE DEF q, g, a, b, c, r
  <2>q. QED BY <1>5, <1>7, <1>8, <2>1 DEF StayJoins
<1>10. /\ new # <<>> /\ new[Len(new)] = g
  <2>1. r.legs \in Seq(Legs) BY <1>5 DEF States
  <2> DEFINE x == r.legs
  <2> HIDE DEF x, g
  <2>2. Append(x, g) # <<>> /\ Append(x, g)[Len(Append(x, g))] = g BY <1>7, <2>1, AppendFacts DEF x
  <2>q. QED BY <2>2 DEF x
<1>11. q.rows[b].depTime >= q.at BY <1>1, <1>8 DEF GroupInv
<1>12. s.legs = new /\ s.stay = TRUE BY <1>3
<1>13. SoundBoarding(q, s, b)
  <2>1. \E x \in DOMAIN q.rows : StayJoins(q, s.legs[Len(s.legs)], x, b) BY <1>8, <1>9, <1>10, <1>12
  <2>2. s.legs # <<>> /\ SetsOut(q, s.legs[1]) /\ Path(q, s.legs, s.stay, FALSE) BY <1>6, <1>10, <1>12
  <2> HIDE DEF q, b
  <2>q. QED BY <1>11, <1>12, <2>1, <2>2, Zenon DEF SoundBoarding
<1>14. SoundState(q, s)
  <2>1. p[s.board] = b /\ p[s.last] = b BY <1>3
  <2> HIDE DEF q, b
  <2>q. QED BY <1>8, <1>13, <2>1, RiddenNowhere DEF SoundState
<1>15. [s EXCEPT !.last = i] = s BY <1>3
<1> HIDE DEF q, p, c, new
<1>16. s \in States /\ s.board = i BY <1>3
<1>q. QED BY <1>1, <1>2, <1>14, <1>15, <1>16, SoundRide DEF q

\* Where trips and continuations run forward, every step keeps everything sound.
LEMMA SoundStep ==
  ASSUME TypeInv, GroupInv, OrderInv, LinkInv, SoundInv, Orderly(tt), [Next]_vars
  PROVE  SoundInv'
<1> DEFINE i == MinOf(todo)
<1>1. CASE UNCHANGED <<tt, net, scanVars>>
  <2>1. /\ labels' = labels /\ queue' = queue /\ target' = target /\ onboard' = onboard /\ tt' = tt
    BY <1>1 DEF scanVars
  <2>q. QED BY <2>1 DEF SoundInv, OnTrip, Found, Directed
<1>2. CASE NextPass \/ NextGroup \/ Finish \/ Cancel \/ UNCHANGED vars
  BY <1>1, <1>2 DEF NextPass, NextGroup, Finish, Cancel, vars
<1>3. CASE RelaxWalk BY <1>3, SoundRelaxWalk
<1>4. CASE ScanConnection
  <2>1. Scanning /\ ProcessConnection(i) BY <1>4 DEF ScanConnection
  <2>2. CASE BeforeBoarding(i) \/ NotContiguous(i) \/ RuleError(i) \/ NotReachable(i)
    BY <1>1, <2>2 DEF BeforeBoarding, NotContiguous, RuleError, NotReachable
  <2>3. CASE RideOn(i) BY <2>1, <2>3, SoundRideOn DEF Orderly
  <2>4. CASE StayOnboard(i) BY <2>1, <2>4, SoundStayOnboard
  <2>5. CASE Board(i) BY <2>1, <2>5, SoundBoard
  <2>q. QED BY <2>1, <2>2, <2>3, <2>4, <2>5 DEF ProcessConnection
<1>q. QED BY <1>2, <1>3, <1>4 DEF Next, Step

\* The scan starts in the invariant.
LEMMA IInvInit ==
  ASSUME Init
  PROVE  IInv
<1>1. Conduct BY ConductInit
<1>q. QED BY <1>1, LinkInit, SoundInit DEF IInv, Conduct

\* Every step keeps the invariant.
LEMMA IInvStep ==
  ASSUME IInv, [Next]_vars
  PROVE  IInv'
<1>1. Conduct BY DEF IInv, Conduct
<1>2. Conduct' BY <1>1, ConductStep
<1>3. tt' = tt BY QueryIsFixed
<1>4. ASSUME Orderly(tt) PROVE LinkInv' /\ SoundInv'
  <2>1. TypeInv /\ GroupInv /\ OrderInv /\ LinkInv /\ SoundInv BY <1>4 DEF IInv, Orderly
  <2>q. QED BY <1>4, <2>1, LinkStep, SoundStep
<1>q. QED BY <1>2, <1>3, <1>4 DEF IInv, Conduct

\* The inductive invariant holds in every reachable state.
LEMMA IInvIsInvariant == Spec => []IInv
<1>1. Init => IInv BY IInvInit
<1>2. IInv /\ [Next]_vars => IInv' BY IInvStep
<1>q. QED BY <1>1, <1>2, PTL DEF Spec

(***************************************************************************)
(* The answer.                                                             *)
(***************************************************************************)

\* The legs that lead to the target, in the direction of the scan.
Answer ==
  LET e == target.egress
  IN  target.label.legs \o
        (IF e.walk = 0 THEN <<>>
         ELSE <<Leg("access", Any, e.stop, e.stop, target.label.arrival, target.total, FALSE)>>)

\* A path is one whether or not an access leg to a target may come last.
LEMMA PathMayEnd ==
  ASSUME NEW q, NEW legs, Path(q, legs, FALSE, FALSE)
  PROVE  Path(q, legs, FALSE, TRUE)
BY DEF Path, LegIsSound

\* The legs of the best target, in the direction of the scan, are a path from a source to a target.
LEMMA AnswerIsSound ==
  ASSUME IInv, Orderly(tt), outcome = "found"
  PROVE  LET d == Directed(tt)
         IN  /\ Answer \in Seq(Legs) /\ Path(d, Answer, FALSE, TRUE) /\ JoinsEndpoints(d, Answer)
             /\ Answer # <<>> => Answer[1].dep >= d.at /\ Answer[Len(Answer)].arr = target.total
<1> DEFINE q == Directed(tt)
           l == target.label
           e == target.egress
           g == Leg("access", Any, e.stop, e.stop, l.arrival, target.total, FALSE)
           n == Len(l.legs)
<1>0. TypeInv /\ SoundInv /\ QueryInv /\ OutcomeInv /\ TargetInv BY DEF IInv, TypeInv
<1>1. Found BY <1>0 DEF OutcomeInv
<1>2. /\ target \in TargetSet(net) /\ l.arrival >= net.start
      /\ l.stop = e.stop /\ target.total = l.arrival + e.walk
  BY <1>0, <1>1 DEF TargetInv
<1>3. l \in LabelSet /\ e \in net.targets BY <1>2 DEF TargetSet
<1>4. /\ net.targets = q.targets /\ e \in Endpoints /\ net.start = q.at /\ net.start \in Int
  BY <1>0, <1>3, NetFacts
<1>5. /\ e.walk \in Nat /\ e.stop \in Stops /\ e = [stop |-> e.stop, walk |-> e.walk]
      /\ l.arrival \in Int /\ l.legs \in Seq(Legs)
  BY <1>3, <1>4 DEF Endpoints, LabelSet
<1>6. SoundLabel(q, l) BY <1>0, <1>1 DEF SoundInv
<1>7. /\ g.kind = "access" /\ g.from = e.stop /\ g.to = e.stop /\ g.dep = l.arrival
      /\ g.arr = target.total /\ g.stay = FALSE /\ g \in Legs
  <2>1. target.total \in Int BY <1>2, <1>5
  <2> DEFINE x == l.arrival
             y == target.total
             z == e.stop
  <2>2. x \in Int /\ y \in Int /\ z \in Stops BY <1>5, <2>1
  <2> HIDE DEF x, y, z
  <2>3. Leg("access", Any, z, z, x, y, FALSE) \in Legs BY <2>2 DEF Leg, Legs
  <2>q. QED BY <2>3 DEF Leg, x, y, z
<1>8. Answer = l.legs \o (IF e.walk = 0 THEN <<>> ELSE <<g>>) BY DEF Answer
<1> HIDE DEF q, l, e, g
<1>9. CASE e.walk = 0
  <2>1. Answer = l.legs
    <3>1. Answer = l.legs \o <<>> BY <1>8, <1>9
    <3> DEFINE x == l.legs
    <3>2. x \in Seq(Legs) BY <1>5
    <3> HIDE DEF x
    <3>3. x \o <<>> = x BY <3>2
    <3>q. QED BY <3>1, <3>3 DEF x
  <2>2. Path(q, l.legs, FALSE, TRUE) BY <1>6, PathMayEnd DEF SoundLabel
  <2>3. target.total = l.arrival BY <1>2, <1>5, <1>9 DEF l, e
  <2>4. JoinsEndpoints(q, l.legs)
    <3>1. CASE l.legs = <<>>
      <4>1. \E s \in q.sources : s.stop = l.stop /\ s.walk = 0 BY <1>6, <3>1 DEF SoundLabel
      <4>q. QED BY <1>2, <1>3, <1>4, <1>9, <3>1, <4>1 DEF JoinsEndpoints, l, e
    <3>2. CASE l.legs # <<>>
      <4>1. SetsOut(q, l.legs[1]) /\ l.legs[Len(l.legs)].to = l.stop BY <1>6, <3>2 DEF SoundLabel
      <4>2. \E s \in q.sources : EndsAt(s, l.legs[1].from, l.legs[1])
        BY <4>1 DEF SetsOut
      <4>3. e \in q.targets /\ e.stop = l.legs[Len(l.legs)].to BY <1>2, <1>3, <1>4, <4>1 DEF l, e
      <4>q. QED BY <1>9, <3>2, <4>2, <4>3 DEF JoinsEndpoints, EndsAt
    <3>q. QED BY <3>1, <3>2
  <2>5. l.legs # <<>> => l.legs[1].dep >= q.at /\ l.legs[Len(l.legs)].arr = target.total
    BY <1>6, <2>3 DEF SoundLabel, SetsOut
  <2>q. QED BY <1>5, <2>1, <2>2, <2>4, <2>5 DEF q
<1>10. CASE e.walk # 0
  <2> DEFINE new == Append(l.legs, g)
  <2>1. Answer = new
    <3>1. Answer = l.legs \o <<g>> BY <1>8, <1>10
    <3> DEFINE x == l.legs
    <3>2. x \in Seq(Legs) /\ g \in Legs BY <1>5, <1>7
    <3> HIDE DEF x
    <3>3. x \o <<g>> = Append(x, g) BY <3>2
    <3>q. QED BY <3>1, <3>3 DEF x
  <2>2. /\ n \in Nat /\ new \in Seq(Legs) /\ Len(new) = n + 1 /\ new[n + 1] = g
        /\ DOMAIN l.legs = 1 .. n
        /\ \A k \in 1 .. n : new[k] = l.legs[k]
    <3> DEFINE x == l.legs
    <3>1. x \in Seq(Legs) /\ g \in Legs BY <1>5, <1>7
    <3> HIDE DEF x
    <3>q. QED BY <3>1, AppendFacts DEF x
  <2>3. n # 0 => n \in 1 .. n /\ 1 \in 1 .. n /\ l.legs # <<>> /\ new[1] = l.legs[1] /\ new[n] = l.legs[n]
    BY <2>2
  <2>4. n = 0 => l.legs = <<>> /\ new[1] = g BY <1>5, <2>2
  <2>5. g.arr - g.dep = e.walk
    <3>1. target.total = l.arrival + e.walk BY <1>2 DEF l, e
    <3>q. QED BY <1>5, <1>7, <3>1
  <2>6. LegIsSound(q, new, FALSE, TRUE, n + 1)
    <3> HIDE DEF new
    <3>1. [stop |-> g.from, walk |-> g.arr - g.dep] \in q.targets
      BY <1>3, <1>4, <1>5, <1>7, <2>5 DEF e
    <3>2. n + 1 > 1 => LegsMeet(new, n + 1)
      <4>1. SUFFICES ASSUME n # 0 PROVE LegsMeet(new, n + 1) BY <2>2
      <4>2. l.legs[n].to = l.stop /\ l.legs[n].arr = l.arrival BY <1>6, <2>3, <4>1 DEF SoundLabel
      <4>3. (n + 1) - 1 = n /\ new[n] = l.legs[n] BY <2>2, <2>3, <4>1
      <4>4. g.from = l.stop BY <1>2, <1>7 DEF l, e
      <4>q. QED BY <1>5, <1>7, <2>2, <4>2, <4>3, <4>4 DEF LegsMeet
    <3>3. ChangeIsMade(q, new, n + 1) BY <1>7, <2>2 DEF ChangeIsMade
    <3>4. new[n + 1].kind = "access" /\ new[n + 1].from = new[n + 1].to /\ ~new[n + 1].stay
          /\ [stop |-> new[n + 1].from, walk |-> new[n + 1].arr - new[n + 1].dep] \in q.targets
      BY <1>7, <2>2, <3>1
    <3>5. new[n + 1].kind # "walk" /\ new[n + 1].kind # "ride" BY <3>4
    <3>q. QED BY <2>2, <3>2, <3>3, <3>4, <3>5, Zenon DEF LegIsSound
  <2>7. Path(q, new, FALSE, TRUE)
    <3>1. Path(q, l.legs, g.stay, FALSE) BY <1>6, <1>7 DEF SoundLabel
    <3>q. QED BY <1>5, <1>7, <2>6, <3>1, PathAppend
  <2> HIDE DEF new
  <2>8. new # <<>>
    <3>1. 1 \in DOMAIN new BY <2>2
    <3>q. QED BY <3>1
  <2>9. \E s \in q.sources : EndsAt(s, new[1].from, new[1])
    <3>1. CASE n = 0
      <4>1. \E s \in q.sources : s.stop = l.stop /\ s.walk = 0 BY <1>6, <2>4, <3>1 DEF SoundLabel
      <4>2. new[1].from = l.stop BY <1>2, <1>7, <2>4, <3>1 DEF l, e
      <4>q. QED BY <4>1, <4>2 DEF EndsAt
    <3>2. CASE n # 0 BY <1>6, <2>3, <3>2 DEF SoundLabel, SetsOut
    <3>q. QED BY <3>1, <3>2
  <2>10. \E t \in q.targets : EndsAt(t, new[n + 1].to, new[n + 1])
    <3>1. e \in q.targets BY <1>3, <1>4 DEF e
    <3>q. QED BY <1>7, <2>2, <2>5, <3>1 DEF EndsAt
  <2>11. JoinsEndpoints(q, new) BY <2>2, <2>8, <2>9, <2>10 DEF JoinsEndpoints
  <2>12. new[1].dep >= q.at
    <3>1. CASE n = 0 BY <1>2, <1>4, <1>7, <2>4, <3>1 DEF l
    <3>2. CASE n # 0 BY <1>6, <2>3, <3>2 DEF SoundLabel, SetsOut
    <3>q. QED BY <3>1, <3>2
  <2>13. new[Len(new)].arr = target.total BY <1>7, <2>2
  <2>q. QED BY <2>1, <2>2, <2>7, <2>11, <2>12, <2>13 DEF q
<1>q. QED BY <1>9, <1>10

\* There is one first row of a trip.
LEMMA FirstIsUnique ==
  ASSUME NEW q \in Queries, NEW a \in DOMAIN q.rows, NEW b \in DOMAIN q.rows, IsFirst(q, a), IsFirst(q, b),
         q.rows[a].trip = q.rows[b].trip
  PROVE  a = b
<1>1. DOMAIN q.rows = 1 .. Len(q.rows) /\ Len(q.rows) \in Nat BY DEF Queries
<1>2. a <= b /\ b <= a BY DEF IsFirst, RowsOf
<1>q. QED BY <1>1, <1>2

\* A path from a source to a target is a journey that can be made.
LEMMA PathIsFeasible ==
  ASSUME NEW q \in Queries, NEW J \in Seq(Legs), Path(q, J, FALSE, TRUE), JoinsEndpoints(q, J)
  PROVE  Feasible(q, J)
<1> DEFINE n == Len(J)
<1>0. n \in Nat /\ DOMAIN J = 1 .. n /\ \A k \in 1 .. n : J[k] \in Legs OBVIOUS
<1>1. SUFFICES ASSUME NEW k \in 1 .. n
               PROVE  /\ LegIsReal(q, J, k)
                      /\ k > 1 => LegsMeet(J, k) /\ ChangeIsAllowed(q, J, k)
  BY <1>0 DEF Feasible
<1>2. LegIsSound(q, J, FALSE, TRUE, k) BY <1>0 DEF Path
<1>3. k > 1 => LegsMeet(J, k) /\ ChangeIsMade(q, J, k) BY <1>2 DEF LegIsSound
<1>4. J[k].kind \in {"access", "walk", "ride"} /\ J[k].dep \in Int BY <1>0 DEF Legs
<1>5. LegIsReal(q, J, k)
  <2>1. CASE J[k].kind = "access"
    <3>1. \/ k = 1 /\ [stop |-> J[k].to, walk |-> J[k].arr - J[k].dep] \in q.sources
          \/ k = Len(J) /\ [stop |-> J[k].from, walk |-> J[k].arr - J[k].dep] \in q.targets
      BY <1>2, <2>1 DEF LegIsSound
    <3>q. QED BY <2>1, <3>1 DEF LegIsReal
  <2>2. CASE J[k].kind = "walk"
    <3>1. [from |-> J[k].from, to |-> J[k].to, secs |-> J[k].arr - J[k].dep] \in q.walk
      BY <1>2, <2>2 DEF LegIsSound
    <3>q. QED BY <2>2, <3>1 DEF LegIsReal
  <2>3. CASE J[k].kind = "ride"
    <3>1. PICK b, e \in DOMAIN q.rows :
            /\ RideOf(q, J[k], b, e)
            /\ IF J[k].stay THEN IsFirst(q, b) ELSE Allowed(q, q.rows[b].pickup)
            /\ IF Continued(J, FALSE, k) THEN IsLast(q, e) ELSE Allowed(q, q.rows[e].dropOff)
      BY <1>2, <2>3 DEF LegIsSound, RideIsReal
    <3>2. ContinuesAfter(J, k) \/ Allowed(q, q.rows[e].dropOff)
      <4>1. k # n => k < n
        <5> HIDE DEF n
        <5>q. QED BY <1>0
      <4>q. QED BY <3>1, <4>1 DEF Continued, ContinuesAfter
    <3>3. IF J[k].stay
          THEN /\ IsFirst(q, b) /\ k > 1 /\ J[k-1].kind = "ride"
               /\ \E a \in RowsOf(q, J[k-1].trip) :
                    /\ IsLast(q, a) /\ MayStay(q, q.rows[a], q.rows[b])
                    /\ q.rows[a].to = J[k-1].to /\ q.rows[a].arrTime = J[k-1].arr
          ELSE Allowed(q, q.rows[b].pickup)
      <4>1. CASE J[k].stay
        <5>1. StayIsReal(q, J, k) BY <1>2, <4>1 DEF LegIsSound
        <5>2. PICK a, c \in DOMAIN q.rows : StayJoins(q, J[k-1], a, c) /\ q.rows[c].trip = J[k].trip
          BY <5>1 DEF StayIsReal
        <5>3. b = c
          <6>1. IsFirst(q, b) /\ IsFirst(q, c) /\ q.rows[b].trip = q.rows[c].trip
            BY <3>1, <4>1, <5>2 DEF RideOf, StayJoins
          <6>q. QED BY <6>1, FirstIsUnique
        <5>q. QED BY <3>1, <4>1, <5>1, <5>2, <5>3 DEF StayIsReal, StayJoins, RowsOf
      <4>2. CASE ~J[k].stay BY <3>1, <4>2
      <4>q. QED BY <4>1, <4>2
    <3>q. QED BY <2>3, <3>1, <3>2, <3>3 DEF LegIsReal
  <2>q. QED BY <1>4, <2>1, <2>2, <2>3
<1>6. ASSUME k > 1 PROVE ChangeIsAllowed(q, J, k)
  <2>1. SUFFICES ASSUME NEW j \in 1 .. k - 1, J[j].kind = "ride", J[k].kind = "ride", ~J[k].stay,
                        \A m \in j + 1 .. k - 1 : J[m].kind # "ride"
                 PROVE  ReadyBy(q.rules, MatchingRules(q.rules, J[j].trip, J[j].to, J[k].trip, J[k].from),
                                J[k-1].arr, J[j].arr) <= J[k].dep
    BY DEF ChangeIsAllowed
  <2> DEFINE ms == MatchingRules(q.rules, J[j].trip, J[j].to, J[k].trip, J[k].from)
  <2>2. LastRide(J, k - 1, j) BY <2>1 DEF LastRide
  <2>3. RulesAllow(q.rules, ms, J[j].arr, J[k].dep)
    BY <1>3, <1>6, <2>1, <2>2 DEF ChangeIsMade, ChangeOf
  <2>4. J[k-1].arr \in Int /\ J[j].arr \in Int /\ J[k-1].arr <= J[k].dep
    <3>1. k - 1 \in 1 .. n /\ j \in 1 .. n BY <1>0, <1>6
    <3>q. QED BY <1>0, <1>3, <1>6, <3>1 DEF Legs, LegsMeet
  <2>5. ms \subseteq DOMAIN q.rules /\ q.rules \in Seq(Rules) BY DEF MatchingRules, Queries
  <2> HIDE DEF ms
  <2>6. ReadyBy(q.rules, ms, J[k-1].arr, J[j].arr) <= J[k].dep
    BY <1>4, <2>3, <2>4, <2>5, AllowedIsReady
  <2>q. QED BY <2>6 DEF ms
<1>q. QED BY <1>3, <1>5, <1>6

(***************************************************************************)
(* The answer of a latest departure: a path of the reversed query is one   *)
(* of the query when its legs are flipped back.                            *)
(***************************************************************************)

\* A leg that stays on board follows a ride.
LEMMA StayFollowsRide ==
  ASSUME NEW q, NEW J \in Seq(Legs), Path(q, J, FALSE, TRUE), NEW k \in 1 .. Len(J), J[k].stay
  PROVE  k > 1 /\ J[k].kind = "ride" /\ J[k-1].kind = "ride"
<1>1. DOMAIN J = 1 .. Len(J) OBVIOUS
<1>2. LegIsSound(q, J, FALSE, TRUE, k) BY <1>1 DEF Path
<1>3. StayIsReal(q, J, k) BY <1>2 DEF LegIsSound
<1>q. QED BY <1>3 DEF StayIsReal, StayJoins

\* The mark of a continuation moves to the ride that comes after it.
LEMMA FlipFacts ==
  ASSUME NEW q, NEW J \in Seq(Legs), Path(q, J, FALSE, TRUE)
  PROVE  LET F == FlipLegs(J)
             n == Len(J)
         IN  /\ n \in Nat /\ F \in Seq(Legs) /\ Len(F) = n /\ DOMAIN F = 1 .. n /\ DOMAIN J = 1 .. n
             /\ \A k \in 1 .. n :
                  LET x == n + 1 - k
                  IN  /\ x \in 1 .. n /\ J[x] \in Legs /\ F[k] \in Legs
                      /\ F[k].kind = J[x].kind /\ F[k].trip = J[x].trip
                      /\ F[k].from = J[x].to /\ F[k].to = J[x].from
                      /\ F[k].dep = -J[x].arr /\ F[k].arr = -J[x].dep
                      /\ F[k].stay <=> k > 1 /\ J[x + 1].stay
<1> DEFINE n == Len(J)
           Marked(k) == J[n + 1 - k].stay
           IsRide(k) == J[n + 1 - k].kind = "ride"
           Moved(k) == /\ IsRide(k)
                       /\ \E j \in 1 .. k - 1 : Marked(j) /\ \A m \in j + 1 .. k - 1 : ~IsRide(m)
           F == FlipLegs(J)
<1>1. n \in Nat /\ DOMAIN J = 1 .. n /\ \A k \in 1 .. n : J[k] \in Legs OBVIOUS
<1>2. F = [k \in 1 .. n |-> [FlippedLeg(J[n + 1 - k]) EXCEPT !.stay = Moved(k)]] BY DEF FlipLegs
<1>3. ASSUME NEW k \in 1 .. n PROVE n + 1 - k \in 1 .. n
  <2> HIDE DEF n
  <2>q. QED BY <1>1
<1>4. ASSUME NEW k \in 1 .. n PROVE Moved(k) <=> k > 1 /\ J[(n + 1 - k) + 1].stay
  <2>1. ASSUME NEW j \in 1 .. k - 1, Marked(j), \A m \in j + 1 .. k - 1 : ~IsRide(m)
        PROVE  k > 1 /\ J[(n + 1 - k) + 1].stay
    <3> HIDE DEF n
    <3>1. n + 1 - j \in 1 .. n BY <1>1, <2>1
    <3>2. J[(n + 1 - j) - 1].kind = "ride" BY <2>1, <3>1, StayFollowsRide DEF n
    <3>3. (n + 1 - j) - 1 = n + 1 - (j + 1) /\ j + 1 \in Int BY <1>1, <2>1
    <3>4. IsRide(j + 1) BY <3>2, <3>3
    <3>5. ~(j + 1 <= k - 1) BY <1>4, <2>1, <3>3, <3>4
    <3>6. j = k - 1 BY <1>4, <2>1, <3>5
    <3>7. n + 1 - j = (n + 1 - k) + 1 BY <1>1, <1>4, <3>6
    <3>q. QED BY <1>4, <2>1, <3>6, <3>7
  <2>2. ASSUME k > 1, J[(n + 1 - k) + 1].stay
        PROVE  IsRide(k) /\ \E j \in 1 .. k - 1 : Marked(j) /\ \A m \in j + 1 .. k - 1 : ~IsRide(m)
    <3> HIDE DEF n
    <3>1. (n + 1 - k) + 1 \in 1 .. n /\ ((n + 1 - k) + 1) - 1 = n + 1 - k /\ (n + 1 - k) + 1 = n + 1 - (k - 1)
      BY <1>1, <1>4, <2>2
    <3>2. IsRide(k) BY <2>2, <3>1, StayFollowsRide DEF n
    <3>3. k - 1 \in 1 .. k - 1 /\ Marked(k - 1) BY <1>4, <2>2, <3>1
    <3>4. \A m \in (k - 1) + 1 .. k - 1 : ~IsRide(m) BY <1>4
    <3>q. QED BY <3>2, <3>3, <3>4
  <2>q. QED BY <2>1, <2>2
<1>5. ASSUME NEW k \in 1 .. n
      PROVE  LET x == n + 1 - k
             IN  /\ F[k] \in Legs /\ F[k].kind = J[x].kind /\ F[k].trip = J[x].trip
                 /\ F[k].from = J[x].to /\ F[k].to = J[x].from
                 /\ F[k].dep = -J[x].arr /\ F[k].arr = -J[x].dep
                 /\ F[k].stay = Moved(k)
  <2> DEFINE x == n + 1 - k
             l == J[x]
             m == Moved(k)
  <2>1. l \in Legs BY <1>1, <1>3
  <2>2. F[k] = [FlippedLeg(l) EXCEPT !.stay = m] BY <1>2
  <2>3. m \in BOOLEAN OBVIOUS
  <2> HIDE DEF x, l, m, F, n
  <2>4. /\ l.arr \in Int /\ l.dep \in Int /\ l.from \in Stops /\ l.to \in Stops
        /\ l.kind \in {"access", "walk", "ride"} /\ l.trip \in Trips \cup {Any}
    BY <2>1 DEF Legs
  <2>5. -l.arr \in Int /\ -l.dep \in Int BY <2>4
  <2> DEFINE u == -l.arr
             v == -l.dep
  <2>6. F[k] = [[l EXCEPT !.from = l.to, !.to = l.from, !.dep = u, !.arr = v, !.stay = FALSE] EXCEPT !.stay = m]
    BY <2>2 DEF FlippedLeg
  <2>7. u \in Int /\ v \in Int BY <2>5
  <2> HIDE DEF u, v
  <2>8. F[k] = [kind |-> l.kind, trip |-> l.trip, from |-> l.to, to |-> l.from, dep |-> u, arr |-> v, stay |-> m]
    BY <2>1, <2>6 DEF Legs
  <2>9. F[k] \in Legs BY <2>3, <2>4, <2>7, <2>8 DEF Legs
  <2>10. /\ F[k].kind = l.kind /\ F[k].trip = l.trip /\ F[k].from = l.to /\ F[k].to = l.from
         /\ F[k].dep = u /\ F[k].arr = v /\ F[k].stay = m
    BY <2>8
  <2>q. QED BY <2>9, <2>10 DEF x, l, m, u, v
<1>6. F \in Seq(Legs) /\ Len(F) = n /\ DOMAIN F = 1 .. n
  <2>1. DOMAIN F = 1 .. n BY <1>2
  <2>2. F \in [1 .. n -> Legs] BY <1>2, <1>5
  <2> HIDE DEF F, n
  <2>q. QED BY <1>1, <2>1, <2>2
<1> HIDE DEF Moved, F
<1>q. QED BY <1>1, <1>3, <1>4, <1>5, <1>6 DEF F

\* A ride backwards is a ride.
LEMMA ReversalRide ==
  ASSUME NEW q \in Queries, NEW l, NEW r, l.dep \in Int, l.arr \in Int,
         r.trip = l.trip, r.from = l.to, r.to = l.from, r.dep = -l.arr, r.arr = -l.dep,
         NEW b \in 1 .. Len(q.rows), NEW e \in 1 .. Len(q.rows), RideOf(Reversal(q), l, b, e)
  PROVE  RideOf(q, r, Len(q.rows) + 1 - e, Len(q.rows) + 1 - b)
<1> DEFINE n == Len(q.rows)
           d == Reversal(q)
<1>1. /\ b <= e /\ d.rows[b].trip = l.trip /\ d.rows[e].trip = l.trip
      /\ d.rows[b].from = l.from /\ d.rows[b].depTime = l.dep
      /\ d.rows[e].to = l.to /\ d.rows[e].arrTime = l.arr
      /\ \A i \in b .. e - 1 : Adjoin(d, i, i + 1)
  BY DEF RideOf
<1>2. /\ d.rows[b].trip = q.rows[n + 1 - b].trip /\ d.rows[b].from = q.rows[n + 1 - b].to
      /\ d.rows[b].depTime = -q.rows[n + 1 - b].arrTime /\ q.rows[n + 1 - b].arrTime \in Int
  BY ReversalRow
<1>3. /\ d.rows[e].trip = q.rows[n + 1 - e].trip /\ d.rows[e].to = q.rows[n + 1 - e].from
      /\ d.rows[e].arrTime = -q.rows[n + 1 - e].depTime /\ q.rows[n + 1 - e].depTime \in Int
  BY ReversalRow
<1>4. n \in Nat BY DEF Queries
<1> HIDE DEF n, d
<1>5. n + 1 - e <= n + 1 - b BY <1>1, <1>4 DEF n
<1>6. q.rows[n + 1 - b].arrTime = r.arr /\ q.rows[n + 1 - e].depTime = r.dep BY <1>1, <1>2, <1>3
<1>7. ASSUME NEW i \in n + 1 - e .. (n + 1 - b) - 1 PROVE Adjoin(q, i, i + 1)
  <2>1. n - i \in b .. e - 1 /\ n - i \in 1 .. n - 1 /\ n - (n - i) = i BY <1>4, <1>7 DEF n
  <2>2. Adjoin(d, n - i, (n - i) + 1) BY <1>1, <2>1
  <2> DEFINE m == n - i
  <2>3. m \in 1 .. Len(q.rows) - 1 /\ Adjoin(d, m, m + 1) /\ Len(q.rows) - m = i BY <2>1, <2>2 DEF n
  <2> HIDE DEF m
  <2>4. Adjoin(q, Len(q.rows) - m, Len(q.rows) - m + 1) BY <2>3, ReversalAdjoin DEF d
  <2>q. QED BY <2>3, <2>4
<1>q. QED BY <1>1, <1>2, <1>3, <1>5, <1>6, <1>7 DEF RideOf, n

\* Rules do not depend on the direction in which a change is looked at.
LEMMA ReversalChange ==
  ASSUME NEW q \in Queries, NEW a, NEW m, NEW dep \in Int, a.arr \in Int, m.arr = -dep,
         ChangeOf(Reversal(q), a, m.trip, m.to, dep)
  PROVE  ChangeOf(q, m, a.trip, a.to, -a.arr)
<1> DEFINE d == Reversal(q)
           ms == MatchingRules(d.rules, a.trip, a.to, m.trip, m.to)
           ks == MatchingRules(q.rules, m.trip, m.to, a.trip, a.to)
           arr == a.arr
<1>1. d.rules = [i \in DOMAIN q.rules |-> ReversedRule(q.rules[i])] BY ReversalFields
<1>2. \A i \in DOMAIN q.rules : q.rules[i] \in Rules BY DEF Queries
<1>3. ASSUME NEW i \in DOMAIN q.rules
      PROVE  /\ d.rules[i].type = q.rules[i].type /\ d.rules[i].min = q.rules[i].min
             /\ d.rules[i].fromStop = q.rules[i].toStop /\ d.rules[i].toStop = q.rules[i].fromStop
             /\ d.rules[i].fromRoute = q.rules[i].toRoute /\ d.rules[i].toRoute = q.rules[i].fromRoute
             /\ d.rules[i].fromTrip = q.rules[i].toTrip /\ d.rules[i].toTrip = q.rules[i].fromTrip
  <2> DEFINE r == q.rules[i]
  <2>1. d.rules[i] = ReversedRule(r) BY <1>1
  <2>2. r \in Rules BY <1>2
  <2> HIDE DEF r, d
  <2>3. /\ ReversedRule(r).type = r.type /\ ReversedRule(r).min = r.min
        /\ ReversedRule(r).fromStop = r.toStop /\ ReversedRule(r).toStop = r.fromStop
        /\ ReversedRule(r).fromRoute = r.toRoute /\ ReversedRule(r).toRoute = r.fromRoute
        /\ ReversedRule(r).fromTrip = r.toTrip /\ ReversedRule(r).toTrip = r.fromTrip
    BY <2>2, ReversedFields
  <2>q. QED BY <2>1, <2>3 DEF r
<1>4. RulesAllow(d.rules, ms, arr, dep) BY DEF ChangeOf
<1> HIDE DEF d
<1>5. ms = ks
  <2>1. DOMAIN d.rules = DOMAIN q.rules BY <1>1
  <2>2. \A i \in DOMAIN q.rules : RuleMatches(d.rules[i], a.trip, a.to, m.trip, m.to)
                                    <=> RuleMatches(q.rules[i], m.trip, m.to, a.trip, a.to)
    BY <1>3 DEF RuleMatches
  <2>q. QED BY <2>1, <2>2 DEF MatchingRules
<1>6. \A i \in DOMAIN q.rules : Specificity(d.rules[i]) = Specificity(q.rules[i])
  BY SMTT(30), <1>3 DEF Specificity
<1>7. ks \subseteq DOMAIN q.rules BY DEF MatchingRules
<1>a. arr \in Int OBVIOUS
<1> HIDE DEF ms, ks, arr
<1>8. ASSUME NEW i \in ks, Strongest(q.rules, ks, i)
      PROVE  q.rules[i].type # "forbidden" /\ (q.rules[i].type = "minimum" => -dep + q.rules[i].min <= -arr)
  <2>1. Strongest(d.rules, ms, i) BY <1>5, <1>6, <1>7, <1>8 DEF Strongest
  <2>2. d.rules[i].type # "forbidden" /\ (d.rules[i].type = "minimum" => arr + d.rules[i].min <= dep)
    BY <1>4, <1>5, <2>1 DEF RulesAllow
  <2>3. q.rules[i].min \in Int BY <1>2, <1>7 DEF Rules
  <2>4. arr + q.rules[i].min <= dep => -dep + q.rules[i].min <= -arr BY <1>a, <2>3
  <2>q. QED BY <1>3, <1>7, <2>2, <2>4
<1>9. RulesAllow(q.rules, ks, m.arr, -arr) BY <1>8 DEF RulesAllow
<1>q. QED BY <1>9 DEF ChangeOf, ks, arr

\* The path of a reversed query, flipped back, leg by leg.
LEMMA FlipIsPath ==
  ASSUME NEW q \in Queries, NEW J \in Seq(Legs), Path(Reversal(q), J, FALSE, TRUE)
  PROVE  Path(q, FlipLegs(J), FALSE, TRUE)
<1> DEFINE d == Reversal(q)
           F == FlipLegs(J)
           n == Len(J)
           N == Len(q.rows)
<1>1. /\ n \in Nat /\ Len(F) = n /\ DOMAIN F = 1 .. n /\ DOMAIN J = 1 .. n
      /\ \A k \in 1 .. n :
           LET x == n + 1 - k
           IN  /\ x \in 1 .. n /\ J[x] \in Legs /\ F[k] \in Legs
               /\ F[k].kind = J[x].kind /\ F[k].trip = J[x].trip
               /\ F[k].from = J[x].to /\ F[k].to = J[x].from
               /\ F[k].dep = -J[x].arr /\ F[k].arr = -J[x].dep
               /\ F[k].stay <=> k > 1 /\ J[x + 1].stay
  BY FlipFacts
<1>2. \A k \in 1 .. n : J[k].stay => k > 1 /\ J[k].kind = "ride" /\ J[k-1].kind = "ride"
  BY StayFollowsRide
<1>3. /\ N \in Nat /\ DOMAIN q.rows = 1 .. N /\ DOMAIN d.rows = 1 .. N
      /\ d.walk = ReversedWalk(q.walk) /\ d.sources = q.targets /\ d.targets = q.sources
      /\ d.conditional = q.conditional
  BY ReversalFields, ReversalRows
<1>4. \A i \in 1 .. N : /\ N + 1 - i \in 1 .. N
                        /\ d.rows[i].trip = q.rows[N + 1 - i].trip /\ d.rows[i].from = q.rows[N + 1 - i].to
                        /\ d.rows[i].to = q.rows[N + 1 - i].from
                        /\ d.rows[i].depTime = -q.rows[N + 1 - i].arrTime
                        /\ d.rows[i].arrTime = -q.rows[N + 1 - i].depTime
                        /\ d.rows[i].pickup = q.rows[N + 1 - i].dropOff
                        /\ d.rows[i].dropOff = q.rows[N + 1 - i].pickup
                        /\ q.rows[N + 1 - i].depTime \in Int /\ q.rows[N + 1 - i].arrTime \in Int
                        /\ IsFirst(d, i) <=> IsLast(q, N + 1 - i)
                        /\ IsLast(d, i) <=> IsFirst(q, N + 1 - i)
  BY ReversalRow, ReversalEnds
<1>5. \A k \in 1 .. n : LegIsSound(d, J, FALSE, TRUE, k) BY <1>1 DEF Path
<1>6. SUFFICES ASSUME NEW k \in 1 .. n PROVE LegIsSound(q, F, FALSE, TRUE, k)
  BY <1>1 DEF Path
<1> DEFINE x == n + 1 - k
<1> HIDE DEF F, n, N
<1>7. /\ x \in 1 .. n /\ J[x] \in Legs /\ F[k] \in Legs
      /\ F[k].kind = J[x].kind /\ F[k].trip = J[x].trip
      /\ F[k].from = J[x].to /\ F[k].to = J[x].from
      /\ F[k].dep = -J[x].arr /\ F[k].arr = -J[x].dep
      /\ F[k].stay <=> k > 1 /\ J[x + 1].stay
  BY <1>1
<1>8. k > 1 => /\ x + 1 \in 1 .. n /\ J[x + 1] \in Legs
               /\ F[k-1].kind = J[x+1].kind /\ F[k-1].trip = J[x+1].trip
               /\ F[k-1].from = J[x+1].to /\ F[k-1].to = J[x+1].from
               /\ F[k-1].dep = -J[x+1].arr /\ F[k-1].arr = -J[x+1].dep
  <2>1. SUFFICES ASSUME k > 1
                 PROVE  /\ x + 1 \in 1 .. n /\ J[x + 1] \in Legs
                        /\ F[k-1].kind = J[x+1].kind /\ F[k-1].trip = J[x+1].trip
                        /\ F[k-1].from = J[x+1].to /\ F[k-1].to = J[x+1].from
                        /\ F[k-1].dep = -J[x+1].arr /\ F[k-1].arr = -J[x+1].dep
    OBVIOUS
  <2>2. k - 1 \in 1 .. n /\ n + 1 - (k - 1) = x + 1 BY <1>1, <2>1
  <2>q. QED BY <1>1, <2>2
<1>9. /\ (k = n <=> x = 1) /\ (k > 1 <=> x < n) /\ (k = 1 <=> x = n)
      /\ k < n => /\ F[k + 1].stay <=> J[x].stay
  <2>1. (k = n <=> x = 1) /\ (k > 1 <=> x < n) /\ (k = 1 <=> x = n) BY <1>1
  <2>2. k < n => k + 1 \in 1 .. n /\ (n + 1 - (k + 1)) + 1 = x /\ k + 1 > 1 BY <1>1
  <2>q. QED BY <1>1, <2>1, <2>2
<1>10. J[x].dep \in Int /\ J[x].arr \in Int /\ J[x].stay \in BOOLEAN BY <1>7 DEF Legs
<1>11. LegIsSound(d, J, FALSE, TRUE, x) BY <1>5, <1>7
<1>12. F[k].arr - F[k].dep = J[x].arr - J[x].dep BY <1>7, <1>10
<1>13. F[k].stay => F[k].kind = "ride"
  <2>1. SUFFICES ASSUME k > 1, J[x + 1].stay PROVE J[x].kind = "ride" BY <1>7
  <2>2. x + 1 \in 1 .. n /\ (x + 1) - 1 = x BY <1>7, <1>8, <2>1
  <2>q. QED BY <1>2, <2>1, <2>2
<1>14. Continued(F, FALSE, k) <=> J[x].stay
  <2>1. CASE k = n
    <3>1. x = 1 /\ ~(x > 1) BY <1>9, <2>1
    <3>2. ~J[x].stay BY <1>2, <1>7, <3>1
    <3>q. QED BY <1>1, <2>1, <3>2 DEF Continued
  <2>2. CASE k # n
    <3>1. k < n BY <1>1, <2>2
    <3>q. QED BY <1>1, <1>9, <2>2, <3>1 DEF Continued
  <2>q. QED BY <2>1, <2>2
<1>15. Continued(J, FALSE, x) <=> F[k].stay
  <2>1. CASE x = n
    <3>1. ~(k > 1) BY <1>9, <2>1, <1>1
    <3>q. QED BY <1>7, <2>1, <3>1 DEF Continued, n
  <2>2. CASE x # n
    <3>1. k > 1 BY <1>1, <1>7, <1>9, <2>2
    <3>q. QED BY <1>7, <2>2, <3>1 DEF Continued, n
  <2>q. QED BY <2>1, <2>2
<1> HIDE DEF x, d
<1>16. F[k].kind = "access" =>
         /\ F[k].from = F[k].to /\ ~F[k].stay
         /\ \/ k = 1 /\ [stop |-> F[k].to, walk |-> F[k].arr - F[k].dep] \in q.sources
            \/ /\ TRUE /\ k = Len(F)
               /\ [stop |-> F[k].from, walk |-> F[k].arr - F[k].dep] \in q.targets
  <2>1. SUFFICES ASSUME J[x].kind = "access"
                 PROVE  /\ F[k].from = F[k].to /\ ~F[k].stay
                        /\ \/ k = 1 /\ [stop |-> F[k].to, walk |-> F[k].arr - F[k].dep] \in q.sources
                           \/ k = n /\ [stop |-> F[k].from, walk |-> F[k].arr - F[k].dep] \in q.targets
    BY <1>1, <1>7
  <2>2. /\ J[x].from = J[x].to
        /\ \/ x = 1 /\ [stop |-> J[x].to, walk |-> J[x].arr - J[x].dep] \in d.sources
           \/ x = n /\ [stop |-> J[x].from, walk |-> J[x].arr - J[x].dep] \in d.targets
    BY <1>11, <2>1 DEF LegIsSound, n
  <2>3. ~F[k].stay BY <1>7, <1>13, <2>1
  <2>4. CASE x = 1 /\ [stop |-> J[x].to, walk |-> J[x].arr - J[x].dep] \in d.sources
    BY <1>3, <1>7, <1>9, <1>12, <2>2, <2>3, <2>4
  <2>5. CASE x = n /\ [stop |-> J[x].from, walk |-> J[x].arr - J[x].dep] \in d.targets
    BY <1>3, <1>7, <1>9, <1>12, <2>2, <2>3, <2>5
  <2>q. QED BY <2>2, <2>4, <2>5
<1>17. F[k].kind = "walk" =>
         /\ ~F[k].stay
         /\ [from |-> F[k].from, to |-> F[k].to, secs |-> F[k].arr - F[k].dep] \in q.walk
  <2>1. SUFFICES ASSUME J[x].kind = "walk"
                 PROVE  [from |-> F[k].from, to |-> F[k].to, secs |-> F[k].arr - F[k].dep] \in q.walk
    BY <1>7, <1>13
  <2>2. [from |-> J[x].from, to |-> J[x].to, secs |-> J[x].arr - J[x].dep] \in d.walk
    BY <1>11, <2>1 DEF LegIsSound
  <2>3. PICK e \in q.walk : [from |-> J[x].from, to |-> J[x].to, secs |-> J[x].arr - J[x].dep]
                              = [e EXCEPT !.from = e.to, !.to = e.from]
    BY <1>3, <2>2 DEF ReversedWalk
  <2>4. e \in Edges BY DEF Queries
  <2>5. e.from = J[x].to /\ e.to = J[x].from /\ e.secs = J[x].arr - J[x].dep BY <2>3, <2>4 DEF Edges
  <2>6. e = [from |-> e.from, to |-> e.to, secs |-> e.secs] BY <2>4 DEF Edges
  <2>q. QED BY <1>7, <1>12, <2>5, <2>6
<1>18. F[k].kind = "ride" => RideIsReal(q, F, FALSE, k)
  <2>1. SUFFICES ASSUME J[x].kind = "ride" PROVE RideIsReal(q, F, FALSE, k) BY <1>7
  <2>2. PICK b, e \in DOMAIN d.rows :
          /\ RideOf(d, J[x], b, e)
          /\ IF J[x].stay THEN IsFirst(d, b) ELSE Allowed(d, d.rows[b].pickup)
          /\ IF Continued(J, FALSE, x) THEN IsLast(d, e) ELSE Allowed(d, d.rows[e].dropOff)
    BY <1>11, <2>1 DEF LegIsSound, RideIsReal
  <2>3. b \in 1 .. N /\ e \in 1 .. N BY <1>3
  <2>4. RideOf(q, F[k], N + 1 - e, N + 1 - b)
    BY <1>7, <1>10, <2>2, <2>3, ReversalRide DEF d, N
  <2>5. IF F[k].stay THEN IsFirst(q, N + 1 - e) ELSE Allowed(q, q.rows[N + 1 - e].pickup)
    BY <1>3, <1>4, <1>15, <2>2, <2>3 DEF Allowed
  <2>6. IF Continued(F, FALSE, k) THEN IsLast(q, N + 1 - b) ELSE Allowed(q, q.rows[N + 1 - b].dropOff)
    BY <1>3, <1>4, <1>14, <2>2, <2>3 DEF Allowed
  <2>7. N + 1 - e \in DOMAIN q.rows /\ N + 1 - b \in DOMAIN q.rows BY <1>3, <1>4, <2>3
  <2>q. QED BY <2>4, <2>5, <2>6, <2>7 DEF RideIsReal
<1>19. F[k].stay => StayIsReal(q, F, k)
  <2>1. SUFFICES ASSUME k > 1, J[x + 1].stay PROVE StayIsReal(q, F, k) BY <1>7
  <2>2. x + 1 \in 1 .. n /\ (x + 1) - 1 = x BY <1>7, <1>8, <2>1
  <2>3. StayIsReal(d, J, x + 1) BY <1>5, <2>1, <2>2 DEF LegIsSound
  <2>4. PICK a, b \in 1 .. N :
          /\ StayJoins(d, J[x], a, b) /\ d.rows[b].trip = J[x + 1].trip
          /\ d.rows[b].from = J[x + 1].from /\ d.rows[b].depTime = J[x + 1].dep
    BY <1>3, <2>2, <2>3 DEF StayIsReal
  <2>5. J[x + 1].kind = "ride" BY <1>2, <2>1, <2>2
  <2>6. /\ J[x].kind = "ride" /\ d.rows[a].trip = J[x].trip /\ IsLast(d, a) /\ IsFirst(d, b)
        /\ MayStay(d, d.rows[a], d.rows[b])
        /\ d.rows[a].to = J[x].to /\ d.rows[a].arrTime = J[x].arr
    BY <2>4 DEF StayJoins
  <2> DEFINE u == N + 1 - b
             v == N + 1 - a
  <2>7. MayStay(q, q.rows[u], q.rows[v]) BY <2>6, ReversalMayStay DEF d, N
  <2>8. /\ u \in DOMAIN q.rows /\ v \in DOMAIN q.rows
        /\ q.rows[u].trip = J[x + 1].trip /\ IsLast(q, u) /\ IsFirst(q, v)
        /\ q.rows[u].to = J[x + 1].from /\ q.rows[u].arrTime = -J[x + 1].dep
        /\ q.rows[v].trip = J[x].trip /\ q.rows[v].from = J[x].to /\ q.rows[v].depTime = -J[x].arr
    <3>1. /\ u \in 1 .. N /\ v \in 1 .. N
          /\ d.rows[b].trip = q.rows[u].trip /\ d.rows[b].from = q.rows[u].to
          /\ d.rows[b].depTime = -q.rows[u].arrTime /\ q.rows[u].arrTime \in Int
          /\ d.rows[a].trip = q.rows[v].trip /\ d.rows[a].to = q.rows[v].from
          /\ d.rows[a].arrTime = -q.rows[v].depTime /\ q.rows[v].depTime \in Int
          /\ IsLast(q, u) /\ IsFirst(q, v)
      BY <1>4, <2>6
    <3> HIDE DEF u, v
    <3>q. QED BY SMTT(30), <1>3, <2>4, <2>6, <3>1
  <2> HIDE DEF u, v
  <2>9. StayJoins(q, F[k-1], u, v) BY <1>8, <2>1, <2>5, <2>7, <2>8 DEF StayJoins
  <2>q. QED BY <1>7, <2>1, <2>6, <2>8, <2>9 DEF StayIsReal
<1>20. k > 1 => LegsMeet(F, k)
  <2>1. SUFFICES ASSUME k > 1 PROVE LegsMeet(F, k) OBVIOUS
  <2>2. x + 1 \in 1 .. n /\ (x + 1) - 1 = x /\ x + 1 > 1 BY <1>7, <1>8, <2>1
  <2>3. LegsMeet(J, x + 1) BY <1>5, <2>2 DEF LegIsSound
  <2>4. J[x].arr <= J[x + 1].dep /\ (J[x + 1].stay \/ J[x].to = J[x + 1].from) BY <2>2, <2>3 DEF LegsMeet
  <2>5. J[x + 1].dep \in Int BY <1>8, <2>1 DEF Legs
  <2>q. QED BY <1>7, <1>8, <1>10, <2>1, <2>4, <2>5 DEF LegsMeet
<1>21. k > 1 => ChangeIsMade(q, F, k)
  <2>1. SUFFICES ASSUME k > 1, F[k].kind = "ride", ~F[k].stay, NEW j \in 1 .. k - 1, LastRide(F, k - 1, j)
                 PROVE  ChangeOf(q, F[j], F[k].trip, F[k].from, F[k].dep)
    BY DEF ChangeIsMade
  <2> DEFINE y == n + 1 - j
  <2>2. j \in 1 .. n BY <1>1
  <2>3. /\ y \in 1 .. n /\ J[y] \in Legs /\ F[j].kind = J[y].kind /\ F[j].trip = J[y].trip
        /\ F[j].to = J[y].from /\ F[j].arr = -J[y].dep
    BY <1>1, <2>2
  <2>4. x < y /\ x \in 1 .. y - 1 BY <1>1, <2>2 DEF x
  <2>5. J[y].kind = "ride" /\ J[x].kind = "ride" BY <1>7, <2>1, <2>3 DEF LastRide
  <2>6. ASSUME NEW m \in x + 1 .. y - 1 PROVE J[m].kind # "ride"
    <3>0. n \in Int /\ k \in Int /\ j \in Int /\ m \in (n + 1 - k) + 1 .. (n + 1 - j) - 1
      BY <1>1, <2>2, <2>6 DEF x
    <3>1. n + 1 - m \in j + 1 .. k - 1 /\ n + 1 - m \in 1 .. n /\ n + 1 - (n + 1 - m) = m
      <4>1. n + 1 - m \in j + 1 .. k - 1 /\ n + 1 - (n + 1 - m) = m BY <3>0
      <4>q. QED BY <1>1, <2>2, <3>0, <4>1
    <3>2. F[n + 1 - m].kind # "ride" BY <2>1, <3>1 DEF LastRide
    <3> DEFINE r == n + 1 - m
    <3>3. r \in 1 .. n /\ n + 1 - r = m /\ F[r].kind # "ride" BY <3>1, <3>2
    <3> HIDE DEF r
    <3>4. F[r].kind = J[n + 1 - r].kind BY <1>1, <3>3
    <3>q. QED BY <3>3, <3>4
  <2>7. LastRide(J, y - 1, x)
    <3> HIDE DEF y
    <3>q. QED BY <2>4, <2>5, <2>6 DEF LastRide
  <2>8. ~J[y].stay
    <3>1. SUFFICES ASSUME J[y].stay PROVE FALSE OBVIOUS
    <3>2. J[y - 1].kind = "ride" BY <1>2, <2>3, <3>1
    <3>3. ~(y - 1 \in x + 1 .. y - 1) BY <2>6, <3>2
    <3>4. y = x + 1
      <4> HIDE DEF y
      <4>q. QED BY <1>7, <1>1, <2>3, <2>4, <3>3
    <3>q. QED BY <1>7, <2>1, <3>1, <3>4
  <2>9. ChangeOf(d, J[x], J[y].trip, J[y].from, J[y].dep)
    <3>1. y > 1 /\ LegIsSound(d, J, FALSE, TRUE, y)
      <4>1. LegIsSound(d, J, FALSE, TRUE, y) BY <1>5, <2>3
      <4> HIDE DEF y
      <4>2. y > 1 BY <1>1, <1>7, <2>3, <2>4
      <4>q. QED BY <4>1, <4>2
    <3>2. ChangeIsMade(d, J, y) BY <3>1 DEF LegIsSound
    <3>q. QED BY <2>4, <2>5, <2>7, <2>8, <3>2 DEF ChangeIsMade
  <2>10. J[y].dep \in Int BY <2>3 DEF Legs
  <2> HIDE DEF y
  <2>11. ChangeOf(q, F[j], J[x].trip, J[x].to, -J[x].arr)
    <3> DEFINE dep == J[y].dep
    <3>1. dep \in Int /\ J[x].arr \in Int /\ F[j].arr = -dep
          /\ ChangeOf(Reversal(q), J[x], F[j].trip, F[j].to, dep)
      BY <1>10, <2>3, <2>9, <2>10 DEF d
    <3> HIDE DEF dep
    <3>q. QED BY <3>1, ReversalChange
  <2>q. QED BY <1>7, <2>11
<1>q. QED BY <1>1, <1>16, <1>17, <1>18, <1>19, <1>20, <1>21, Zenon DEF LegIsSound

\* Its ends change places.
LEMMA FlipJoinsEndpoints ==
  ASSUME NEW q \in Queries, NEW J \in Seq(Legs), Path(Reversal(q), J, FALSE, TRUE), JoinsEndpoints(Reversal(q), J)
  PROVE  /\ JoinsEndpoints(q, FlipLegs(J))
         /\ FlipLegs(J) # <<>> => /\ J # <<>> /\ FlipLegs(J)[1].dep = -J[Len(J)].arr
                                  /\ FlipLegs(J)[Len(FlipLegs(J))].arr = -J[1].dep
                                  /\ J[1].dep \in Int
<1> DEFINE d == Reversal(q)
           F == FlipLegs(J)
           n == Len(J)
<1>1. d.sources = q.targets /\ d.targets = q.sources BY ReversalFields
<1>2. /\ n \in Nat /\ Len(F) = n /\ DOMAIN F = 1 .. n /\ DOMAIN J = 1 .. n /\ F \in Seq(Legs)
      /\ \A k \in 1 .. n :
           LET x == n + 1 - k
           IN  /\ J[x] \in Legs /\ F[k].kind = J[x].kind
               /\ F[k].from = J[x].to /\ F[k].to = J[x].from
               /\ F[k].dep = -J[x].arr /\ F[k].arr = -J[x].dep
  BY FlipFacts
<1> HIDE DEF F, d, n
<1>3. CASE n = 0
  <2>1. J = <<>> /\ F = <<>> BY <1>2, <1>3 DEF n
  <2>q. QED BY <1>1, <2>1 DEF JoinsEndpoints, F, d
<1>4. CASE n # 0
  <2>1. 1 \in 1 .. n /\ n \in 1 .. n /\ n + 1 - 1 = n /\ n + 1 - n = 1 BY <1>2, <1>4
  <2>2. /\ J[n] \in Legs /\ F[1].kind = J[n].kind /\ F[1].from = J[n].to
        /\ F[1].dep = -J[n].arr /\ F[1].arr = -J[n].dep
        /\ J[1] \in Legs /\ F[n].kind = J[1].kind /\ F[n].to = J[1].from
        /\ F[n].dep = -J[1].arr /\ F[n].arr = -J[1].dep
    BY <1>2, <2>1
  <2>3. F # <<>> /\ J # <<>> BY <1>2, <2>1
  <2>4. J[n].arr \in Int /\ J[n].dep \in Int /\ J[1].arr \in Int /\ J[1].dep \in Int BY <2>2 DEF Legs
  <2>5. F[1].arr - F[1].dep = J[n].arr - J[n].dep /\ F[n].arr - F[n].dep = J[1].arr - J[1].dep BY SMTT(30), <2>2, <2>4
  <2>6. /\ \E s \in q.targets : EndsAt(s, J[1].from, J[1])
        /\ \E t \in q.sources : EndsAt(t, J[n].to, J[n])
    <3>1. JoinsEndpoints(d, J) BY DEF d
    <3>q. QED BY <1>1, <2>3, <3>1 DEF JoinsEndpoints, n
  <2>7. (\E s \in q.targets : EndsAt(s, F[n].to, F[n])) /\ \E t \in q.sources : EndsAt(t, F[1].from, F[1])
    BY <2>2, <2>5, <2>6 DEF EndsAt
  <2>8. JoinsEndpoints(q, F) BY <1>2, <2>3, <2>7 DEF JoinsEndpoints
  <2>q. QED BY <1>2, <2>2, <2>3, <2>4, <2>8 DEF F, n
<1>q. QED BY <1>3, <1>4

\* Every journey the router returns, for whatever timetable whose trips and
\* continuations run forward, can be made, legs flipped back included: it joins
\* a source to a target, keeps to the query's instant, rides what is in the
\* timetable, boards and leaves where that is allowed, stays on board only where
\* trip_links permits it and none forbids it, and leaves each change the time
\* its most specific rules ask for.
THEOREM ReturnedJourneysAreFeasible == Spec => []JourneyIsFeasible
<1>1. ASSUME IInv PROVE JourneyIsFeasible
  <2>1. SUFFICES ASSUME outcome = "found", Orderly(tt)
                 PROVE  /\ Feasible(tt, Journey)
                        /\ Journey # <<>> =>
                             IF tt.latest THEN Journey[1].dep = -target.total /\ Journey[Len(Journey)].arr <= tt.at
                             ELSE Journey[1].dep >= tt.at /\ Journey[Len(Journey)].arr = target.total
    BY DEF JourneyIsFeasible
  <2>2. tt \in Queries
    <3>1. tt \in Timetables BY <1>1 DEF IInv, TypeInv, QueryInv
    <3>q. QED BY <3>1, TimetablesAssumption DEF WellFormed
  <2>3. LET d == Directed(tt)
        IN  /\ Answer \in Seq(Legs) /\ Path(d, Answer, FALSE, TRUE) /\ JoinsEndpoints(d, Answer)
            /\ Answer # <<>> => Answer[1].dep >= d.at /\ Answer[Len(Answer)].arr = target.total
    BY <1>1, <2>1, AnswerIsSound
  <2>4. Journey = IF tt.latest THEN FlipLegs(Answer) ELSE Answer BY DEF Journey, Answer
  <2>5. CASE ~tt.latest
    <3>1. Directed(tt) = tt /\ Journey = Answer BY <2>4, <2>5 DEF Directed
    <3>2. Feasible(tt, Answer) BY <2>2, <2>3, <3>1, PathIsFeasible
    <3>q. QED BY <2>3, <2>5, <3>1, <3>2
  <2>6. CASE tt.latest
    <3> DEFINE J == Answer
               F == FlipLegs(J)
    <3>1. Directed(tt) = Reversal(tt) /\ Journey = F BY <2>4, <2>6 DEF Directed
    <3>2. /\ J \in Seq(Legs) /\ Path(Reversal(tt), J, FALSE, TRUE) /\ JoinsEndpoints(Reversal(tt), J)
          /\ J # <<>> => J[1].dep >= Reversal(tt).at /\ J[Len(J)].arr = target.total
      BY <2>3, <3>1
    <3>3. Reversal(tt).at = -tt.at /\ tt.at \in Int BY <2>2, ReversalFields DEF Queries
    <3> HIDE DEF J
    <3>4. F \in Seq(Legs) /\ Path(tt, F, FALSE, TRUE) BY <2>2, <3>2, FlipIsPath, FlipFacts
    <3>5. /\ JoinsEndpoints(tt, F)
          /\ F # <<>> => /\ J # <<>> /\ F[1].dep = -J[Len(J)].arr /\ F[Len(F)].arr = -J[1].dep
                         /\ J[1].dep \in Int
      BY <2>2, <3>2, FlipJoinsEndpoints
    <3> HIDE DEF F
    <3>6. Feasible(tt, F) BY <2>2, <3>4, <3>5, PathIsFeasible
    <3>7. F # <<>> => F[1].dep = -target.total /\ F[Len(F)].arr <= tt.at BY <3>2, <3>3, <3>5
    <3>q. QED BY <2>6, <3>1, <3>6, <3>7
  <2>q. QED BY <2>5, <2>6
<1>q. QED BY <1>1, IInvIsInvariant, PTL
=============================================================================
