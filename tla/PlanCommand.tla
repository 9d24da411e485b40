----------------------------- MODULE PlanCommand -----------------------------
(***************************************************************************)
(* `ptv plan` (cmd/plan.go): the timetable of a short horizon is loaded    *)
(* first, the ends of the journey are looked up in it, and while the       *)
(* router finds nothing the horizon is widened.  Beside that run a spinner *)
(* goroutine, a goroutine that checks whether the data is fresh, and a     *)
(* timer: what needs the network on the side shares one budget, and the    *)
(* command does not wait for more than that.                               *)
(*                                                                         *)
(* The router is its abstract specification (module Journeys, which module *)
(* ConnectionScan is held against), over the timetable that was loaded.    *)
(***************************************************************************)
EXTENDS TimetableWindow

Community == INSTANCE SequencesExt

CONSTANTS Requests,   \* what may be asked: at, latest, from, to and the flags
                      \* freshness, disruptions and conditional
          Horizons,   \* planTimetableHorizons
          Radius,     \* --radius
          Far,        \* later than everything
          MaxRide     \* bound: how long before its window a rider may set out

\* The horizons widen, the dates of the model hold the widest of them, and what
\* happens on those dates is over before Far.  Any trip (None) is not a run.
ASSUME RequestsAssumption ==
  /\ Horizons \in Seq(Nat) \ {<<>>}
  /\ \A k, l \in DOMAIN Horizons : k <= l => Horizons[k] <= Horizons[l]
  /\ \A r \in Requests :
       /\ r.at \notin {Far, -Far}
       /\ \A k \in DOMAIN Horizons : Held([at |-> r.at, latest |-> r.latest, horizon |-> Horizons[k]])
       /\ \A text \in {r.from, r.to} : {text.coordinate, text.place} \subseteq Int \cup {None}
  /\ {Far, MaxRide} \subseteq Int /\ Midnight[LastDay + 1] <= Far
  /\ None \notin [day : Days, trip : Int \X Int]

VARIABLES
  planStep,    \* where the command is; in Ended once it returns
  asked,       \* the request
  horizon,     \* index into Horizons
  sources, targets,   \* the ends, once they are looked up
  best,        \* arrival (departure, for "latest") of the best journey
  spinner,     \* off, on, stopping (done is closed) or over (finished is)
  budget,      \* none, open or over
  check,       \* the freshness goroutine: none, running or answered
  interrupted  \* the command's context is cancelled

ends == <<sources, targets>>
aside == <<spinner, budget, check, interrupted>>
planVars == <<planStep, asked, horizon, ends, best, aside>>

Ended == {"printed", "none", "uncovered", "nowhere", "failed", "cancelled"}

PlanInit ==
  /\ planStep = "idle" /\ asked = None /\ horizon = 1 /\ sources = {} /\ targets = {} /\ best = None
  /\ spinner = "off" /\ budget = "none" /\ check = "none" /\ interrupted = FALSE

Reach(k) == [at |-> asked.at, latest |-> asked.latest, horizon |-> Horizons[k]]

\* The command goes on only when it does not wait in progress.Stop.
At(s) == planStep = s /\ spinner # "stopping"

Go(next) == planStep' = next /\ UNCHANGED <<asked, aside>>

\* progress.Stop: closes done, then waits for the goroutine.
StopSpinner == spinner' = IF spinner = "on" THEN "stopping" ELSE spinner

GoAfterStop(next) == planStep' = next /\ StopSpinner /\ UNCHANGED <<asked, budget, check, interrupted>>

(***************************************************************************)
(* The timetable.                                                          *)
(***************************************************************************)
AskToPlan == /\ outcome = "compiled" /\ planStep = "idle" /\ query = None
       /\ asked' \in Requests /\ planStep' = "start"
       /\ UNCHANGED <<windowVars, horizon, ends, best, aside>>

\* Mutated form: the budget is that of the disruptions.
BudgetWantedByOverlay == asked.disruptions

BudgetWanted == asked.freshness \/ asked.disruptions

\* The spinner runs for a terminal only.
StartSpinner == /\ At("start") /\ planStep' = "load"
                /\ budget' = IF BudgetWanted THEN "open" ELSE "none"
                /\ spinner' \in {"off", "on"}
                /\ UNCHANGED <<windowVars, asked, horizon, ends, best, check, interrupted>>

LoadHorizon(k) == horizon' = k /\ query' = Reach(k) /\ window' = Load(Reach(k))

\* Outside the coverage the widest horizon is tried before giving up.
LoadTimetable ==
  /\ At("load") /\ ~interrupted
  /\ LoadHorizon(IF Load(Reach(1)) = NoWindow THEN Len(Horizons) ELSE 1)
  /\ IF window' = NoWindow THEN GoAfterStop("uncovered") ELSE Go("check")
  /\ UNCHANGED <<ends, best>>

StartCheck == /\ At("check") /\ ~(interrupted /\ asked.freshness)
              /\ planStep' = "origin"
              /\ check' = IF asked.freshness THEN "running" ELSE "none"
              /\ UNCHANGED <<windowVars, asked, horizon, ends, best, spinner, budget, interrupted>>

(***************************************************************************)
(* The ends.  A text matches the names of some stops, as a whole, at their *)
(* beginning or anywhere (like), and it may be a coordinate; the geocoder  *)
(* may know a place of that name, in a street when it is not one (street). *)
(***************************************************************************)

\* loadQueryStops: platforms and stations have a name in the index, and that
\* of a station stands for its platforms.
Named(names) == UNION {RuleStops(s.id) : s \in {x \in store.stops : x.kind \in {0, 1} /\ x.id[2] \in names}}

RailModes == {1, 2}

\* filterMajorStops.
MajorFirst(ids) == LET rail == {id \in ids : id[1] \in RailModes} IN IF rail # {} THEN rail ELSE ids

OnFoot(ids) == {[stop |-> id, walk |-> 0] : id \in ids}

\* weightedEndpointsWithinRadius.
Around(pos, reach) == {s \in store.stops : s.pos # None /\ Distance([pos |-> pos], s) <= reach}
Weighted(pos, stops) == {[stop |-> s.id, walk |-> Distance([pos |-> pos], s)] : s \in stops}

\* A street found for what does not look like one: rail stops named like it,
\* up to twice the default radius away, are what was meant.
GeocodedEnds(text) ==
  LET namesakes == {s \in Around(text.place, 2 * Radius) : s.id[1] \in RailModes /\ s.id[2] \in text.like}
      around == Around(text.place, Radius)
  IN  Weighted(text.place, IF around # {} /\ text.street /\ namesakes # {} THEN namesakes ELSE around)

\* A station has its entry in the index even when it has no platforms: its name
\* leads nowhere, and nothing else is tried for it.
InNameIndex(text) == /\ text.coordinate = None
                     /\ \E s \in store.stops : s.kind \in {0, 1} /\ s.id[2] \in text.exact

LocalEnds(text) ==
  CASE text.coordinate # None -> Weighted(text.coordinate, Around(text.coordinate, Radius))
    [] InNameIndex(text) -> OnFoot(Named(text.exact))
    [] OTHER -> OnFoot(MajorFirst(Named(IF Named(text.prefix) # {} THEN text.prefix ELSE text.like)))

\* resolvePlanEndpoints.  Before the geocoder is asked the spinner is stopped.
Resolve(here, text, next, resolved) ==
  /\ At(here)
  /\ LET geocoding == LocalEnds(text) = {} /\ text.coordinate = None /\ ~InNameIndex(text)
     IN  /\ resolved' \in IF geocoding /\ text.place # None THEN {{}, GeocodedEnds(text)} ELSE {LocalEnds(text)}
         /\ IF resolved' = {} /\ ~InNameIndex(text) THEN GoAfterStop("nowhere")
            ELSE IF geocoding THEN GoAfterStop(next) ELSE Go(next)
  /\ UNCHANGED <<windowVars, horizon, best>>

ResolveOrigin == Resolve("origin", asked.from, "destination", sources) /\ UNCHANGED targets
ResolveDestination == Resolve("destination", asked.to, "plan", targets) /\ UNCHANGED sources

(***************************************************************************)
(* The router.                                                             *)
(***************************************************************************)
RunOf(c) == [day |-> c.day, trip |-> c.trip]
RunIds(t) == [day : Days, trip : DOMAIN t.trips]

Router(t) == INSTANCE Journeys WITH
               Stops <- IdsOf(t.stops), Trips <- RunIds(t), Any <- None, Infinity <- Far,
               RouteOf <- [r \in RunIds(t) |-> t.trips[r.trip].route]

Policy(n) == CASE n = 0 -> "regular" [] n = 1 -> "none" [] OTHER -> "request"
RuleType(n) == CASE n = NoTransfer -> "forbidden" [] n = 2 -> "minimum" [] OTHER -> "recommended"

RouterRow(c) == [trip |-> RunOf(c), from |-> c.from, to |-> c.to, depTime |-> c.dep, arrTime |-> c.arr,
                 pickup |-> Policy(c.pickup), dropOff |-> Policy(c.dropOff)]

RouterRule(r) == [r EXCEPT !.type = RuleType(@)]

RouterLink(k) == [type |-> IF k.type = StayTransfer THEN "stay" ELSE "leave",
                  fromTrip |-> [day |-> k.fromDay, trip |-> k.fromTrip],
                  toTrip |-> [day |-> k.toDay, trip |-> k.toTrip], fromStop |-> k.from, toStop |-> k.to]

\* In the order of connection_key.
Earlier(a, b) == \/ RowBefore(a.trip, b.trip)
                 \/ a.trip = b.trip /\ (a.day < b.day \/ (a.day = b.day /\ a.fromSeq < b.fromSeq))

RouterRows(conns) ==
  LET Nth(n) == CHOOSE c \in conns : Cardinality({o \in conns : Earlier(o, c)}) = n - 1
      rows[n \in 0 .. Cardinality(conns)] == IF n = 0 THEN <<>> ELSE Append(rows[n - 1], RouterRow(Nth(n)))
  IN  rows[Cardinality(conns)]

RouterQuery(tt) ==
  [rows |-> RouterRows(tt.connections), walk |-> tt.walk,
   rules |-> Community!SetToSeq({RouterRule(r) : r \in tt.rules}),
   links |-> {RouterLink(k) : k \in tt.continuations},
   sources |-> sources, targets |-> targets,
   at |-> asked.at, latest |-> asked.latest, conditional |-> asked.conditional]

\* PlanEarliestArrival and PlanLatestDeparture, over the timetable of reach q.
Answer(tt, q) == IF asked.latest THEN Router(store)!LatestDeparture(RouterQuery(tt), WindowStart(q) - MaxRide)
                 ELSE Router(store)!EarliestArrival(RouterQuery(tt), asked.at)

SomeWay(answer) == answer \notin {Far, -Far}

(***************************************************************************)
(* The journey.                                                            *)
(***************************************************************************)

\* From a place to itself there is nothing to plan.
PlanJourney ==
  /\ At("plan") /\ ~interrupted
  /\ best' = IF asked.from = asked.to THEN asked.at ELSE Answer(window, query)
  /\ Go("planned")
  /\ UNCHANGED <<windowVars, horizon, ends>>

Contradicted(q) ==
  \E a, b \in DOMAIN q.rows :
    LET ms == Router(store)!MatchingRules(q.rules, q.rows[a].trip, q.rows[a].to, q.rows[b].trip, q.rows[b].from)
    IN  Router(store)!Conflicting(q.rules, ms)

\* Trips with gaps and rules that contradict each other may make the router fail,
\* unless an end leads nowhere, which it looks at first.
MayFail(q) == Router(store)!HasGap(q) \/ Contradicted(q)

RouterFails ==
  /\ At("plan") /\ asked.from # asked.to /\ sources # {} /\ targets # {} /\ MayFail(RouterQuery(window))
  /\ GoAfterStop("failed")
  /\ UNCHANGED <<windowVars, horizon, ends, best>>

KeepJourney == /\ At("planned") /\ SomeWay(best)
               /\ Go("overlay") /\ UNCHANGED <<windowVars, horizon, ends, best>>

\* Mutated form: one retry.
CanWidenOnce == horizon = 1

CanWiden == horizon < Len(Horizons)

Widen ==
  /\ At("planned") /\ ~SomeWay(best) /\ CanWiden /\ ~interrupted
  /\ LoadHorizon(horizon + 1)
  /\ IF window' = NoWindow THEN GoAfterStop("uncovered") ELSE Go("plan")
  /\ UNCHANGED <<ends, best>>

GiveUp == /\ At("planned") /\ ~SomeWay(best) /\ ~CanWiden /\ ~interrupted
          /\ GoAfterStop("none") /\ UNCHANGED <<windowVars, horizon, ends, best>>

\* The disruptions are for journeys with a leg, and only while there is budget;
\* without credentials they are not asked for.
Overlay ==
  /\ At("overlay") /\ ~interrupted
  /\ \/ Go("report")
     \/ asked.disruptions /\ best # asked.at /\ budget = "open" /\ Go("asking")
  /\ UNCHANGED <<windowVars, horizon, ends, best>>

\* annotateDisruptions answers, fails, or is cut off by the budget.
DisruptionsAnswer == /\ At("asking") /\ ~interrupted
                     /\ Go("report") /\ UNCHANGED <<windowVars, horizon, ends, best>>
DisruptionsCutOff == DisruptionsAnswer /\ budget = "over"

Report == /\ At("report") /\ GoAfterStop("select")
          /\ UNCHANGED <<windowVars, horizon, ends, best>>

\* The select on the freshness result and the budget, then the output.
Write == /\ At("select") /\ ~interrupted
         /\ asked.freshness => check = "answered" \/ budget = "over"
         /\ Go("printed")
         /\ UNCHANGED <<windowVars, horizon, ends, best>>

Interruptible == {"load", "plan", "planned", "overlay", "asking", "select"}
                   \cup IF asked # None /\ asked.freshness THEN {"check"} ELSE {}

Cancelled == /\ \E s \in Interruptible : At(s)
             /\ interrupted
             /\ GoAfterStop("cancelled")
             /\ UNCHANGED <<windowVars, horizon, ends, best>>

(***************************************************************************)
(* What happens on the side.                                               *)
(***************************************************************************)
Aside == UNCHANGED <<windowVars, planStep, asked, horizon, ends, best>>

SpinnerEnds == /\ spinner = "stopping" /\ spinner' = "over"
               /\ Aside /\ UNCHANGED <<budget, check, interrupted>>

CheckAnswers == /\ check = "running" /\ check' = "answered"
                /\ Aside /\ UNCHANGED <<spinner, budget, interrupted>>

BudgetEnds == /\ budget = "open" /\ budget' = "over"
              /\ Aside /\ UNCHANGED <<spinner, check, interrupted>>

Interrupt == /\ planStep \notin {"idle"} \cup Ended /\ ~interrupted /\ interrupted' = TRUE
             /\ Aside /\ UNCHANGED <<spinner, budget, check>>

PlanNext == \/ AskToPlan \/ StartSpinner \/ LoadTimetable \/ StartCheck \/ ResolveOrigin \/ ResolveDestination
            \/ PlanJourney \/ RouterFails \/ KeepJourney \/ Widen \/ GiveUp \/ Overlay \/ DisruptionsAnswer
            \/ Report \/ Write \/ Cancelled \/ SpinnerEnds \/ CheckAnswers \/ BudgetEnds \/ Interrupt

\* A process compiles an archive and plans a journey on it.
PlanSpec ==
  /\ WindowInit /\ PlanInit
  /\ [][\/ CompilerNext /\ UNCHANGED <<windowVars, planVars>>
        \/ PlanNext /\ UNCHANGED compilerVars]_<<compilerVars, windowVars, planVars>>

\* Where the command does not wait for what may never come: it computes, or a
\* lookup of the geocoder times out.  One of its steps is always possible there.
Computing == {"start", "load", "check", "origin", "destination", "plan", "planned", "overlay", "report"}
Computes == \E s \in Computing :
              At(s) /\ planStep' \in (Computing \cup {"asking", "select"} \cup Ended) \ {s}

\* The rest: the budget runs out, the spinner sees that it is done, and what is
\* possible then is done.  Nothing is assumed of the services asked.
PlanFairness == /\ WF_planStep(Computes) /\ WF_planStep(DisruptionsCutOff)
                /\ WF_planStep(Write) /\ WF_planStep(Cancelled)
                /\ WF_spinner(SpinnerEnds) /\ WF_budget(BudgetEnds)

(***************************************************************************)
(* Properties.                                                             *)
(***************************************************************************)

\* The timetable that the store has for the widest horizon, taken from its
\* connections service day by service day.
Widest == Reach(Len(Horizons))

WholeTimetable ==
  LET conns == UNION {Runs(Widest, d) : d \in {x \in Days : x <= LocalDate(WindowEnd(Widest))}}
  IN  [connections |-> conns, walk |-> LoadWalking, rules |-> LoadRules(conns),
       continuations |-> LoadContinuations(conns)]

\* "No journey" is said only when the whole horizon of 36 hours has none, and
\* "outside the coverage" only when nothing runs in it, although the ends were
\* looked up in a narrower timetable and the first one may have been empty.
NoWayMissed ==
  /\ planStep = "none" => ~SomeWay(Answer(WholeTimetable, Widest))
  /\ planStep = "uncovered" => WholeTimetable.connections = {}

\* The shortest horizon is enough for a journey that is over within it: nothing
\* the rest of the 36 hours offers arrives earlier, or leaves later, unless the
\* router may fail on it.  (What a trip skips may lie outside the short one.)
InsideWindow == IF asked.latest THEN best >= WindowStart(query) ELSE best <= WindowEnd(query)

FastJourneyIsBest ==
  planStep = "planned" /\ SomeWay(best) /\ InsideWindow /\ asked.from # asked.to
    => best = Answer(WholeTimetable, Widest) \/ MayFail(RouterQuery(WholeTimetable))

\* specs/audit-remediation/PRODUCT.md: "Planning considers at least the 36-hour
\* search horizon around the requested direction".
JourneyIsBest ==
  planStep = "planned" /\ SomeWay(best) /\ asked.from # asked.to
    => best = Answer(WholeTimetable, Widest)

\* The command returns, with its spinner erased, whatever the services that it
\* asks on the side do.
PlanReturns == planStep # "idle" ~> planStep \in Ended /\ spinner \in {"off", "over"}
=============================================================================
