--------------------------- MODULE VehicleLookup ---------------------------
(***************************************************************************)
(* `ptv vehicle` (cmd/vehicle.go): a vehicle is looked for in the PTV API, *)
(* one call after the other, and what was found, or the lack of it, is     *)
(* then completed from the GTFS Realtime vehicle positions.                *)
(*                                                                         *)
(* Any call may find the vehicle, not find it, or fail.                    *)
(***************************************************************************)
EXTENDS RealtimeSnapshot

CONSTANTS RouteTypes,  \* the modes, in the order of routeTypesToProbe
          FeedTypes,   \* those with a vehicle-position feed, in catalog order
          Units,       \* the units a vehicle may consist of
          Queried,     \* the unit queried
          Descriptors, \* the labels a run may have, {} for none
          Positions,   \* what a vehicle-position endpoint may answer with
          Now          \* the instant of the command

\* Observations as the feed has them.
Sightings == [label : SUBSET Units, stamp : Int \cup {None},
              state : {"current", "stale", "unknown", "future"}]

\* A mode is the number of a route type, and a feed's message was decoded.
ASSUME TypesAssumption == /\ RouteTypes \in Seq(Nat) /\ FeedTypes \in Seq(Nat)
                          /\ {Now, Skew, Window} \subseteq Int /\ None \notin Int \cup Sightings
ASSUME PositionsAssumption ==
  \A m \in Positions :
    /\ m.stamp \in Int \cup {None}
    /\ m.entities \in Seq({m.entities[i] : i \in DOMAIN m.entities})
    /\ \A i \in DOMAIN m.entities : m.entities[i].vehicle \in Sightings \cup {None}

VARIABLES
  hints,    \* the options given: a stop, a route, --scan-routes
  step,     \* where the command is
  todo,     \* the calls still to be made
  missed,   \* those that did not find the vehicle (history)
  found,    \* what it will print, None before it knows
  sources,  \* the feeds still to be looked at
  read,     \* the messages of the feeds that answered (history)
  notices   \* the warnings that qualify an absence

vehicleVars == <<hints, step, todo, missed, found, sources, read, notices>>

TypeSet == {RouteTypes[i] : i \in DOMAIN RouteTypes}
FeedTypeSet == {FeedTypes[i] : i \in DOMAIN FeedTypes}

Hints == [stop : {"none", "number", "name"}, route : {"none", "number", "name"},
          scan : BOOLEAN]

VehicleInit ==
  /\ hints \in Hints /\ (hints.stop = "none" => hints.route = "none")
  /\ step = "start" /\ todo = <<>> /\ missed = {} /\ found = None
  /\ sources = <<>> /\ read = <<>> /\ notices = {}

(***************************************************************************)
(* The calls to be made.                                                   *)
(***************************************************************************)
Call(kind, type) == [kind |-> kind, type |-> type]
Each(kind, types) == [i \in DOMAIN types |-> Call(kind, types[i])]

\* Mutated form: a stop whose mode is known is looked at in that mode only,
\* and earlier departures come before later ones where it is not.
StopCallsByMode(type, routeGiven) ==
  IF type = -1 THEN Each("past", RouteTypes) \o Each("next", RouteTypes)
  ELSE <<Call("past", type), Call("next", type)>>

\* lookupVehicleAtStop: a stop of a known mode is looked at in that mode, and
\* in the others when no route was given.
StopCalls(type, routeGiven) ==
  LET others == At(RouteTypes, {i \in DOMAIN RouteTypes : RouteTypes[i] # type})
  IN  IF type = -1 THEN Each("next", RouteTypes) \o Each("past", RouteTypes)
      ELSE <<Call("next", type), Call("past", type)>>
             \o IF routeGiven THEN <<>> ELSE Each("next", others) \o Each("past", others)

\* lookupVehicle, and what lookupVehicleWithHints does without a scan.
OtherCalls == (IF hints.scan THEN <<Call("scan", None)>> ELSE <<>>) \o <<Call("run", None)>>

\* resolveVehicleStop and resolveVehicleRouteHint: a number is taken at its
\* word and has no mode of its own.
Resolve ==
  /\ step = "start"
  /\ \/ /\ hints.stop = "none"
        /\ step' = "lookup" /\ todo' = OtherCalls
     \/ /\ hints.stop # "none"
        /\ \E stopType \in IF hints.stop = "number" THEN {-1} ELSE TypeSet,
              routeType \in TypeSet :
             /\ stopType # -1 => routeType = stopType
             /\ todo' = StopCalls(IF hints.route = "name" THEN routeType ELSE stopType, hints.route # "none")
                          \o OtherCalls
        /\ step' = "lookup"
     \/ "name" \in {hints.stop, hints.route} /\ step' = "failed" /\ UNCHANGED todo
  /\ UNCHANGED <<hints, missed, found, sources, read, notices>>

(***************************************************************************)
(* The lookups.                                                            *)
(***************************************************************************)
\* The modes of the run that a call may find.
ModesOf(call) == IF call.kind \in {"next", "past"} THEN {call.type} ELSE TypeSet

\* A scan compares descriptors, the other calls references of runs as well.
LabelsOf(call) == {l \in Descriptors : call.kind = "scan" => Queried \in l}

\* resultFromRun.
ResultOf(call, type, label) == [by |-> call.kind, type |-> type, label |-> label, realtime |-> None]

NoResult == [by |-> "none", type |-> None, label |-> {Queried}, realtime |-> None]

LookupFinds ==
  /\ step = "lookup" /\ todo # <<>>
  /\ \E type \in ModesOf(Head(todo)), label \in LabelsOf(Head(todo)) :
       found' = ResultOf(Head(todo), type, label)
  /\ step' = "enrich"
  /\ UNCHANGED <<hints, todo, missed, sources, read, notices>>

LookupMisses ==
  /\ step = "lookup" /\ todo # <<>>
  /\ todo' = Tail(todo) /\ missed' = missed \cup {Head(todo)}
  /\ UNCHANGED <<hints, step, found, sources, read, notices>>

\* A network error, or the end of vehiclePTVLookupBudget: the command fails.
LookupFails ==
  /\ step = "lookup" /\ todo # <<>>
  /\ step' = "failed"
  /\ UNCHANGED <<hints, todo, missed, found, sources, read, notices>>

LookupNothing ==
  /\ step = "lookup" /\ todo = <<>>
  /\ found' = NoResult /\ step' = "enrich"
  /\ UNCHANGED <<hints, todo, missed, sources, read, notices>>

(***************************************************************************)
(* GTFS Realtime.                                                          *)
(***************************************************************************)

\* shouldMentionGTFSRealtime, and vehicleRealtimeLookupLabel: the whole
\* descriptor, or the query when nothing was found; the reference of a run is
\* no label.
Enrichable == (found.by = "none" \/ found.type \in FeedTypeSet) /\ found.label # {}

VehicleRealtimeSources ==
  IF found.type = None THEN FeedTypes
  ELSE At(FeedTypes, {i \in DOMAIN FeedTypes : FeedTypes[i] = found.type})

Write(notice) == /\ step' = "printed" /\ notices' = notices \cup notice
                 /\ UNCHANGED <<hints, todo, missed, found, sources, read>>

\* shouldMentionGTFSRealtimeBus: a bus, or nothing found.
BusMode == 2
Mentioned == found.by = "none" \/ found.type = BusMode

\* Without a KeyID no feed can be read, and some results say so.
BeginEnrichment ==
  /\ step = "enrich"
  /\ \/ Write(IF Mentioned THEN {"skipped"} ELSE {})
     \/ ~Enrichable /\ Write({})
     \/ /\ Enrichable
        /\ sources' = VehicleRealtimeSources /\ step' = "feeds"
        /\ UNCHANGED <<hints, todo, missed, found, read, notices>>

\* normalizeVehicleFreshness: what is shown of the state.
ShownState(state) == IF state \in {"current", "stale"} THEN state ELSE "unknown"

\* The feeds one after the other; the first that shows the label ends it.
FetchPositions ==
  /\ step = "feeds" /\ sources # <<>>
  /\ \E m \in Positions :
       LET seen == FindVehicleByLabel(NormalizeSnapshot(m, Now), found.label)
       IN  /\ read' = Append(read, [type |-> Head(sources), message |-> m])
           /\ sources' = Tail(sources)
           /\ IF seen = None THEN UNCHANGED <<found, step, notices>>
              ELSE /\ found' = [found EXCEPT !.realtime = [seen EXCEPT !.state = ShownState(@)],
                                             !.by = IF @ = "none" THEN "public_label" ELSE @,
                                             !.type = IF @ = None THEN Head(sources) ELSE @]
                   /\ step' = "printed"
                   /\ notices' = IF found.by = "none" THEN {} ELSE notices
  /\ UNCHANGED <<hints, todo, missed>>

FetchFails ==
  /\ step = "feeds" /\ sources # <<>>
  /\ sources' = Tail(sources) /\ notices' = notices \cup {"failed"}
  /\ UNCHANGED <<hints, step, todo, missed, found, read>>

\* vehicleGTFSRealtimeBudget is looked at before each feed.
BudgetEnds == step = "feeds" /\ sources # <<>> /\ Write({"stopped"})

FeedsExhausted == step = "feeds" /\ sources = <<>> /\ Write({})

\* Interrupted: an error, whatever was found.
Interrupt == /\ step \in {"enrich", "feeds"}
             /\ step' = "failed"
             /\ UNCHANGED <<hints, todo, missed, found, sources, read, notices>>

VehicleNext == \/ Resolve \/ LookupFinds \/ LookupMisses \/ LookupFails \/ LookupNothing \/ BeginEnrichment
               \/ FetchPositions \/ FetchFails \/ BudgetEnds \/ FeedsExhausted \/ Interrupt

VehicleSpec == VehicleInit /\ [][VehicleNext]_vehicleVars

(***************************************************************************)
(* Properties.                                                             *)
(***************************************************************************)
Vehicles(message) ==
  {message.entities[i].vehicle : i \in {j \in DOMAIN message.entities : ~message.entities[j].deleted}} \ {None}
Candidates(message) == {v \in Vehicles(message) : found.label \in LabelKeys(v.label)}

Fresh(stamp) == stamp # None /\ stamp - Now <= Skew /\ Now - stamp <= Window

\* The position shown is of the label asked for, from the feed of the vehicle's
\* mode; it is called current only if feed and vehicle were seen just now; and
\* of several vehicles that share the label it is one seen just now, the latest
\* of them, if there is any.
BestObservation ==
  step = "printed" /\ found.realtime # None =>
    LET last == read[Len(read)]
        live == {v \in Candidates(last.message) : Fresh(v.stamp)}
    IN  /\ last.type = found.type
        /\ [found.realtime EXCEPT !.state = None] \in {[v EXCEPT !.state = None] : v \in Candidates(last.message)}
        /\ found.realtime.state = "current" <=> Fresh(last.message.stamp) /\ Fresh(found.realtime.stamp)
        /\ Fresh(last.message.stamp) /\ live # {} =>
             found.realtime.stamp \in {v.stamp : v \in live} /\ \A v \in live : v.stamp <= found.realtime.stamp

\* Whatever the command says is not there is not.  A vehicle that was not found
\* was asked for at every place the options name, and PTV answered each time
\* that it has none; the feeds of all modes were read without it, unless a
\* notice says that one could not be.  One last spotted at the departures of a
\* mode was looked for among the later ones of that mode first.
AbsenceIsProven ==
  step = "printed" =>
    /\ found.by = "none" =>
         /\ Call("run", None) \in missed
         /\ hints.scan => Call("scan", None) \in missed
         /\ hints.stop # "none" /\ hints.route = "none" =>
              \A t \in TypeSet : {Call("next", t), Call("past", t)} \subseteq missed
         /\ notices = {} => /\ {read[i].type : i \in DOMAIN read} = FeedTypeSet
                            /\ \A i \in DOMAIN read : Candidates(read[i].message) = {}
    /\ found.by = "past" => Call("next", found.type) \in missed
=============================================================================
