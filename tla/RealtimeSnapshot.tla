-------------------------- MODULE RealtimeSnapshot --------------------------
(***************************************************************************)
(* What a GTFS Realtime message becomes (internal/gtfsrt/snapshot.go): the *)
(* entities in the order of the feed, each judged by its age, and the      *)
(* indexes the commands look vehicles and trip updates up in.              *)
(*                                                                         *)
(* A message holds the instant of its header and a sequence of entities.   *)
(* An entity has an id, may be deleted, and carries an update of a trip, a *)
(* vehicle or an alert, None where it has none.  The label of a vehicle is *)
(* the set of the units it consists of.                                    *)
(***************************************************************************)
EXTENDS Integers, Sequences, FiniteSets

CONSTANTS None,     \* an absent field
          Window,   \* currentObservationWindow
          Skew      \* allowedFutureClockSkew

\* The worse of the two; one that is not known spoils a current one.
CombineFreshness(feed, entity) ==
  CASE "future" \in {feed, entity} -> "future"
    [] "future" \notin {feed, entity} /\ "stale" \in {feed, entity} -> "stale"
    [] {feed, entity} = {"current"} -> "current"
    [] OTHER -> "unknown"

ClassifyTimestamp(stamp, now) ==
  CASE stamp = None -> "unknown"
    [] stamp # None /\ stamp - now > Skew -> "future"
    [] stamp # None /\ now - stamp > Window -> "stale"
    [] OTHER -> "current"

\* identifierKeys: the whole label and each of its units.
LabelKeys(label) == IF label = {} THEN {} ELSE {label} \cup {{u} : u \in label}

TripKeyOf(u) == [trip |-> u.trip, date |-> u.date]

\* An alert without a period is always active.
AlertState(periods, now) ==
  IF periods = {} \/ \E p \in periods : /\ p.start = None \/ p.start <= now
                                        /\ p.end = None \/ now < p.end
  THEN "current" ELSE "unknown"

\* The members of s at the positions in S, in order.
At(s, S) == [k \in 1 .. Cardinality(S) |-> s[CHOOSE i \in S : Cardinality(S \cap 1 .. i - 1) = k - 1]]

Firsts(keys) == {i \in DOMAIN keys : \A j \in 1 .. i - 1 : keys[j] # keys[i]}

\* Of rows with one key the last takes the place of the first.
Indexed(rows, keys) ==
  LET Last(k) == rows[CHOOSE i \in DOMAIN keys : keys[i] = k /\ \A j \in i + 1 .. Len(keys) : keys[j] # k]
  IN  At([i \in DOMAIN rows |-> Last(keys[i])], Firsts(keys))

\* What the entities that are not deleted carry, judged with the feed's own age.
Observations(rows, feed, now) ==
  [i \in DOMAIN rows |->
     [rows[i] EXCEPT !.state = CombineFreshness(feed, ClassifyTimestamp(rows[i].stamp, now))]]

Alerts(rows, feed, now) ==
  [i \in DOMAIN rows |-> [id |-> rows[i].id,
                           state |-> CombineFreshness(feed, AlertState(rows[i].alert, now))]]

\* A repeated entity id, trip or alert counts as a duplicate.
NormalizeSnapshot(message, now) ==
  LET feed == ClassifyTimestamp(message.stamp, now)
      Having(Field(_)) == LET Live(e) == ~e.deleted /\ Field(e) # None
                          IN  At(message.entities, {i \in DOMAIN message.entities : Live(message.entities[i])})
      OfVehicle(e) == e.vehicle
      OfUpdate(e) == e.update
      OfAlert(e) == e.alert
      moving == Having(OfVehicle)
      updated == Having(OfUpdate)
      updates == Observations([i \in DOMAIN updated |-> updated[i].update], feed, now)
      alerts == Alerts(Having(OfAlert), feed, now)
      trips == [i \in DOMAIN updates |-> TripKeyOf(updates[i])]
      Ids(rows) == [i \in DOMAIN rows |-> rows[i].id]
      Repeated(keys) == Len(keys) - Cardinality(Firsts(keys))
  IN  [at |-> now, feed |-> feed,
       entities |-> [i \in DOMAIN message.entities |-> [id |-> message.entities[i].id,
                                                        deleted |-> message.entities[i].deleted]],
       vehicles |-> Observations([i \in DOMAIN moving |-> moving[i].vehicle], feed, now),
       updates |-> Indexed(updates, trips), alerts |-> Indexed(alerts, Ids(alerts)),
       duplicates |-> Repeated(Ids(message.entities)) + Repeated(trips) + Repeated(Ids(alerts))]

(***************************************************************************)
(* Lookups.                                                                *)
(***************************************************************************)
FindTripUpdate(s, trip, date) ==
  LET found == {i \in DOMAIN s.updates : TripKeyOf(s.updates[i]) = [trip |-> trip, date |-> date]}
  IN  IF found = {} THEN None ELSE s.updates[CHOOSE i \in found : TRUE]

Rank(state) == CASE state = "current" -> 0 [] state = "stale" -> 1
                 [] state = "unknown" -> 2 [] state = "future" -> 3

\* Mutated form: the later timestamp wins.
FresherObservationByStamp(candidate, best) ==
  candidate.stamp # None /\ (best.stamp = None \/ candidate.stamp > best.stamp)

FresherObservation(candidate, best) ==
  \/ Rank(candidate.state) < Rank(best.state)
  \/ /\ Rank(candidate.state) = Rank(best.state)
     /\ candidate.stamp # None
     /\ best.stamp = None \/ candidate.stamp > best.stamp

\* The label is looked up whole: it is found as the label, or as a unit of it.
\* Of several the freshest is taken, of those the first.
FindVehicleByLabel(s, label) ==
  LET Shown(v) == label \in LabelKeys(v.label)
      known == At(s.vehicles, {i \in DOMAIN s.vehicles : Shown(s.vehicles[i])})
      Best(i) == \A j \in DOMAIN known : /\ ~FresherObservation(known[j], known[i])
                                         /\ j < i => FresherObservation(known[i], known[j])
  IN  IF label = {} \/ known = <<>> THEN None ELSE known[CHOOSE i \in DOMAIN known : Best(i)]
=============================================================================
