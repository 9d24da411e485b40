------------------------ MODULE FeedTimetable_proofs ------------------------
(***************************************************************************)
(* Whatever archive is compiled, what is committed can be published: the   *)
(* tables are consistent after every file, since a row only refers to rows *)
(* that are there already and no row ever goes away.  The one check that a *)
(* later row could undo, that a pathway does not touch a station, holds    *)
(* because feeds come in the order of their modes, and an identity says    *)
(* which mode it is from.                                                  *)
(*                                                                         *)
(* Queries leave the dataset as it was published; no walk in it undoes a   *)
(* prohibition of its feeds, whatever the hierarchy of stops it names; its *)
(* coverage is one that services keep to; and a window loaded from it misses *)
(* no run and joins each trip to the next one that its links lead to,      *)
(* whatever the clocks do.                                                 *)
(***************************************************************************)
EXTENDS TimetableWindow, FiniteSetTheorems, WellFoundedInduction, TLAPS

(***************************************************************************)
(* Compiling.                                                              *)
(***************************************************************************)

Files == {"levels", "stops", "routes", "calendar", "dates", "trips", "times", "transfers", "pathways"}
Linking == {"links", "proximity", "commit"}
Stages == {"open", "required", "connections"} \cup Files \cup Linking

Names == {"levels", "stops", "routes", "services", "exceptions", "trips", "times",
          "transfers", "pathways", "connections", "links", "coverage"}

Placed(stops) == \A s \in stops : s.pos \in Int \cup {None}

\* tx is a record of tables; where a stop is, if it is known, is a number.
Tables(t) == t = [name \in Names |-> t[name]] /\ Placed(t.stops)

\* The pathways compiled so far are of lower modes, or of this feed once its
\* pathways are.
PathwaysInOrder ==
  /\ step = "open" => tx.pathways = {}
  /\ step # "open" =>
       /\ feed \in DOMAIN archive
       /\ \A p \in tx.pathways :
            /\ p.id[1] \in Int /\ p.id[1] <= Feed.mode
            /\ step \in {"required"} \cup Files => p.id[1] < Feed.mode

IInv == /\ archive \in Archives /\ step \in Stages /\ outcome \in {"running", "compiled", "failed"}
        /\ Tables(tx) /\ ValidateResolvedDataset(tx)
        /\ outcome = "running" => PathwaysInOrder
        /\ outcome = "running" /\ step \in Linking => CoreRowsPresent(tx)
        /\ CompiledIsPublishable

\* Rows are only added; trips keep their keys.
Extends(t, n) == /\ t.levels \subseteq n.levels /\ t.stops \subseteq n.stops
                 /\ t.routes \subseteq n.routes /\ t.services \subseteq n.services
                 /\ DOMAIN t.trips \subseteq DOMAIN n.trips
                 /\ \A k \in DOMAIN t.trips : n.trips[k] = t.trips[k]

LEMMA IdsGrow ==
  ASSUME NEW t, NEW n, Extends(t, n)
  PROVE  /\ IdsOf(t.stops) \subseteq IdsOf(n.stops)
         /\ IdsOf(t.routes) \subseteq IdsOf(n.routes)
         /\ IdsOf(t.services) \subseteq IdsOf(n.services)
         /\ TripIds(t.trips) \subseteq TripIds(n.trips)
BY DEF Extends, IdsOf, TripIds

LEMMA StopStays ==
  ASSUME NEW t, NEW n, Extends(t, n), NEW s, ValidStop(t, s)
  PROVE  ValidStop(n, s)
BY DEF Extends, ValidStop, ResolvedIn

LEMMA TripStays ==
  ASSUME NEW t, NEW n, Extends(t, n), NEW trip, ValidTrip(t, trip)
  PROVE  ValidTrip(n, trip)
BY IdsGrow DEF ValidTrip, ResolvedIn

LEMMA TimeStays ==
  ASSUME NEW t, NEW n, Extends(t, n), NEW time, ValidTime(t, time)
  PROVE  ValidTime(n, time)
BY IdsGrow DEF ValidTime, ResolvedIn, Extends

LEMMA ExceptionStays ==
  ASSUME NEW t, NEW n, Extends(t, n), NEW e, ValidException(t, e)
  PROVE  ValidException(n, e)
BY IdsGrow DEF ValidException

LEMMA EndStays ==
  ASSUME NEW t, NEW n, Extends(t, n), NEW type, NEW stop, NEW route, NEW trip,
         ValidEnd(t, type, stop, route, trip)
  PROVE  ValidEnd(n, type, stop, route, trip)
BY IdsGrow DEF ValidEnd, Extends

LEMMA TransferStays ==
  ASSUME NEW t, NEW n, Extends(t, n), NEW r, ValidTransfer(t, r)
  PROVE  ValidTransfer(n, r)
<1>1. CASE r.source = "gtfs"
  BY <1>1, EndStays DEF ValidTransfer
<1>2. CASE r.source # "gtfs"
  BY <1>2, IdsGrow DEF ValidTransfer
<1> QED
  BY <1>1, <1>2

\* Not so when a stop of its own mode is added.
LEMMA PathwayStays ==
  ASSUME NEW t, NEW n, Extends(t, n), NEW p, ValidPathway(t, p),
         \A s \in n.stops \ t.stops : s.id[1] # p.id[1]
  PROVE  ValidPathway(n, p)
BY IdsGrow DEF ValidPathway, ResolvedIn, SameFeed, Extends

LEMMA ConnectionStays ==
  ASSUME NEW t, NEW n, Extends(t, n), NEW c, ValidConnection(t, c)
  PROVE  ValidConnection(n, c)
BY IdsGrow DEF ValidConnection, ResolvedIn, Extends

LEMMA LinkStays ==
  ASSUME NEW t, NEW n, Extends(t, n), t.links = n.links, NEW l, ValidLink(t, l)
  PROVE  ValidLink(n, l)
BY IdsGrow DEF ValidLink, ResolvedIn

LEMMA NoRowsAreValid == Tables(NoRows) /\ ValidateResolvedDataset(NoRows)
<1>1. DOMAIN NoRows = Names
  BY DEF NoRows, Names
<1>2. NoRows = [name \in DOMAIN NoRows |-> NoRows[name]]
  BY DEF NoRows
<1>3. ValidateResolvedDataset(NoRows)
  BY DEF NoRows, ValidateResolvedDataset
<1> QED
  BY <1>1, <1>2, <1>3 DEF Tables, Placed, NoRows

LEMMA NextFile == ASSUME NEW file \in Files \ {"pathways"} PROVE FileAfter(file) \in Files
<1>1. PICK i \in 1 .. 9 : FileOrder[i] = file
  BY DEF Files, FileOrder
<1>2. DOMAIN FileOrder = 1 .. 9
  BY DEF FileOrder
<1> DEFINE j == CHOOSE k \in DOMAIN FileOrder : FileOrder[k] = file
<1>3. j \in 1 .. 9 /\ FileOrder[j] = file
  BY <1>1, <1>2
<1>4. j # 9
  <2>1. FileOrder[9] = "pathways"
    BY DEF FileOrder
  <2> HIDE DEF j
  <2> QED
    BY <1>3, <2>1
<1>5. j + 1 \in 1 .. 9
  <2> HIDE DEF j
  <2> QED
    BY <1>3, <1>4
<1>6. \A k \in 1 .. 9 : FileOrder[k] \in Files
  BY DEF FileOrder, Files
<1>7. FileAfter(file) = FileOrder[j + 1]
  BY DEF FileAfter
<1> QED
  <2> HIDE DEF j
  <2> QED
    BY <1>5, <1>6, <1>7

(***************************************************************************)
(* The steps that leave the tables alone or take them back.                *)
(***************************************************************************)
LEMMA RollingBack == ASSUME IInv, Rolled PROVE IInv'
<1>1. Tables(tx') /\ ValidateResolvedDataset(tx')
  BY NoRowsAreValid DEF Rolled
<1>2. CompiledIsPublishable'
  BY DEF Rolled, CompiledIsPublishable
<1> QED
  BY <1>1, <1>2 DEF IInv, Rolled, Tables

\* The next stage is a file or the connections, and the pathways are the same.
LEMMA TablesFilled ==
  ASSUME IInv, outcome = "running", step # "open", NEW s \in Files \cup {"connections"}, NEW new,
         Advance(s, new), Tables(new), ValidateResolvedDataset(new),
         step \in {"required"} \cup Files, new.pathways = tx.pathways
  PROVE  IInv'
<1>1. PathwaysInOrder'
  BY DEF IInv, PathwaysInOrder, Advance, Feed, Files
<1>2. CompiledIsPublishable'
  BY DEF Advance, CompiledIsPublishable
<1>3. s \in Stages /\ s \notin Linking
  BY DEF Stages, Linking, Files
<1>4. /\ archive' = archive /\ step' = s /\ tx' = new /\ outcome' = outcome
  BY DEF Advance
<1> QED
  BY <1>1, <1>2, <1>3, <1>4 DEF IInv, Tables

LEMMA FileCompiled ==
  ASSUME IInv, NEW file \in Files \ {"pathways"}, NEW valid, NEW new, CompileFile(file, valid, new),
         file \in DOMAIN Feed.files /\ valid =>
           Tables(new) /\ ValidateResolvedDataset(new) /\ new.pathways = tx.pathways
  PROVE  IInv'
<1>1. /\ outcome = "running" /\ step = file /\ step # "open" /\ step \in {"required"} \cup Files
      /\ FileAfter(file) \in Files \cup {"connections"}
  BY NextFile DEF CompileFile, Stage, Files
<1>2. CASE Advance(FileAfter(file), tx)
  BY <1>1, <1>2, TablesFilled DEF IInv
<1>3. CASE /\ Advance(FileAfter(file), new)
           /\ Tables(new) /\ ValidateResolvedDataset(new) /\ new.pathways = tx.pathways
  BY <1>1, <1>3, TablesFilled
<1>4. CASE Rolled
  BY <1>4, RollingBack
<1> QED
  BY <1>2, <1>3, <1>4 DEF CompileFile

(***************************************************************************)
(* What the rows of a feed are.                                            *)
(***************************************************************************)
LEMMA Sound ==
  ASSUME IInv, outcome = "running", step # "open"
  PROVE  /\ feed \in DOMAIN archive /\ Feed.mode \in Int
         /\ \A file \in DOMAIN Feed.files : FileIsSound(file, Rows(file))
BY ArchivesAssumption DEF IInv, PathwaysInOrder, Feed, Rows

LEMMA OwnMode ==
  ASSUME NEW id, id # None \/ Own(id) # None
  PROVE  Own(id)[1] = Feed.mode
BY DEF Own

\* One table grows at a time: only the new rows have to be looked at.
LEMMA Grown ==
  ASSUME NEW t, NEW n, Extends(t, n), ValidateResolvedDataset(t), n.links = t.links,
         \A s \in n.stops \ t.stops : ValidStop(n, s),
         \A k \in DOMAIN n.trips \ DOMAIN t.trips : ValidTrip(n, n.trips[k]),
         \A k \in DOMAIN n.times : \/ k \in DOMAIN t.times /\ n.times[k] = t.times[k]
                                   \/ ValidTime(n, n.times[k]),
         \A e \in n.exceptions \ t.exceptions : ValidException(n, e),
         \A r \in n.transfers \ t.transfers : ValidTransfer(n, r),
         \A p \in n.pathways \ t.pathways : ValidPathway(n, p),
         \A p \in t.pathways : \A s \in n.stops \ t.stops : s.id[1] # p.id[1],
         \A c \in n.connections \ t.connections : ValidConnection(n, c)
  PROVE  ValidateResolvedDataset(n)
<1>1. \A s \in n.stops : ValidStop(n, s)
  BY StopStays DEF ValidateResolvedDataset
<1>2. \A k \in DOMAIN n.trips : ValidTrip(n, n.trips[k])
  <2> SUFFICES ASSUME NEW k \in DOMAIN n.trips PROVE ValidTrip(n, n.trips[k])
    OBVIOUS
  <2>1. CASE k \in DOMAIN t.trips
    BY <2>1, TripStays DEF ValidateResolvedDataset, Extends
  <2> QED
    BY <2>1
<1>3. \A k \in DOMAIN n.times : ValidTime(n, n.times[k])
  BY TimeStays DEF ValidateResolvedDataset
<1>4. \A e \in n.exceptions : ValidException(n, e)
  BY ExceptionStays DEF ValidateResolvedDataset
<1>5. \A r \in n.transfers : ValidTransfer(n, r)
  BY TransferStays DEF ValidateResolvedDataset
<1>6. \A p \in n.pathways : ValidPathway(n, p)
  BY PathwayStays DEF ValidateResolvedDataset
<1>7. \A c \in n.connections : ValidConnection(n, c)
  BY ConnectionStays DEF ValidateResolvedDataset
<1>8. \A l \in n.links : ValidLink(n, l)
  BY LinkStays DEF ValidateResolvedDataset
<1> QED
  BY <1>1, <1>2, <1>3, <1>4, <1>5, <1>6, <1>7, <1>8 DEF ValidateResolvedDataset

(***************************************************************************)
(* The files.                                                              *)
(***************************************************************************)
LEMMA LevelsCompile == ASSUME IInv, CompileLevels PROVE IInv'
<1> DEFINE new == [tx EXCEPT !.levels = @ \cup {Own(RowsOrNone("levels")[i].id) : i \in DOMAIN RowsOrNone("levels")}]
<1>1. Tables(new) /\ tx.levels \subseteq new.levels /\ \A f \in Names \ {"levels"} : new[f] = tx[f]
  BY DEF IInv, Tables, Names
<1>2. ValidateResolvedDataset(new)
  <2> HIDE DEF new
  <2>1. Extends(tx, new)
    BY <1>1 DEF Extends, Names
  <2> QED
    BY <1>1, <2>1, Grown DEF IInv, Names
<1> QED
  BY <1>1, <1>2, FileCompiled DEF CompileLevels, Files, Names
LEMMA StopsCompile == ASSUME IInv, CompileStops PROVE IInv'
<1> DEFINE rows == RowsOrNone("stops")
           stops == Each(rows, StopOf)
           new == [tx EXCEPT !.stops = @ \cup stops]
<1>1. new.stops = tx.stops \cup stops /\ \A f \in Names \ {"stops"} : new[f] = tx[f]
  <2> HIDE DEF stops
  <2> QED
    BY DEF IInv, Tables, Names
<1>2. ASSUME "stops" \in DOMAIN Feed.files, StopsOK(rows, stops, tx.levels)
      PROVE  Tables(new) /\ ValidateResolvedDataset(new)
  <2>1. outcome = "running" /\ step = "stops" /\ step # "open"
    BY DEF CompileStops, CompileFile, Stage
  <2>2. Extends(tx, new)
    BY <1>1 DEF Extends, Names
  <2>3. rows = Rows("stops")
    BY <1>2 DEF RowsOrNone
  <2>4. ASSUME NEW s \in stops
        PROVE  s.id[1] = Feed.mode /\ s.pos \in Int \cup {None} /\ ValidStop(new, s)
    <3>1. PICK i \in DOMAIN rows : s = StopOf(rows[i])
      BY <2>4 DEF Each
    <3>2. rows[i].ok /\ rows[i].id # None /\ rows[i].pos \in Int \cup {None}
      BY <1>2, <2>1, <2>3, Sound DEF StopsOK, AllOK, FileIsSound, RowIsSound
    <3>3. /\ s.id = Own(rows[i].id) /\ s.parent = Own(rows[i].parent) /\ s.level = Own(rows[i].level)
          /\ s.kind = rows[i].kind /\ s.access = rows[i].access /\ s.pos = rows[i].pos
      BY <3>1 DEF StopOf
    <3>4. /\ s.id[1] = Feed.mode
          /\ s.parent # None => s.parent[1] = Feed.mode
          /\ s.level # None => s.level[1] = Feed.mode
      BY <3>2, <3>3, OwnMode
    <3>5. /\ s.access # None => s.kind = 0 /\ s.parent # None
          /\ ParentOK(s, stops) /\ s.level \in {None} \cup tx.levels
      BY <1>2, <2>4 DEF StopsOK
    <3>6. s.level # None => ResolvedIn(s.level, new.levels, s.id)
      BY <1>1, <3>4, <3>5 DEF ResolvedIn, SameFeed, Names
    <3>7. ASSUME s.parent = None PROVE ValidStop(new, s)
      BY <3>4, <3>5, <3>6, <3>7 DEF ValidStop, ParentOK
    <3>8. ASSUME s.parent # None PROVE ValidStop(new, s)
      <4>1. PICK p \in stops : p.id = s.parent /\ ParentKindOK(s.kind, p.kind)
        BY <3>5, <3>8 DEF ParentOK
      <4>2. p \in new.stops /\ SameFeed(p.id, s.id)
        BY <1>1, <3>4, <3>8, <4>1 DEF SameFeed
      <4> QED
        BY <3>4, <3>5, <3>6, <3>8, <4>1, <4>2 DEF ValidStop, ParentKindOK
    <3> QED
      BY <3>2, <3>3, <3>4, <3>7, <3>8
  <2>5. \A p \in tx.pathways : p.id[1] # Feed.mode
    BY <2>1, Sound DEF IInv, PathwaysInOrder, Files
  <2>6. Tables(new)
    <3>1. Placed(tx.stops \cup stops)
      BY <2>4 DEF IInv, Tables, Placed
    <3> HIDE DEF stops
    <3> QED
      BY <3>1 DEF IInv, Tables, Names
  <2> HIDE DEF new, stops, rows
  <2> QED
    BY <1>1, <2>2, <2>4, <2>5, <2>6, Grown DEF IInv, Names
<1> QED
  BY <1>1, <1>2, FileCompiled DEF CompileStops, Files, Names

LEMMA RoutesCompile == ASSUME IInv, CompileRoutes PROVE IInv'
<1> DEFINE rows == RowsOrNone("routes")
           added == {[id |-> Own(rows[i].id)] : i \in DOMAIN rows}
           new == [tx EXCEPT !.routes = @ \cup added]
<1>1. Tables(new) /\ tx.routes \subseteq new.routes /\ \A f \in Names \ {"routes"} : new[f] = tx[f]
  <2> HIDE DEF added
  <2> QED
    BY DEF IInv, Tables, Names
<1>2. ValidateResolvedDataset(new)
  <2> HIDE DEF new
  <2>1. Extends(tx, new)
    BY <1>1 DEF Extends, Names
  <2> QED
    BY <1>1, <2>1, Grown DEF IInv, Names
<1> QED
  BY <1>1, <1>2, FileCompiled DEF CompileRoutes, Files, Names

LEMMA CalendarCompile == ASSUME IInv, CompileCalendar PROVE IInv'
<1> DEFINE new == [tx EXCEPT !.services = @ \cup Each(RowsOrNone("calendar"), ServiceOf)]
<1>1. Tables(new) /\ tx.services \subseteq new.services /\ \A f \in Names \ {"services"} : new[f] = tx[f]
  BY DEF IInv, Tables, Names
<1>2. ValidateResolvedDataset(new)
  <2> HIDE DEF new
  <2>1. Extends(tx, new)
    BY <1>1 DEF Extends, Names
  <2> QED
    BY <1>1, <2>1, Grown DEF IInv, Names
<1> QED
  BY <1>1, <1>2, FileCompiled DEF CompileCalendar, Files, Names

LEMMA DateOnlyServiceThere ==
  ASSUME NEW exceptions, NEW services, NEW id \in IdsOf(exceptions) \ IdsOf(services)
  PROVE  \E s \in DateOnlyServices(exceptions, services) : s.id = id
<1> DEFINE Dates(x) == {e.date : e \in {y \in exceptions : y.id = x}}
           First(x) == CHOOSE d \in Dates(x) : \A e \in Dates(x) : d <= e
           Last(x) == CHOOSE d \in Dates(x) : \A e \in Dates(x) : d >= e
           Service(x) == [id |-> x, days |-> {}, from |-> First(x), to |-> Last(x)]
<1>1. DateOnlyServices(exceptions, services) = {Service(x) : x \in IdsOf(exceptions) \ IdsOf(services)}
  BY Zenon DEF DateOnlyServices
<1>2. Service(id).id = id
  OBVIOUS
<1> QED
  <2> HIDE DEF Service
  <2> QED
    BY <1>1, <1>2

LEMMA CalendarDatesCompile == ASSUME IInv, CompileCalendarDates PROVE IInv'
<1> DEFINE exceptions == Each(RowsOrNone("dates"), ExceptionOf)
           added == DateOnlyServices(exceptions, tx.services)
           one == [tx EXCEPT !.exceptions = @ \cup exceptions]
           new == [tx EXCEPT !.exceptions = @ \cup exceptions, !.services = @ \cup added]
<1>1. Tables(one) /\ one.exceptions = tx.exceptions \cup exceptions /\ \A f \in Names \ {"exceptions"} : one[f] = tx[f]
  BY DEF IInv, Tables, Names
<1>2. new = [one EXCEPT !.services = @ \cup added]
  OBVIOUS
<1>3. Tables(new) /\ new.services = one.services \cup added /\ \A f \in Names \ {"services"} : new[f] = one[f]
  <2> HIDE DEF one, new, added
  <2> QED
    BY <1>1, <1>2 DEF Tables, Names
<1>4. /\ new.services = tx.services \cup added /\ new.exceptions = tx.exceptions \cup exceptions
      /\ \A f \in Names \ {"exceptions", "services"} : new[f] = tx[f]
  <2> HIDE DEF one, new, added, exceptions
  <2> QED
    BY <1>1, <1>3 DEF Names
<1>5. \A e \in exceptions : e.id \in IdsOf(tx.services) \cup IdsOf(added)
  <2> SUFFICES ASSUME NEW e \in exceptions, e.id \notin IdsOf(tx.services)
               PROVE  e.id \in IdsOf(added)
    OBVIOUS
  <2>1. e.id \in IdsOf(exceptions) \ IdsOf(tx.services)
    BY DEF IdsOf
  <2>2. PICK s \in added : s.id = e.id
    BY <2>1, DateOnlyServiceThere
  <2> QED
    BY <2>2 DEF IdsOf
<1>6. ValidateResolvedDataset(new)
  <2> HIDE DEF new, added, exceptions, one
  <2>1. Extends(tx, new)
    BY <1>4 DEF Extends, Names
  <2>2. \A e \in exceptions : ValidException(new, e)
    BY <1>4, <1>5 DEF ValidException, IdsOf
  <2> QED
    BY <1>4, <2>1, <2>2, Grown DEF IInv, Names
<1> QED
  BY <1>3, <1>4, <1>6, FileCompiled DEF CompileCalendarDates, Files, Names
LEMMA TripsCompile == ASSUME IInv, CompileTrips PROVE IInv'
<1> DEFINE rows == RowsOrNone("trips")
           trips == CompiledTrips(rows)
           new == [tx EXCEPT !.trips = AddRows(@, trips)]
<1>1. Tables(new) /\ new.trips = AddRows(tx.trips, trips) /\ \A f \in Names \ {"trips"} : new[f] = tx[f]
  <2> HIDE DEF trips
  <2> QED
    BY DEF IInv, Tables, Names
<1>2. ASSUME "trips" \in DOMAIN Feed.files, TripsOK(rows)
      PROVE  ValidateResolvedDataset(new)
  <2>1. outcome = "running" /\ step = "trips" /\ step # "open"
    BY DEF CompileTrips, CompileFile, Stage
  <2>2. ASSUME NEW k \in DOMAIN trips
        PROVE  ValidTrip(new, trips[k])
    <3>1. k[2] \in Kept(rows) /\ trips[k] = TripOf(rows[k[2]])
      BY <2>2 DEF CompiledTrips, RowKeys
    <3> DEFINE row == rows[k[2]]
    <3>2. /\ None \notin {row.id, row.route, row.service}
          /\ Own(row.route) \in IdsOf(tx.routes) /\ Own(row.service) \in IdsOf(tx.services)
      BY <1>2, <3>1 DEF TripsOK, Kept
    <3>3. Own(row.id)[1] = Feed.mode /\ Own(row.route)[1] = Feed.mode /\ Own(row.service)[1] = Feed.mode
      BY <3>2, OwnMode
    <3>4. /\ trips[k].id = Own(row.id) /\ trips[k].route = Own(row.route)
          /\ trips[k].service = Own(row.service)
      BY <3>1 DEF TripOf
    <3>5. new.routes = tx.routes /\ new.services = tx.services
      BY <1>1 DEF Names
    <3> HIDE DEF row, trips, new
    <3> QED
      BY <3>2, <3>3, <3>4, <3>5 DEF ValidTrip, ResolvedIn, SameFeed
  <2> HIDE DEF new, trips, rows
  <2>3. \A k \in DOMAIN tx.trips : k \in DOMAIN new.trips /\ new.trips[k] = tx.trips[k]
    BY <1>1 DEF AddRows
  <2>4. \A k \in DOMAIN new.trips \ DOMAIN tx.trips : k \in DOMAIN trips /\ new.trips[k] = trips[k]
    BY <1>1 DEF AddRows
  <2>5. Extends(tx, new)
    BY <1>1, <2>3 DEF Extends, Names
  <2> QED
    BY <1>1, <2>2, <2>4, <2>5, Grown DEF IInv, Names
<1>3. new.pathways = tx.pathways
  BY <1>1 DEF Names
<1> HIDE DEF new
<1>4. CompileFile("trips", TripsOK(rows), new)
  BY DEF CompileTrips, new
<1> HIDE DEF rows
<1> QED
  BY <1>1, <1>2, <1>3, <1>4, FileCompiled DEF Files

LEMMA TripKeyFinds ==
  ASSUME NEW trips, NEW id \in TripIds(trips)
  PROVE  TripKey(trips, id) \in DOMAIN trips /\ trips[TripKey(trips, id)].id = id
BY DEF TripIds, TripKey

LEMMA StopTimesCompile == ASSUME IInv, CompileStopTimes PROVE IInv'
<1> DEFINE rows == RowsOrNone("times")
           times == CompiledTimes(rows)
           new == [tx EXCEPT !.times = AddRows(@, times)]
<1>1. Tables(new) /\ new.times = AddRows(tx.times, times) /\ \A f \in Names \ {"times"} : new[f] = tx[f]
  <2> HIDE DEF times
  <2> QED
    BY DEF IInv, Tables, Names
<1>2. ASSUME "times" \in DOMAIN Feed.files, TimesOK(rows)
      PROVE  ValidateResolvedDataset(new)
  <2>1. ASSUME NEW k \in DOMAIN times
        PROVE  ValidTime(new, times[k])
    <3>1. k[2] \in DOMAIN rows /\ times[k] = TimeOf(rows[k[2]])
      BY <2>1 DEF CompiledTimes, RowKeys
    <3> DEFINE row == rows[k[2]]
    <3>2. Own(row.trip) \in TripIds(tx.trips) /\ Own(row.stop) \in IdsOf(tx.stops)
      BY <1>2, <3>1 DEF TimesOK
    <3>3. times[k].trip = TripKey(tx.trips, Own(row.trip)) /\ times[k].stop = Own(row.stop)
      BY <3>1 DEF TimeOf
    <3>4. times[k].trip \in DOMAIN tx.trips /\ tx.trips[times[k].trip].id = Own(row.trip)
      BY <3>2, <3>3, TripKeyFinds
    <3>5. Own(row.trip)[1] = Feed.mode /\ Own(row.stop)[1] = Feed.mode
      <4>1. "times" \in DOMAIN Feed.files /\ rows = Rows("times") /\ row.ok
        BY <1>2, <3>1 DEF TimesOK, RowsOrNone
      <4>2. outcome = "running" /\ step # "open"
        BY DEF CompileStopTimes, CompileFile, Stage
      <4>3. None \notin {row.trip, row.stop}
        BY <3>1, <4>1, <4>2, Sound DEF FileIsSound, RowIsSound
      <4> QED
        BY <4>3, OwnMode
    <3>6. new.trips = tx.trips /\ new.stops = tx.stops
      BY <1>1 DEF Names
    <3> HIDE DEF row, times, new
    <3> QED
      BY <3>2, <3>3, <3>4, <3>5, <3>6 DEF ValidTime, ResolvedIn, SameFeed
  <2> HIDE DEF new, times, rows
  <2>2. \A k \in DOMAIN new.times : \/ k \in DOMAIN tx.times /\ new.times[k] = tx.times[k]
                                    \/ k \in DOMAIN times /\ new.times[k] = times[k]
    BY <1>1 DEF AddRows
  <2>3. Extends(tx, new)
    BY <1>1 DEF Extends, Names
  <2>4. \A k \in DOMAIN new.times : \/ k \in DOMAIN tx.times /\ new.times[k] = tx.times[k]
                                    \/ ValidTime(new, new.times[k])
    BY <2>1, <2>2
  <2> QED
    BY <1>1, <2>3, <2>4, Grown DEF IInv, Names
<1>3. new.pathways = tx.pathways
  BY <1>1 DEF Names
<1> HIDE DEF new
<1>4. CompileFile("times", TimesOK(rows), new)
  BY DEF CompileStopTimes, new
<1> HIDE DEF rows
<1> QED
  BY <1>1, <1>2, <1>3, <1>4, FileCompiled DEF Files
LEMMA EndCompiled ==
  ASSUME NEW n, n.stops = tx.stops, n.routes = tx.routes, n.trips = tx.trips,
         NEW type, NEW stop, NEW route, NEW trip, TransferEndOK(type, stop, route, trip)
  PROVE  ValidEnd(n, type, stop, route, trip)
<1>1. trip # None /\ route # None =>
        \E k \in DOMAIN tx.trips : tx.trips[k].id = trip /\ tx.trips[k].route = route
  BY TripKeyFinds DEF TransferEndOK, RouteOfTrip
<1> QED
  BY <1>1 DEF TransferEndOK, ValidEnd

LEMMA TransfersCompile == ASSUME IInv, CompileTransfers PROVE IInv'
<1> DEFINE rows == RowsOrNone("transfers")
           transfers == Each(rows, TransferOf)
           new == [tx EXCEPT !.transfers = @ \cup transfers]
<1>1. Tables(new) /\ new.transfers = tx.transfers \cup transfers /\ \A f \in Names \ {"transfers"} : new[f] = tx[f]
  <2> HIDE DEF transfers
  <2> QED
    BY DEF IInv, Tables, Names
<1>2. ASSUME "transfers" \in DOMAIN Feed.files, TransfersOK(rows)
      PROVE  ValidateResolvedDataset(new)
  <2>1. ASSUME NEW r \in transfers
        PROVE  ValidTransfer(new, r)
    <3>1. PICK i \in DOMAIN rows : r = TransferOf(rows[i])
      BY <2>1 DEF Each
    <3> DEFINE row == rows[i]
    <3>2. row.ok /\ rows = Rows("transfers")
      BY <1>2, <3>1 DEF TransfersOK, AllOK, RowsOrNone
    <3>3. outcome = "running" /\ step # "open"
      BY DEF CompileTransfers, CompileFile, Stage
    <3>4. row.type \in 0 .. 5 /\ row.min \in Nat \cup {None}
      BY <1>2, <3>1, <3>2, <3>3, Sound DEF FileIsSound, RowIsSound
    <3>5. /\ r.type = row.type /\ r.source = "gtfs" /\ r.min \in Nat
          /\ r.from = Own(row.from) /\ r.to = Own(row.to)
          /\ r.fromRoute = Own(row.fromRoute) /\ r.toRoute = Own(row.toRoute)
          /\ r.fromTrip = Own(row.fromTrip) /\ r.toTrip = Own(row.toTrip)
      BY <3>1, <3>4 DEF TransferOf
    <3>6. /\ TransferEndOK(r.type, r.from, r.fromRoute, r.fromTrip)
          /\ TransferEndOK(r.type, r.to, r.toRoute, r.toTrip)
      BY <1>2, <3>1 DEF TransfersOK
    <3>7. new.stops = tx.stops /\ new.routes = tx.routes /\ new.trips = tx.trips
      BY <1>1 DEF Names
    <3> HIDE DEF row, new, transfers, rows
    <3>8. /\ ValidEnd(new, r.type, r.from, r.fromRoute, r.fromTrip)
          /\ ValidEnd(new, r.type, r.to, r.toRoute, r.toTrip)
      BY <3>6, <3>7, EndCompiled
    <3>9. \A a \in {r.from, r.to, r.fromRoute, r.toRoute, r.fromTrip, r.toTrip} \ {None} : a[1] = Feed.mode
      BY <3>5, OwnMode
    <3> QED
      BY <3>4, <3>5, <3>8, <3>9 DEF ValidTransfer, SameFeed
  <2> HIDE DEF new, transfers, rows
  <2>2. Extends(tx, new)
    BY <1>1 DEF Extends, Names
  <2> QED
    BY <1>1, <2>1, <2>2, Grown DEF IInv, Names
<1>3. new.pathways = tx.pathways
  BY <1>1 DEF Names
<1> HIDE DEF new
<1>4. CompileFile("transfers", TransfersOK(rows), new)
  BY DEF CompileTransfers, new
<1> HIDE DEF rows
<1> QED
  BY <1>1, <1>2, <1>3, <1>4, FileCompiled DEF Files

\* The pathways of a feed come last, and make it one of the lower modes.
LEMMA PathwaysCompile == ASSUME IInv, CompilePathways PROVE IInv'
<1> DEFINE rows == RowsOrNone("pathways")
           pathways == Each(rows, PathwayOf)
           new == [tx EXCEPT !.pathways = @ \cup pathways]
<1>1. Tables(new) /\ new.pathways = tx.pathways \cup pathways /\ \A f \in Names \ {"pathways"} : new[f] = tx[f]
  <2> HIDE DEF pathways
  <2> QED
    BY DEF IInv, Tables, Names
<1>2. outcome = "running" /\ step = "pathways" /\ step # "open"
  BY DEF CompilePathways, CompileFile, Stage
<1>3. ASSUME "pathways" \in DOMAIN Feed.files, PathwaysOK(rows), NEW p \in pathways
      PROVE  ValidPathway(new, p) /\ p.id[1] = Feed.mode
  <2>1. PICK i \in DOMAIN rows : p = PathwayOf(rows[i])
    BY <1>3 DEF Each
  <2> DEFINE row == rows[i]
  <2>2. row.ok /\ rows = Rows("pathways")
    BY <1>3, <2>1 DEF PathwaysOK, AllOK, RowsOrNone
  <2>3. row.id # None /\ row.from # None /\ row.to # None
    BY <1>2, <1>3, <2>1, <2>2, Sound DEF FileIsSound, RowIsSound
  <2>4. p.id = Own(row.id) /\ p.from = Own(row.from) /\ p.to = Own(row.to)
    BY <2>1 DEF PathwayOf
  <2>5. p.id[1] = Feed.mode /\ p.from[1] = Feed.mode /\ p.to[1] = Feed.mode
    BY <2>3, <2>4, OwnMode
  <2>6. /\ {p.from, p.to} \subseteq IdsOf(tx.stops)
        /\ \A s \in tx.stops : s.id \in {p.from, p.to} => s.kind # 1 /\ s.access # 1
    BY <1>3, <2>1, <2>4 DEF PathwaysOK
  <2>7. new.stops = tx.stops
    BY <1>1 DEF Names
  <2> HIDE DEF row, new, pathways, rows
  <2> QED
    BY <2>5, <2>6, <2>7 DEF ValidPathway, ResolvedIn, SameFeed
<1>4. FileAfter("pathways") = "connections"
  BY DEF FileAfter
<1>5. CASE "pathways" \notin DOMAIN Feed.files
  <2>1. Advance("connections", tx)
    BY <1>4, <1>5 DEF CompilePathways, CompileFile
  <2> QED
    BY <1>2, <2>1, TablesFilled DEF IInv, Files
<1>6. CASE "pathways" \in DOMAIN Feed.files /\ ~PathwaysOK(rows)
  BY <1>6, RollingBack DEF CompilePathways, CompileFile
<1>7. CASE "pathways" \in DOMAIN Feed.files /\ PathwaysOK(rows)
  <2>1. Advance("connections", new)
    BY <1>4, <1>7 DEF CompilePathways, CompileFile
  <2> HIDE DEF new, pathways, rows
  <2>2. ValidateResolvedDataset(new)
    <3>1. Extends(tx, new)
      BY <1>1 DEF Extends, Names
    <3> QED
      BY <1>1, <1>3, <1>7, <3>1, Grown DEF IInv, Names
  <2>3. /\ archive' = archive /\ feed' = feed /\ step' = "connections" /\ tx' = new
        /\ outcome' = outcome /\ store' = store
    BY <2>1 DEF Advance
  <2>4. PathwaysInOrder'
    <3>1. feed' \in DOMAIN archive' /\ Feed' = Feed /\ Feed.mode \in Int
      BY <1>2, <2>3, Sound DEF Feed
    <3>2. \A p \in new.pathways : p.id[1] \in Int /\ p.id[1] <= Feed.mode
      BY <1>1, <1>2, <1>3, <1>7, Sound DEF IInv, PathwaysInOrder
    <3> QED
      BY <2>3, <3>1, <3>2 DEF PathwaysInOrder, Files
  <2>5. CompiledIsPublishable'
    BY <1>2, <2>3 DEF CompiledIsPublishable
  <2> QED
    BY <1>1, <2>2, <2>3, <2>4, <2>5 DEF IInv, Stages, Linking, Tables
<1> QED
  BY <1>5, <1>6, <1>7
(***************************************************************************)
(* The stages before and after the files.                                  *)
(***************************************************************************)
LEMMA FilesCheck == ASSUME IInv, CheckFiles PROVE IInv'
<1>1. outcome = "running" /\ step = "required" /\ step # "open"
  BY DEF CheckFiles, Stage
<1>2. CASE Advance("levels", tx)
  BY <1>1, <1>2, TablesFilled DEF IInv, Files
<1>3. CASE Rolled
  BY <1>3, RollingBack
<1> QED
  BY <1>2, <1>3 DEF CheckFiles

\* A feed is begun after those of lower modes.
LEMMA FeedStarts ==
  ASSUME IInv, outcome = "running", NEW numbers \in SUBSET DOMAIN archive, NEW new, StartFeed(numbers, new),
         Tables(new), ValidateResolvedDataset(new),
         \A p \in new.pathways : p.id[1] \in Int /\ \A i \in numbers : p.id[1] < archive[i].mode
  PROVE  IInv'
<1>1. /\ feed' \in numbers /\ step' = "required" /\ tx' = new
      /\ archive' = archive /\ store' = store /\ outcome' = outcome
  BY DEF StartFeed
<1>2. Feed'.mode \in Int
  BY <1>1, ArchivesAssumption DEF IInv, Feed
<1>3. PathwaysInOrder'
  BY <1>1, <1>2 DEF PathwaysInOrder, Feed
<1>4. CompiledIsPublishable'
  BY <1>1 DEF CompiledIsPublishable
<1> QED
  BY <1>1, <1>3, <1>4 DEF IInv, Stages, Linking, Tables

LEMMA ArchiveOpens == ASSUME IInv, Open PROVE IInv'
<1>1. outcome = "running" /\ tx.pathways = {}
  BY DEF Open, Stage, IInv, PathwaysInOrder
<1>2. CASE StartFeed(DOMAIN archive, tx)
  BY <1>1, <1>2, FeedStarts DEF IInv
<1>3. CASE Rolled
  BY <1>3, RollingBack
<1> QED
  BY <1>2, <1>3 DEF Open

LEMMA ConnectionsCompile ==
  ASSUME IInv, NEW c \in Connections(tx.trips, tx.times)
  PROVE  ValidConnection(tx, c)
<1>1. PICK i \in DOMAIN tx.times : \E j \in FollowingTimes(tx.times, i) :
        /\ FollowsInTime(tx.times[i], tx.times[j])
        /\ c = Segment(tx.trips[tx.times[i].trip], tx.times[i], tx.times[j])
  BY DEF Connections
<1>2. PICK j \in FollowingTimes(tx.times, i) :
        /\ FollowsInTime(tx.times[i], tx.times[j])
        /\ c = Segment(tx.trips[tx.times[i].trip], tx.times[i], tx.times[j])
  BY <1>1
<1>3. j \in DOMAIN tx.times /\ tx.times[j].trip = tx.times[i].trip
  BY DEF FollowingTimes
<1> DEFINE a == tx.times[i]
           b == tx.times[j]
           trip == tx.trips[a.trip]
<1>4. ValidTime(tx, a) /\ ValidTime(tx, b)
  BY <1>3 DEF IInv, ValidateResolvedDataset
<1>5. a.trip \in DOMAIN tx.trips /\ ValidTrip(tx, trip)
  BY <1>4 DEF IInv, ValidateResolvedDataset, ValidTime
<1>6. /\ c.trip = a.trip /\ c.service = trip.service /\ c.from = a.stop /\ c.to = b.stop
      /\ c.fromSeq = a.seq /\ c.toSeq = b.seq /\ c.dep = a.dep /\ c.arr = b.arr
  BY <1>2 DEF Segment
<1>7. b.seq > a.seq /\ b.arr >= a.dep /\ b.trip = a.trip
  BY <1>2, <1>3 DEF FollowsInTime
<1> HIDE DEF a, b
<1> QED
  BY <1>4, <1>5, <1>6, <1>7 DEF ValidConnection, ValidTime, ValidTrip, ResolvedIn, SameFeed

LEMMA ConnectionsMaterialize == ASSUME IInv, MaterializeConnections PROVE IInv'
<1> DEFINE connections == Connections(tx.trips, tx.times)
           new == [tx EXCEPT !.connections = connections]
<1>1. outcome = "running" /\ step = "connections" /\ step # "open"
  BY DEF MaterializeConnections, Stage
<1>2. Tables(new) /\ new.connections = connections /\ \A f \in Names \ {"connections"} : new[f] = tx[f]
  <2> HIDE DEF connections
  <2> QED
    BY DEF IInv, Tables, Names
<1>3. \/ ~HasCoreRows(new) /\ Rolled
      \/ HasCoreRows(new) /\ Advance("links", new)
      \/ StartFeed(Later, new)
  BY DEF MaterializeConnections
<1>4. \A c \in connections : ValidConnection(tx, c)
  BY ConnectionsCompile
<1> HIDE DEF new, connections
<1>5. Extends(tx, new) /\ new.pathways = tx.pathways
  BY <1>2 DEF Extends, Names
<1>6. ValidateResolvedDataset(new)
  BY <1>2, <1>4, <1>5, ConnectionStays, Grown DEF IInv, Names
<1>7. CASE Rolled
  BY <1>7, RollingBack
<1>8. CASE StartFeed(Later, new)
  <2>1. feed \in DOMAIN archive /\ Feed.mode \in Int
    BY <1>1, Sound
  <2>2. \A i \in Later : archive[i].mode \in Int /\ archive[i].mode > Feed.mode
    BY ArchivesAssumption DEF IInv, Later
  <2>3. \A p \in new.pathways : p.id[1] \in Int /\ p.id[1] <= Feed.mode
    BY <1>1, <1>5 DEF IInv, PathwaysInOrder
  <2>4. Later \in SUBSET DOMAIN archive
    BY DEF Later
  <2>5. \A p \in new.pathways : p.id[1] \in Int /\ \A i \in Later : p.id[1] < archive[i].mode
    BY <2>1, <2>2, <2>3
  <2> QED
    BY <1>1, <1>2, <1>6, <1>8, <2>4, <2>5, FeedStarts
<1>9. CASE HasCoreRows(new) /\ Advance("links", new)
  <2>1. /\ archive' = archive /\ feed' = feed /\ step' = "links" /\ tx' = new
        /\ outcome' = outcome /\ store' = store
    BY <1>9 DEF Advance
  <2>2. CoreRowsPresent(new)
    <3>1. {} \notin {new.stops, new.routes, new.services, new.connections} /\ new.trips # <<>>
      BY <1>9 DEF HasCoreRows
    <3>2. new.times # <<>>
      <4>1. PICK c \in connections : TRUE
        BY <1>2, <3>1
      <4>2. \E i \in DOMAIN tx.times : TRUE
        BY <4>1 DEF connections, Connections
      <4> QED
        BY <1>2, <4>2 DEF Names
    <3> QED
      BY <3>1, <3>2 DEF CoreRowsPresent
  <2>3. PathwaysInOrder'
    BY <1>1, <1>5, <2>1 DEF IInv, PathwaysInOrder, Feed, Files
  <2>4. CompiledIsPublishable'
    BY <1>1, <2>1 DEF CompiledIsPublishable
  <2> QED
    BY <1>2, <1>6, <2>1, <2>2, <2>3, <2>4 DEF IInv, Stages, Linking, Tables
<1> QED
  BY <1>3, <1>7, <1>8, <1>9
LEMMA LinksAreValid ==
  ASSUME NEW t, NEW n, Extends(t, n), ValidateResolvedDataset(t), n.links = TripLinks(t.transfers),
         NEW l \in n.links
  PROVE  ValidLink(n, l)
<1> DEFINE linked == {r \in t.transfers : r.type \in {StayTransfer, LeaveTransfer}}
           Ends(r) == <<r.fromTrip, r.toTrip, r.from, r.to>>
           Of(r) == [fromTrip |-> r.fromTrip, toTrip |-> r.toTrip, from |-> r.from, to |-> r.to, type |-> r.type]
           strongest == {x \in linked : \A y \in linked : Ends(y) = Ends(x) => y.type <= x.type}
<1>1. n.links = {Of(r) : r \in strongest}
  BY DEF TripLinks
<1>2. PICK r \in strongest : l = Of(r)
  BY <1>1
<1>3. ValidTransfer(t, r) /\ r.type \in {4, 5}
  BY DEF ValidateResolvedDataset, StayTransfer, LeaveTransfer
<1>4. r.source = "gtfs"
  BY <1>3 DEF ValidTransfer
<1>5. /\ r.fromTrip # None /\ r.toTrip # None
      /\ {r.fromTrip, r.toTrip} \subseteq TripIds(t.trips)
      /\ {r.from, r.to} \ {None} \subseteq IdsOf(t.stops)
  BY <1>3, <1>4 DEF ValidTransfer, ValidEnd
<1>6. \A a \in {r.toTrip, r.from, r.to} \ {None} : SameFeed(a, r.fromTrip)
  BY <1>3, <1>4, <1>5 DEF ValidTransfer
<1>7. /\ l.type = r.type /\ l.fromTrip = r.fromTrip /\ l.toTrip = r.toTrip /\ l.from = r.from /\ l.to = r.to
  BY <1>2
<1>8. \A o \in n.links : [o EXCEPT !.type = l.type] = l => o = l
  <2> SUFFICES ASSUME NEW o \in n.links, [o EXCEPT !.type = l.type] = l PROVE o = l
    OBVIOUS
  <2>1. PICK s \in strongest : o = Of(s)
    BY <1>1
  <2>2. [o EXCEPT !.type = l.type] =
          [fromTrip |-> s.fromTrip, toTrip |-> s.toTrip, from |-> s.from, to |-> s.to, type |-> l.type]
    BY <2>1
  <2>3. Ends(s) = Ends(r)
    BY <1>2, <2>2
  <2>4. s.type <= r.type /\ r.type <= s.type
    BY <2>3
  <2>5. s.type \in {4, 5}
    BY DEF StayTransfer, LeaveTransfer
  <2>6. s.type = r.type
    BY <1>3, <2>4, <2>5
  <2> HIDE DEF strongest
  <2> QED
    BY <1>2, <2>1, <2>3, <2>6
<1> HIDE DEF strongest
<1> QED
  BY <1>3, <1>5, <1>6, <1>7, <1>8, IdsGrow DEF ValidLink, ResolvedIn, StayTransfer, LeaveTransfer

LEMMA LinksMaterialize == ASSUME IInv, MaterializeTripLinks PROVE IInv'
<1> DEFINE links == TripLinks(tx.transfers)
           new == [tx EXCEPT !.links = links]
<1>1. Tables(new) /\ new.links = links /\ \A f \in Names \ {"links"} : new[f] = tx[f]
  <2> HIDE DEF links
  <2> QED
    BY DEF IInv, Tables, Names
<1>2. /\ outcome = "running" /\ step = "links" /\ archive' = archive /\ feed' = feed /\ step' = "proximity"
      /\ tx' = new /\ outcome' = outcome /\ store' = store
  BY DEF MaterializeTripLinks, Stage, Advance
<1> HIDE DEF new
<1>3. Extends(tx, new)
  BY <1>1 DEF Extends, Names
<1>4. \A l \in new.links : ValidLink(new, l)
  BY <1>1, <1>3, LinksAreValid DEF IInv, links
<1>5. /\ new.stops = tx.stops /\ new.routes = tx.routes /\ new.services = tx.services /\ new.exceptions = tx.exceptions
      /\ new.trips = tx.trips /\ new.times = tx.times /\ new.transfers = tx.transfers
      /\ new.pathways = tx.pathways /\ new.connections = tx.connections
  BY <1>1 DEF Names
<1>6. ValidateResolvedDataset(new)
  <2>1. \A s \in new.stops : ValidStop(new, s)
    BY <1>3, <1>5, StopStays DEF IInv, ValidateResolvedDataset
  <2>2. \A k \in DOMAIN new.trips : ValidTrip(new, new.trips[k])
    BY <1>3, <1>5, TripStays DEF IInv, ValidateResolvedDataset
  <2>3. \A k \in DOMAIN new.times : ValidTime(new, new.times[k])
    BY <1>3, <1>5, TimeStays DEF IInv, ValidateResolvedDataset
  <2>4. \A e \in new.exceptions : ValidException(new, e)
    BY <1>3, <1>5, ExceptionStays DEF IInv, ValidateResolvedDataset
  <2>5. \A r \in new.transfers : ValidTransfer(new, r)
    BY <1>3, <1>5, TransferStays DEF IInv, ValidateResolvedDataset
  <2>6. \A p \in new.pathways : ValidPathway(new, p)
    BY <1>3, <1>5, PathwayStays DEF IInv, ValidateResolvedDataset
  <2>7. \A c \in new.connections : ValidConnection(new, c)
    BY <1>3, <1>5, ConnectionStays DEF IInv, ValidateResolvedDataset
  <2> QED
    BY <1>4, <2>1, <2>2, <2>3, <2>4, <2>5, <2>6, <2>7 DEF ValidateResolvedDataset
<1>7. PathwaysInOrder'
  BY <1>2, <1>5 DEF IInv, PathwaysInOrder, Feed, Files
<1>8. CoreRowsPresent(new)
  BY <1>2, <1>5 DEF IInv, CoreRowsPresent, Linking
<1>9. CompiledIsPublishable'
  BY <1>2 DEF CompiledIsPublishable
<1> QED
  BY <1>1, <1>2, <1>6, <1>7, <1>8, <1>9 DEF IInv, Stages, Linking, Tables

LEMMA WalksAreValid ==
  ASSUME IInv, NEW n, n.stops = tx.stops, NEW r \in ProximityTransfers(tx)
  PROVE  ValidTransfer(n, r)
<1>1. PICK p \in Near(tx) : r = Walk(p[1], p[2])
  BY DEF ProximityTransfers
<1>2. p[1] \in Eligible(tx) /\ p[2] \in Eligible(tx) /\ Distance(p[1], p[2]) <= WalkRange
  BY DEF Near
<1>3. p[1] \in tx.stops /\ p[2] \in tx.stops
  BY <1>2 DEF Eligible
<1>4. /\ r.from = p[1].id /\ r.to = p[2].id /\ r.type = 2 /\ Unqualified(r) /\ r.source = "proximity"
      /\ r.min = IF Distance(p[1], p[2]) = 0 THEN 1 ELSE Distance(p[1], p[2])
  BY <1>1 DEF Walk, Unqualified
<1>5. p[1].pos \in Int /\ p[2].pos \in Int
  BY <1>2, <1>3 DEF IInv, Tables, Placed, Eligible
<1>6. r.min >= 0
  BY <1>4, <1>5 DEF Distance
<1> QED
  BY <1>3, <1>4, <1>6 DEF ValidTransfer, IdsOf

LEMMA WalksGenerate == ASSUME IInv, GenerateProximityTransfers PROVE IInv'
<1> DEFINE walks == ProximityTransfers(tx)
           new == [tx EXCEPT !.transfers = @ \cup walks]
<1>1. Tables(new) /\ new.transfers = tx.transfers \cup walks /\ \A f \in Names \ {"transfers"} : new[f] = tx[f]
  <2> HIDE DEF walks
  <2> QED
    BY DEF IInv, Tables, Names
<1>2. /\ outcome = "running" /\ step = "proximity" /\ archive' = archive /\ feed' = feed /\ step' = "commit"
      /\ tx' = new /\ outcome' = outcome /\ store' = store
  BY DEF GenerateProximityTransfers, Stage, Advance
<1> HIDE DEF new
<1>3. Extends(tx, new) /\ new.pathways = tx.pathways
  BY <1>1 DEF Extends, Names
<1>4. \A r \in walks : ValidTransfer(new, r)
  BY <1>1, WalksAreValid DEF Names
<1>5. ValidateResolvedDataset(new)
  <2> HIDE DEF walks
  <2> QED
    BY <1>1, <1>3, <1>4, Grown DEF IInv, Names
<1>6. PathwaysInOrder'
  BY <1>2, <1>3 DEF IInv, PathwaysInOrder, Feed, Files
<1>7. CoreRowsPresent(new)
  BY <1>1, <1>2 DEF IInv, CoreRowsPresent, Linking, Names
<1>8. CompiledIsPublishable'
  BY <1>2 DEF CompiledIsPublishable
<1> QED
  BY <1>1, <1>2, <1>5, <1>6, <1>7, <1>8 DEF IInv, Stages, Linking, Tables

\* The coverage is all that is added to what is committed.
LEMMA Commits == ASSUME IInv, Commit PROVE IInv'
<1>1. CASE Rolled
  BY <1>1, RollingBack
<1>2. CASE store' = [tx EXCEPT !.coverage = Coverage(tx)] /\ outcome' = "compiled" /\ UNCHANGED <<archive, feed, step, tx>>
  <2> DEFINE coverage == Coverage(tx)
             new == [tx EXCEPT !.coverage = coverage]
  <2>1. \A f \in Names \ {"coverage"} : new[f] = tx[f]
    <3> HIDE DEF coverage
    <3> QED
      BY DEF IInv, Tables, Names
  <2>2. CoreRowsPresent(tx)
    BY DEF Commit, Stage, IInv, Linking
  <2> HIDE DEF new
  <2>3. CoreRowsPresent(new)
    BY <2>1, <2>2 DEF CoreRowsPresent, Names
  <2>4. ValidateResolvedDataset(new)
    <3>1. Extends(tx, new)
      BY <2>1 DEF Extends, Names
    <3> QED
      BY <2>1, <3>1, Grown DEF IInv, Names
  <2>5. CompiledIsPublishable'
    BY <1>2, <2>3, <2>4 DEF CompiledIsPublishable, new
  <2> QED
    BY <1>2, <2>5 DEF IInv, Tables
<1> QED
  BY <1>1, <1>2 DEF Commit

(***************************************************************************)
(* The theorem.                                                            *)
(***************************************************************************)
\* A new staging database has no rows.
THEOREM InitIInv == Init => IInv
BY NoRowsAreValid DEF Init, IInv, Stages, PathwaysInOrder, Linking, Files, CompiledIsPublishable, NoRows

\* No step of compileArchive leaves a row that a later one, or the publication,
\* would find wrong.
THEOREM StepIInv == IInv /\ [CompilerNext]_compilerVars => IInv'
<1> SUFFICES ASSUME IInv, [CompilerNext]_compilerVars PROVE IInv'
  OBVIOUS
<1>1. CASE UNCHANGED compilerVars
  BY <1>1 DEF compilerVars, IInv, Tables, PathwaysInOrder, Feed, CompiledIsPublishable
<1>2. CASE Abort
  BY <1>2, RollingBack DEF Abort
<1>3. CASE CompilerNext /\ ~Abort
  BY <1>3, ArchiveOpens, FilesCheck, LevelsCompile, StopsCompile, RoutesCompile, CalendarCompile,
     CalendarDatesCompile, TripsCompile, StopTimesCompile, TransfersCompile, PathwaysCompile,
     ConnectionsMaterialize, LinksMaterialize, WalksGenerate, Commits
     DEF CompilerNext
<1> QED
  BY <1>1, <1>2, <1>3

\* Whatever the archive, what is committed is what prepareForPublication
\* accepts: an update never fails after it compiled.
THEOREM Publishable == CompilerSpec => []CompiledIsPublishable
<1>1. IInv => CompiledIsPublishable
  BY DEF IInv
<1> QED
  BY <1>1, InitIInv, StepIInv, PTL DEF CompilerSpec

(***************************************************************************)
(* From the tables to the window.                                          *)
(***************************************************************************)

(***************************************************************************)
(* The invariant.                                                          *)
(***************************************************************************)
OneStopPerId(stops) == \A a, b \in stops : a.id = b.id => a = b

BeforeStops == {"required", "levels", "stops"}

\* The stops compiled so far are of lower modes, or of this feed once its stops
\* are.
StopsInOrder ==
  /\ step = "open" => tx.stops = {}
  /\ step # "open" =>
       \A s \in tx.stops : /\ s.id[1] \in Int /\ s.id[1] <= Feed.mode
                           /\ step \in BeforeStops => s.id[1] < Feed.mode

FromFeed(rules) == \A r \in rules : r.source = "gtfs"

Above(stops, id) == {id, ParentId(stops, id)}
                      \cup IF ParentId(stops, id) = None THEN {}
                           ELSE {ParentId(stops, ParentId(stops, id))}

Forbids(t) == \A r, g \in t.transfers :
                r.type = NoTransfer /\ Unqualified(r) /\ g.source = "proximity"
                  => ~(r.from \in Above(t.stops, g.from) /\ r.to \in Above(t.stops, g.to))

WalksInv == /\ outcome = "running" =>
                 /\ OneStopPerId(tx.stops) /\ StopsInOrder
                 /\ step # "commit" => FromFeed(tx.transfers)
                 /\ step = "commit" => Forbids(tx)
            /\ outcome = "compiled" => Forbids(store)

(***************************************************************************)
(* The files.                                                              *)
(***************************************************************************)
LEMMA AfterStops == ASSUME NEW file \in Files \ {"levels"} PROVE FileAfter(file) \notin BeforeStops \cup {"open", "commit"}
<1>1. CASE file = "pathways"
  BY <1>1 DEF FileAfter, BeforeStops
<1>2. CASE file # "pathways"
  <2>1. PICK i \in 1 .. 9 : FileOrder[i] = file
    BY DEF Files, FileOrder
  <2> DEFINE j == CHOOSE k \in DOMAIN FileOrder : FileOrder[k] = file
  <2>2. DOMAIN FileOrder = 1 .. 9
    BY DEF FileOrder
  <2>3. j \in 1 .. 9 /\ FileOrder[j] = file
    BY <2>1, <2>2
  <2>4. FileOrder[1] = "levels" /\ FileOrder[9] = "pathways"
    BY DEF FileOrder
  <2>5. FileAfter(file) = FileOrder[j + 1]
    BY <1>2 DEF FileAfter
  <2> HIDE DEF j
  <2>6. j + 1 \in 3 .. 9
    BY <1>2, <2>3, <2>4
  <2>7. \A k \in 3 .. 9 : FileOrder[k] \notin BeforeStops \cup {"open", "commit"}
    BY DEF FileOrder, BeforeStops
  <2> QED
    BY <2>5, <2>6, <2>7
<1> QED
  BY <1>1, <1>2

\* The stops are compiled after the levels.
LEMMA AfterLevels == FileAfter("levels") = "stops"
<1> DEFINE j == CHOOSE k \in DOMAIN FileOrder : FileOrder[k] = "levels"
<1>1. DOMAIN FileOrder = 1 .. 9 /\ \A k \in 1 .. 9 : FileOrder[k] = "levels" <=> k = 1
  BY DEF FileOrder
<1>2. j = 1
  BY <1>1
<1>3. FileAfter("levels") = FileOrder[j + 1]
  BY DEF FileAfter
<1> HIDE DEF j
<1> QED
  BY <1>2, <1>3 DEF FileOrder

\* A file other than the stops leaves them alone, and its rules are the feed's.
LEMMA OtherFile ==
  ASSUME IInv, WalksInv, NEW file \in Files \ {"stops"}, NEW valid, NEW new, CompileFile(file, valid, new),
         new.stops = tx.stops, valid => FromFeed(new.transfers)
  PROVE  WalksInv'
<1>1. outcome = "running" /\ step = file /\ step \notin {"open", "commit"}
  BY DEF CompileFile, Stage, Files
<1>2. FileAfter(file) \notin {"open", "commit"} /\ (FileAfter(file) \in BeforeStops => file \in BeforeStops)
  BY AfterStops, AfterLevels DEF BeforeStops
<1>3. CASE Rolled
  BY <1>1, <1>3 DEF Rolled, WalksInv
<1>4. ASSUME NEW n, Advance(FileAfter(file), n), n.stops = tx.stops, FromFeed(n.transfers)
      PROVE  WalksInv'
  BY <1>1, <1>2, <1>4 DEF Advance, WalksInv, StopsInOrder, Feed
<1>5. FromFeed(tx.transfers)
  BY <1>1 DEF WalksInv
<1> QED
  BY <1>3, <1>4, <1>5 DEF CompileFile

\* Files other than the three that walks depend on.
LEMMA OtherTables ==
  ASSUME IInv, NEW file \in Names \ {"stops", "transfers"}, NEW table
  PROVE  /\ [tx EXCEPT ![file] = table].stops = tx.stops
         /\ [tx EXCEPT ![file] = table].transfers = tx.transfers
<1>1. DOMAIN tx = Names
  BY DEF IInv, Tables
<1> QED
  BY <1>1 DEF Names

\* The same, file by file (compiler_csv.go).
LEMMA LevelsKeep == ASSUME IInv, WalksInv, CompileLevels PROVE WalksInv'
<1> DEFINE table == tx.levels \cup {Own(RowsOrNone("levels")[i].id) : i \in DOMAIN RowsOrNone("levels")}
           new == [tx EXCEPT !.levels = table]
           valid == AllOK(RowsOrNone("levels")) /\ NoneRepeats(RowsOrNone("levels"))
<1>1. CompileFile("levels", valid, new)
  BY DEF CompileLevels
<1>2. new.stops = tx.stops /\ new.transfers = tx.transfers
  <2> HIDE DEF table
  <2> QED
    BY OtherTables DEF Names
<1>3. FromFeed(tx.transfers)
  BY DEF CompileLevels, CompileFile, Stage, WalksInv
<1> HIDE DEF new, valid
<1> QED
  BY <1>1, <1>2, <1>3, OtherFile DEF Files

\* Neither stops nor transfers change in compileRoutes.
LEMMA RoutesKeep == ASSUME IInv, WalksInv, CompileRoutes PROVE WalksInv'
<1> DEFINE table == tx.routes \cup {[id |-> Own(RowsOrNone("routes")[i].id)] : i \in DOMAIN RowsOrNone("routes")}
           new == [tx EXCEPT !.routes = table]
           valid == AllOK(RowsOrNone("routes")) /\ NoneRepeats(RowsOrNone("routes"))
<1>1. CompileFile("routes", valid, new)
  BY DEF CompileRoutes
<1>2. new.stops = tx.stops /\ new.transfers = tx.transfers
  <2> HIDE DEF table
  <2> QED
    BY OtherTables DEF Names
<1>3. FromFeed(tx.transfers)
  BY DEF CompileRoutes, CompileFile, Stage, WalksInv
<1> HIDE DEF new, valid
<1> QED
  BY <1>1, <1>2, <1>3, OtherFile DEF Files

\* Neither stops nor transfers change in compileCalendar.
LEMMA CalendarKeeps == ASSUME IInv, WalksInv, CompileCalendar PROVE WalksInv'
<1> DEFINE table == tx.services \cup Each(RowsOrNone("calendar"), ServiceOf)
           new == [tx EXCEPT !.services = table]
           valid == CalendarOK(RowsOrNone("calendar"))
<1>1. CompileFile("calendar", valid, new)
  BY DEF CompileCalendar
<1>2. new.stops = tx.stops /\ new.transfers = tx.transfers
  <2> HIDE DEF table
  <2> QED
    BY OtherTables DEF Names
<1>3. FromFeed(tx.transfers)
  BY DEF CompileCalendar, CompileFile, Stage, WalksInv
<1> HIDE DEF new, valid
<1> QED
  BY <1>1, <1>2, <1>3, OtherFile DEF Files

\* Neither stops nor transfers change in compileCalendarDates.
LEMMA CalendarDatesKeep == ASSUME IInv, WalksInv, CompileCalendarDates PROVE WalksInv'
<1> DEFINE exceptions == tx.exceptions \cup Each(RowsOrNone("dates"), ExceptionOf)
           services == tx.services \cup DateOnlyServices(Each(RowsOrNone("dates"), ExceptionOf), tx.services)
           new == [tx EXCEPT !.exceptions = exceptions, !.services = services]
           valid == DatesOK(RowsOrNone("dates"), tx.services)
<1>1. CompileFile("dates", valid, new)
  BY DEF CompileCalendarDates
<1>2. new.stops = tx.stops /\ new.transfers = tx.transfers
  <2>1. DOMAIN tx = Names
    BY DEF IInv, Tables
  <2> HIDE DEF exceptions, services
  <2> QED
    BY <2>1 DEF Names
<1>3. FromFeed(tx.transfers)
  BY DEF CompileCalendarDates, CompileFile, Stage, WalksInv
<1> HIDE DEF new, valid
<1> QED
  BY <1>1, <1>2, <1>3, OtherFile DEF Files

\* Neither stops nor transfers change in compileTrips.
LEMMA TripsKeep == ASSUME IInv, WalksInv, CompileTrips PROVE WalksInv'
<1> DEFINE table == AddRows(tx.trips, CompiledTrips(RowsOrNone("trips")))
           new == [tx EXCEPT !.trips = table]
           valid == TripsOK(RowsOrNone("trips"))
<1>1. CompileFile("trips", valid, new)
  BY DEF CompileTrips
<1>2. new.stops = tx.stops /\ new.transfers = tx.transfers
  <2> HIDE DEF table
  <2> QED
    BY OtherTables DEF Names
<1>3. FromFeed(tx.transfers)
  BY DEF CompileTrips, CompileFile, Stage, WalksInv
<1> HIDE DEF new, valid
<1> QED
  BY <1>1, <1>2, <1>3, OtherFile DEF Files

\* Neither stops nor transfers change in compileStopTimes.
LEMMA StopTimesKeep == ASSUME IInv, WalksInv, CompileStopTimes PROVE WalksInv'
<1> DEFINE table == AddRows(tx.times, CompiledTimes(RowsOrNone("times")))
           new == [tx EXCEPT !.times = table]
           valid == TimesOK(RowsOrNone("times"))
<1>1. CompileFile("times", valid, new)
  BY DEF CompileStopTimes
<1>2. new.stops = tx.stops /\ new.transfers = tx.transfers
  <2> HIDE DEF table
  <2> QED
    BY OtherTables DEF Names
<1>3. FromFeed(tx.transfers)
  BY DEF CompileStopTimes, CompileFile, Stage, WalksInv
<1> HIDE DEF new, valid
<1> QED
  BY <1>1, <1>2, <1>3, OtherFile DEF Files

\* Neither stops nor transfers change in compilePathways.
LEMMA PathwaysKeep == ASSUME IInv, WalksInv, CompilePathways PROVE WalksInv'
<1> DEFINE table == tx.pathways \cup Each(RowsOrNone("pathways"), PathwayOf)
           new == [tx EXCEPT !.pathways = table]
           valid == PathwaysOK(RowsOrNone("pathways"))
<1>1. CompileFile("pathways", valid, new)
  BY DEF CompilePathways
<1>2. new.stops = tx.stops /\ new.transfers = tx.transfers
  <2> HIDE DEF table
  <2> QED
    BY OtherTables DEF Names
<1>3. FromFeed(tx.transfers)
  BY DEF CompilePathways, CompileFile, Stage, WalksInv
<1> HIDE DEF new, valid
<1> QED
  BY <1>1, <1>2, <1>3, OtherFile DEF Files

\* The transfers of a feed are the feed's own (compileTransfers).
LEMMA TransfersFromFeed == ASSUME IInv, WalksInv, CompileTransfers PROVE WalksInv'
<1> DEFINE added == Each(RowsOrNone("transfers"), TransferOf)
           table == tx.transfers \cup added
           new == [tx EXCEPT !.transfers = table]
           valid == TransfersOK(RowsOrNone("transfers"))
<1>1. CompileFile("transfers", valid, new)
  BY DEF CompileTransfers
<1>2. new.stops = tx.stops /\ new.transfers = table
  <2>1. DOMAIN tx = Names
    BY DEF IInv, Tables
  <2> HIDE DEF table
  <2> QED
    BY <2>1 DEF Names
<1>3. FromFeed(tx.transfers)
  BY DEF CompileTransfers, CompileFile, Stage, WalksInv
<1>4. FromFeed(table)
  BY <1>3 DEF FromFeed, Each, TransferOf
<1> HIDE DEF new, valid, table
<1> QED
  BY <1>1, <1>2, <1>4, OtherFile DEF Files

\* No id comes twice: neither in a file, nor in two feeds, whose ids differ in
\* their modes.
LEMMA StopsAdded == ASSUME IInv, WalksInv, CompileStops PROVE WalksInv'
<1> DEFINE rows == RowsOrNone("stops")
           stops == Each(rows, StopOf)
           table == tx.stops \cup stops
           new == [tx EXCEPT !.stops = table]
<1>1. outcome = "running" /\ step = "stops"
  BY DEF CompileStops, CompileFile, Stage
<1>2. /\ OneStopPerId(tx.stops) /\ FromFeed(tx.transfers)
      /\ \A s \in tx.stops : s.id[1] \in Int /\ s.id[1] < Feed.mode
  BY <1>1 DEF WalksInv, StopsInOrder, BeforeStops
<1>3. new.stops = table /\ new.transfers = tx.transfers
  <2>1. DOMAIN tx = Names
    BY DEF IInv, Tables
  <2> HIDE DEF table
  <2> QED
    BY <2>1 DEF Names
<1>4. FileAfter("stops") \notin BeforeStops \cup {"open", "commit"}
  BY AfterStops DEF Files
<1>5. CASE Rolled
  BY <1>5 DEF Rolled, WalksInv
<1>6. CASE "stops" \notin DOMAIN Feed.files /\ Advance(FileAfter("stops"), tx)
  BY <1>1, <1>2, <1>4, <1>6, Sound DEF WalksInv, StopsInOrder, Advance, Feed
<1>7. ASSUME "stops" \in DOMAIN Feed.files, StopsOK(rows, stops, tx.levels), Advance(FileAfter("stops"), new)
      PROVE  WalksInv'
  <2>1. Feed.mode \in Int /\ FileIsSound("stops", rows)
    BY <1>1, <1>7, Sound DEF RowsOrNone
  <2>2. ASSUME NEW i \in DOMAIN rows
        PROVE  StopOf(rows[i]).id = <<Feed.mode, rows[i].id>> /\ i \in Nat \ {0}
    <3>1. rows[i].id # None
      BY <1>7, <2>1 DEF StopsOK, AllOK, FileIsSound, RowIsSound
    <3> QED
      BY <2>1, <3>1 DEF StopOf, Own, FileIsSound
  <2>3. ASSUME NEW i \in DOMAIN rows, NEW j \in DOMAIN rows, rows[i].id = rows[j].id
        PROVE  i = j
    <3>1. i \in Nat \ {0} /\ j \in Nat \ {0}
      BY <2>2
    <3>2. ~(j < i) /\ ~(i < j)
      BY <1>7, <2>3, <3>1 DEF StopsOK, NoneRepeats, Repeats
    <3> QED
      BY <3>1, <3>2
  <2>4. \A s \in stops : \E i \in DOMAIN rows : s = StopOf(rows[i]) /\ s.id = <<Feed.mode, rows[i].id>>
    BY <2>2 DEF Each
  <2> HIDE DEF rows, stops
  <2>5. \A s \in stops : s.id[1] = Feed.mode
    BY <2>4
  <2>6. \A a, b \in stops : a.id = b.id => a = b
    <3> SUFFICES ASSUME NEW a \in stops, NEW b \in stops, a.id = b.id PROVE a = b
      OBVIOUS
    <3>1. PICK i \in DOMAIN rows : a = StopOf(rows[i]) /\ a.id = <<Feed.mode, rows[i].id>>
      BY <2>4
    <3>2. PICK j \in DOMAIN rows : b = StopOf(rows[j]) /\ b.id = <<Feed.mode, rows[j].id>>
      BY <2>4
    <3>3. rows[i].id = rows[j].id
      BY <3>1, <3>2
    <3> QED
      BY <2>3, <3>1, <3>2, <3>3
  <2>7. OneStopPerId(table)
    BY <1>2, <2>1, <2>5, <2>6 DEF OneStopPerId
  <2>8. \A s \in table : s.id[1] \in Int /\ s.id[1] <= Feed.mode
    BY <1>2, <2>1, <2>5
  <2> HIDE DEF table, new
  <2> QED
    BY <1>1, <1>2, <1>3, <1>4, <1>7, <2>7, <2>8 DEF WalksInv, StopsInOrder, Advance, Feed
<1> QED
  BY <1>5, <1>6, <1>7 DEF CompileStops, CompileFile

(***************************************************************************)
(* The stages before and after the files.                                  *)
(***************************************************************************)
LEMMA FeedBegins ==
  ASSUME IInv, WalksInv, outcome = "running", step # "commit",
         NEW numbers \in SUBSET DOMAIN archive, NEW new, StartFeed(numbers, new),
         new.stops = tx.stops, new.transfers = tx.transfers,
         \A s \in tx.stops : s.id[1] \in Int /\ \A i \in numbers : s.id[1] < archive[i].mode
  PROVE  WalksInv'
<1>1. /\ feed' \in numbers /\ step' = "required" /\ tx' = new
      /\ archive' = archive /\ outcome' = outcome
  BY DEF StartFeed
<1>2. Feed'.mode = archive[feed'].mode /\ archive[feed'].mode \in Int
  BY <1>1, ArchivesAssumption DEF IInv, Feed
<1>3. \A s \in tx.stops : s.id[1] \in Int /\ s.id[1] < Feed'.mode /\ s.id[1] <= Feed'.mode
  BY <1>1, <1>2
<1>4. StopsInOrder'
  BY <1>1, <1>3 DEF StopsInOrder
<1> QED
  BY <1>1, <1>4 DEF WalksInv

\* Opening an archive, or its next feed, keeps the stops of lower modes.
LEMMA OpenKeeps == ASSUME IInv, WalksInv, Open PROVE WalksInv'
<1>1. outcome = "running" /\ step = "open" /\ tx.stops = {}
  BY DEF Open, Stage, WalksInv, StopsInOrder
<1>2. CASE StartFeed(DOMAIN archive, tx)
  BY <1>1, <1>2, FeedBegins
<1>3. CASE Rolled
  BY <1>1, <1>3 DEF Rolled, WalksInv
<1> QED
  BY <1>2, <1>3 DEF Open

\* Checking the files of a feed changes no row.
LEMMA CheckKeeps == ASSUME IInv, WalksInv, CheckFiles PROVE WalksInv'
<1>1. outcome = "running" /\ step = "required"
  BY DEF CheckFiles, Stage
<1>2. CASE Rolled
  BY <1>2 DEF Rolled, WalksInv
<1>3. CASE Advance("levels", tx)
  BY <1>1, <1>3 DEF Advance, WalksInv, StopsInOrder, Feed, BeforeStops
<1> QED
  BY <1>2, <1>3 DEF CheckFiles

\* Connections are no walks (materializeConnections).
LEMMA ConnectionsKeep == ASSUME IInv, WalksInv, MaterializeConnections PROVE WalksInv'
<1> DEFINE connections == Connections(tx.trips, tx.times)
           new == [tx EXCEPT !.connections = connections]
<1>1. outcome = "running" /\ step = "connections"
  BY DEF MaterializeConnections, Stage
<1>2. new.stops = tx.stops /\ new.transfers = tx.transfers
  <2> HIDE DEF connections
  <2> QED
    BY OtherTables DEF Names
<1>3. \/ Rolled \/ Advance("links", new) \/ StartFeed(Later, new)
  BY DEF MaterializeConnections
<1> HIDE DEF new
<1>4. CASE Rolled
  BY <1>4 DEF Rolled, WalksInv
<1>5. CASE Advance("links", new)
  BY <1>1, <1>2, <1>5 DEF Advance, WalksInv, StopsInOrder, Feed, BeforeStops
<1>6. CASE StartFeed(Later, new)
  <2>1. feed \in DOMAIN archive /\ Feed.mode \in Int
    BY <1>1, Sound
  <2>2. Later \in SUBSET DOMAIN archive
    BY DEF Later
  <2>3. \A i \in Later : archive[i].mode \in Int /\ archive[i].mode > Feed.mode
    BY ArchivesAssumption DEF IInv, Later
  <2>4. \A s \in tx.stops : s.id[1] \in Int /\ s.id[1] <= Feed.mode
    BY <1>1 DEF WalksInv, StopsInOrder
  <2>5. \A s \in tx.stops : s.id[1] \in Int /\ \A i \in Later : s.id[1] < archive[i].mode
    BY <2>1, <2>3, <2>4
  <2> QED
    BY <1>1, <1>2, <1>6, <2>2, <2>5, FeedBegins
<1> QED
  BY <1>3, <1>4, <1>5, <1>6

\* Links are no walks (materializeTripLinks).
LEMMA LinksKeep == ASSUME IInv, WalksInv, MaterializeTripLinks PROVE WalksInv'
<1> DEFINE links == TripLinks(tx.transfers)
           new == [tx EXCEPT !.links = links]
<1>1. outcome = "running" /\ step = "links" /\ Advance("proximity", new)
  BY DEF MaterializeTripLinks, Stage
<1>2. new.stops = tx.stops /\ new.transfers = tx.transfers
  <2> HIDE DEF links
  <2> QED
    BY OtherTables DEF Names
<1> HIDE DEF new
<1> QED
  BY <1>1, <1>2 DEF Advance, WalksInv, StopsInOrder, Feed, BeforeStops

(***************************************************************************)
(* The walks.                                                              *)
(***************************************************************************)
LEMMA OfStop ==
  ASSUME NEW stops, OneStopPerId(stops), NEW s \in stops
  PROVE  KindOf(stops, s.id) = s.kind /\ ParentId(stops, s.id) = s.parent
BY DEF OneStopPerId, KindOf, ParentId

\* What a platform hangs below has it among its platforms: a platform has a
\* station above it, and a station nothing.
LEMMA Below ==
  ASSUME NEW t, OneStopPerId(t.stops), \A x \in t.stops : ValidStop(t, x),
         NEW s \in t.stops, s.kind = 0, NEW id \in Above(t.stops, s.id), id # None
  PROVE  s.id \in PlatformsBelow(t.stops, id)
<1>1. KindOf(t.stops, s.id) = 0 /\ ParentId(t.stops, s.id) = s.parent
  BY OfStop
<1>2. CASE id = s.id
  BY <1>1, <1>2 DEF PlatformsBelow
<1>3. ASSUME id # s.id
      PROVE  s.id \in PlatformsBelow(t.stops, id)
  <2>1. s.parent # None
    BY <1>1, <1>3 DEF Above
  <2>2. PICK p \in t.stops : p.id = s.parent /\ p.kind = 1
    BY <2>1 DEF ValidStop
  <2>3. ParentId(t.stops, p.id) = None /\ KindOf(t.stops, p.id) = 1
    BY <2>2, OfStop DEF ValidStop
  <2>4. id = p.id
    BY <1>1, <1>3, <2>1, <2>2, <2>3 DEF Above
  <2> DEFINE Platforms(ids) == {i \in ids : KindOf(t.stops, i) = 0}
             WithChildren(ids) == ids \cup ChildrenOf(t.stops, ids \ Platforms(ids))
  <2>5. s.id \in WithChildren({id})
    BY <2>2, <2>3, <2>4 DEF ChildrenOf
  <2>6. s.id \in Platforms(WithChildren(WithChildren({id})))
    BY <1>1, <2>5
  <2>7. PlatformsBelow(t.stops, id) = Platforms(WithChildren(WithChildren({id})))
    BY <2>3, <2>4 DEF PlatformsBelow
  <2> QED
    BY <2>6, <2>7
<1> QED
  BY <1>2, <1>3

\* A walk is generated only where no prohibition stands above both its ends
\* (generateProximityTransfers).
LEMMA WalksKeep == ASSUME IInv, WalksInv, GenerateProximityTransfers PROVE WalksInv'
<1> DEFINE walks == ProximityTransfers(tx)
           new == [tx EXCEPT !.transfers = @ \cup walks]
<1>1. outcome = "running" /\ step = "proximity" /\ Advance("commit", new)
  BY DEF GenerateProximityTransfers, Stage
<1>2. new.stops = tx.stops /\ new.transfers = tx.transfers \cup walks
  <2> HIDE DEF walks
  <2> QED
    BY DEF IInv, Tables, Names
<1>3. OneStopPerId(tx.stops) /\ FromFeed(tx.transfers) /\ StopsInOrder
  BY <1>1 DEF WalksInv
<1> HIDE DEF new
<1>4. Forbids(new)
  <2> SUFFICES ASSUME NEW r \in new.transfers, NEW g \in new.transfers,
                      r.type = NoTransfer, Unqualified(r), g.source = "proximity",
                      r.from \in Above(tx.stops, g.from), r.to \in Above(tx.stops, g.to)
               PROVE  FALSE
    BY <1>2 DEF Forbids
  <2>1. ASSUME NEW w \in walks PROVE w.type = 2 /\ w.source = "proximity"
    <3>1. PICK p \in Near(tx) : w = Walk(p[1], p[2])
      BY <2>1 DEF ProximityTransfers
    <3> QED
      BY <3>1 DEF Walk
  <2>2. r \in tx.transfers /\ g \in walks
    BY <1>2, <1>3, <2>1 DEF FromFeed, NoTransfer
  <2>3. r.from # None /\ r.to # None
    BY <1>3, <2>2 DEF IInv, ValidateResolvedDataset, ValidTransfer, ValidEnd, FromFeed, NoTransfer
  <2>4. PICK p \in Near(tx) : g = Walk(p[1], p[2]) /\ <<p[1].id, p[2].id>> \notin ExplicitPairs(tx)
    BY <2>2 DEF ProximityTransfers
  <2>5. p[1] \in tx.stops /\ p[1].kind = 0 /\ p[2] \in tx.stops /\ p[2].kind = 0
    BY DEF Near, Eligible
  <2>6. g.from = p[1].id /\ g.to = p[2].id
    BY <2>4 DEF Walk
  <2>7. \A x \in tx.stops : ValidStop(tx, x)
    BY DEF IInv, ValidateResolvedDataset
  <2>8. p[1].id \in PlatformsBelow(tx.stops, r.from) /\ p[2].id \in PlatformsBelow(tx.stops, r.to)
    BY <1>3, <2>3, <2>5, <2>6, <2>7, Below
  <2>9. <<p[1].id, p[2].id>> \in ExplicitPairs(tx)
    BY <2>2, <2>8 DEF ExplicitPairs, NoTransfer
  <2> QED
    BY <2>4, <2>9
<1>5. StopsInOrder'
  BY <1>1, <1>2, <1>3 DEF Advance, StopsInOrder, Feed, BeforeStops
<1> QED
  BY <1>1, <1>2, <1>3, <1>4, <1>5 DEF Advance, WalksInv

\* What is committed is what was compiled, or the next feed begins.
LEMMA CommitKeeps == ASSUME IInv, WalksInv, Commit PROVE WalksInv'
<1>1. outcome = "running" /\ step = "commit" /\ Forbids(tx)
  BY DEF Commit, Stage, WalksInv
<1>2. CASE Rolled
  BY <1>2 DEF Rolled, WalksInv
<1>3. CASE store' = [tx EXCEPT !.coverage = Coverage(tx)] /\ outcome' = "compiled"
  <2> DEFINE coverage == Coverage(tx)
             new == [tx EXCEPT !.coverage = coverage]
  <2>1. new.stops = tx.stops /\ new.transfers = tx.transfers
    <3> HIDE DEF coverage
    <3> QED
      BY OtherTables DEF Names
  <2> HIDE DEF new
  <2>2. Forbids(new)
    BY <1>1, <2>1 DEF Forbids
  <2>3. store' = new
    BY <1>3 DEF new
  <2> QED
    BY <1>3, <2>2, <2>3 DEF WalksInv, Forbids
<1> QED
  BY <1>2, <1>3 DEF Commit

(***************************************************************************)
(* The theorems.                                                           *)
(***************************************************************************)
\* No walk undoes a prohibition while an archive is compiled, whatever its
\* feeds hold (compileArchive).
THEOREM StepWalksInv == IInv /\ WalksInv /\ [CompilerNext]_compilerVars => WalksInv'
<1> SUFFICES ASSUME IInv, WalksInv, [CompilerNext]_compilerVars PROVE WalksInv'
  OBVIOUS
<1>1. CASE UNCHANGED compilerVars
  BY <1>1 DEF compilerVars, WalksInv, StopsInOrder, Feed, Forbids
<1>2. CASE Abort
  BY <1>2 DEF Abort, Rolled, WalksInv
<1>3. CASE CompilerNext /\ ~Abort
  BY <1>3, OpenKeeps, CheckKeeps, LevelsKeep, StopsAdded, RoutesKeep, CalendarKeeps, CalendarDatesKeep,
     TripsKeep, StopTimesKeep, TransfersFromFeed, PathwaysKeep, ConnectionsKeep, LinksKeep, WalksKeep,
     CommitKeeps
     DEF CompilerNext
<1> QED
  BY <1>1, <1>2, <1>3

\* Queries (LoadTimetable) leave the tables alone, whatever else they load.
LEMMA QueriesOnlyRead ==
  ASSUME [WindowNext]_<<compilerVars, windowVars>>
  PROVE  [CompilerNext]_compilerVars
BY DEF WindowNext, LoadTimetableWindow, windowVars

\* In every dataset that is compiled and then queried, a rule that forbids a
\* change for everybody is not undone by a generated walk, whatever level of the
\* hierarchy of stops the rule names (generateProximityTransfers).
THEOREM ProhibitionsHold == WindowSpec => []ForbiddenStaysForbidden
<1>1. WindowInit => IInv /\ WalksInv
  <2>1. Init => WalksInv
    BY DEF Init, WalksInv, NoRows, OneStopPerId, StopsInOrder, FromFeed
  <2> QED
    BY <2>1, InitIInv DEF WindowInit
<1>2. IInv /\ WalksInv /\ [WindowNext]_<<compilerVars, windowVars>> => (IInv /\ WalksInv)'
  BY QueriesOnlyRead, StepIInv, StepWalksInv
<1>3. WalksInv => ForbiddenStaysForbidden
  BY DEF WalksInv, Forbids, ForbiddenStaysForbidden, UpFrom, Above
<1> QED
  BY <1>1, <1>2, <1>3, PTL DEF WindowSpec

\* What is queried stays what may be published: ValidateResolvedDataset would
\* accept it after any number of queries.
THEOREM StaysPublishable == WindowSpec => []CompiledIsPublishable
<1>1. IInv => CompiledIsPublishable
  BY DEF IInv
<1>2. WindowInit => IInv
  BY InitIInv DEF WindowInit
<1>3. IInv /\ [WindowNext]_<<compilerVars, windowVars>> => IInv'
  BY QueriesOnlyRead, StepIInv
<1> QED
  BY <1>1, <1>2, <1>3, PTL DEF WindowSpec

(***************************************************************************)
(* What is compiled about time: calendars, trips and their connections.    *)
(***************************************************************************)
\* The dates that a generation covers are numbers, and there are not endlessly many.
Dated(t) == /\ IsFiniteSet(t.services) /\ IsFiniteSet(t.exceptions)
            /\ \A s \in t.services : s.days # {} => s.from \in Int /\ s.to \in Int
            /\ \A e \in t.exceptions : e.date \in Int

\* A trip is known by its mode and row, and by its id.
KeyedTrips(trips) ==
  /\ \A k \in DOMAIN trips : k \in Int \X Nat /\ trips[k].id[1] = k[1]
  /\ \A k, l \in DOMAIN trips : trips[k].id = trips[l].id => k = l

\* A stop time is of a trip of its own mode, and within a service day.
TimedRows(t) ==
  /\ IsFiniteSet(DOMAIN t.times)
  /\ \A i \in DOMAIN t.times :
       /\ i \in Int \X Nat
       /\ t.times[i].trip \in DOMAIN t.trips /\ t.times[i].trip[1] = i[1]
       /\ t.times[i].seq \in Int
       /\ t.times[i].arr \in 0 .. MaxSeconds /\ t.times[i].dep \in 0 .. MaxSeconds

BeforeTrips == {"required", "levels", "stops", "routes", "calendar", "dates", "trips"}

\* The trips compiled so far are of lower modes, or of this feed once its trips
\* are.
Ordered(trips, s) == \A k \in DOMAIN trips : /\ k[1] \in Int /\ k[1] <= Feed.mode
                                             /\ s \in BeforeTrips => k[1] < Feed.mode

\* The connections are those of the stop times.
Linked(t) == t.connections = Connections(t.trips, t.times)

\* What is compiled about time is sound, and a dataset is committed whole.
RowsInv ==
  /\ outcome = "running" =>
       /\ Dated(tx) /\ KeyedTrips(tx.trips) /\ TimedRows(tx)
       /\ step = "open" => tx.trips = <<>>
       /\ step # "open" => Ordered(tx.trips, step)
       /\ step \in Linking => Linked(tx)
       /\ step \in {"proximity", "commit"} => tx.links = TripLinks(tx.transfers)
  /\ outcome = "compiled" =>
       /\ Dated(store) /\ KeyedTrips(store.trips) /\ TimedRows(store) /\ Linked(store)
       /\ store.links = TripLinks(store.transfers)
       /\ CoveredDates(store) # {} /\ store.coverage = Coverage(store)

\* The order of the files.
LEMMA FilesInOrder ==
  /\ FileAfter("levels") = "stops" /\ FileAfter("stops") = "routes" /\ FileAfter("routes") = "calendar"
  /\ FileAfter("calendar") = "dates" /\ FileAfter("dates") = "trips" /\ FileAfter("trips") = "times"
  /\ FileAfter("times") = "transfers" /\ FileAfter("transfers") = "pathways"
  /\ FileAfter("pathways") = "connections"
<1>1. DOMAIN FileOrder = 1 .. 9 /\ FileOrder[1] = "levels" /\ FileOrder[2] = "stops" /\ FileOrder[3] = "routes"
      /\ FileOrder[4] = "calendar" /\ FileOrder[5] = "dates" /\ FileOrder[6] = "trips"
      /\ FileOrder[7] = "times" /\ FileOrder[8] = "transfers" /\ FileOrder[9] = "pathways"
  BY DEF FileOrder
<1>2. \A i \in 1 .. 9, j \in 1 .. 9 : FileOrder[i] = FileOrder[j] => i = j BY <1>1
<1>3. ASSUME NEW i \in 1 .. 8 PROVE FileAfter(FileOrder[i]) = FileOrder[i + 1]
  <2> DEFINE j == CHOOSE k \in DOMAIN FileOrder : FileOrder[k] = FileOrder[i]
  <2>1. j = i
    <3>1. i \in DOMAIN FileOrder BY <1>1
    <3>2. j \in DOMAIN FileOrder /\ FileOrder[j] = FileOrder[i] BY <3>1
    <3> QED BY <1>1, <1>2, <3>2
  <2>2. FileOrder[i] # "pathways" BY <1>1, <1>2
  <2> QED BY <2>1, <2>2 DEF FileAfter
<1>4. FileAfter("pathways") = "connections" BY DEF FileAfter
<1> QED
  <2>1. /\ FileAfter(FileOrder[1]) = FileOrder[1 + 1] /\ FileAfter(FileOrder[2]) = FileOrder[2 + 1]
        /\ FileAfter(FileOrder[3]) = FileOrder[3 + 1] /\ FileAfter(FileOrder[4]) = FileOrder[4 + 1]
        /\ FileAfter(FileOrder[5]) = FileOrder[5 + 1] /\ FileAfter(FileOrder[6]) = FileOrder[6 + 1]
        /\ FileAfter(FileOrder[7]) = FileOrder[7 + 1] /\ FileAfter(FileOrder[8]) = FileOrder[8 + 1]
    BY <1>3
  <2> QED BY <1>1, <1>4, <2>1

\* A file keeps what is compiled about time if its rows do.
LEMMA FileKeeps ==
  ASSUME IInv, RowsInv, NEW file \in Files, NEW valid, NEW new, CompileFile(file, valid, new),
         valid /\ file \in DOMAIN Feed.files =>
           Dated(new) /\ KeyedTrips(new.trips) /\ TimedRows(new) /\ Ordered(new.trips, FileAfter(file))
  PROVE  RowsInv'
<1>1. outcome = "running" /\ step = file /\ step # "open" BY DEF CompileFile, Stage, Files
<1>2. FileAfter(file) \notin Linking \cup {"open"} /\ (FileAfter(file) \in BeforeTrips => file \in BeforeTrips)
  BY FilesInOrder DEF Files, Linking, BeforeTrips
<1>3. CASE Rolled BY <1>3 DEF Rolled, RowsInv
<1>4. ASSUME NEW t, Advance(FileAfter(file), t),
             Dated(t), KeyedTrips(t.trips), TimedRows(t), Ordered(t.trips, FileAfter(file))
      PROVE  RowsInv'
  <2>1. /\ step' = FileAfter(file) /\ tx' = t /\ outcome' = "running" /\ UNCHANGED <<archive, feed>>
    BY <1>1, <1>4 DEF Advance
  <2>2. Ordered(tx.trips, step)' BY <1>4, <2>1 DEF Ordered, Feed
  <2>3. step' \notin Linking \cup {"open", "proximity", "commit"} BY <1>2, <2>1 DEF Linking
  <2> QED BY <1>4, <2>1, <2>2, <2>3 DEF RowsInv
<1>5. Ordered(tx.trips, FileAfter(file)) BY <1>1, <1>2 DEF RowsInv, Ordered
<1>6. Dated(tx) /\ KeyedTrips(tx.trips) /\ TimedRows(tx) BY <1>1 DEF RowsInv
<1> QED BY <1>3, <1>4, <1>5, <1>6 DEF CompileFile

\* The other tables of a record of tables stay.
LEMMA OneTable ==
  ASSUME IInv, NEW file \in Names, NEW table
  PROVE  LET new == [tx EXCEPT ![file] = table]
         IN  /\ new[file] = table
             /\ \A name \in Names \ {file} : new[name] = tx[name]
BY DEF IInv, Tables

\* A file whose rows are not about time.
LEMMA UntimedFileKeeps ==
  ASSUME IInv, RowsInv, NEW file \in Files \ {"trips"}, NEW valid, NEW new, CompileFile(file, valid, new),
         /\ new.services = tx.services /\ new.exceptions = tx.exceptions
         /\ new.trips = tx.trips /\ new.times = tx.times
  PROVE  RowsInv'
<1>1. outcome = "running" /\ step = file /\ step # "open" BY DEF CompileFile, Stage, Files
<1>2. FileAfter(file) \in BeforeTrips => file \in BeforeTrips
  BY FilesInOrder DEF Files, BeforeTrips
<1>3. Dated(tx) /\ KeyedTrips(tx.trips) /\ TimedRows(tx) /\ Ordered(tx.trips, step) BY <1>1 DEF RowsInv
<1>4. Dated(new) BY <1>3 DEF Dated
<1>5. TimedRows(new) BY <1>3 DEF TimedRows
<1>6. Ordered(new.trips, FileAfter(file)) BY <1>1, <1>2, <1>3 DEF Ordered
<1> QED BY <1>3, <1>4, <1>5, <1>6, FileKeeps

\* Such are levels, stops, routes, transfers and pathways.
LEMMA UntimedFilesKeep ==
  ASSUME IInv, RowsInv,
         CompileLevels \/ CompileStops \/ CompileRoutes \/ CompileTransfers \/ CompilePathways
  PROVE  RowsInv'
<1>1. ASSUME NEW file \in {"levels", "stops", "routes", "transfers", "pathways"}, NEW table, NEW valid,
             CompileFile(file, valid, [tx EXCEPT ![file] = table])
      PROVE  RowsInv'
  <2> DEFINE new == [tx EXCEPT ![file] = table]
  <2>1. /\ file \in Names /\ file \in Files \ {"trips"}
        /\ {"services", "exceptions", "trips", "times"} \subseteq Names \ {file}
    BY DEF Names, Files
  <2>2. \A name \in Names \ {file} : new[name] = tx[name] BY <2>1, OneTable
  <2>3. /\ new["services"] = tx["services"] /\ new["exceptions"] = tx["exceptions"]
        /\ new["trips"] = tx["trips"] /\ new["times"] = tx["times"]
    BY <2>1, <2>2
  <2> HIDE DEF new
  <2>4. CompileFile(file, valid, new) BY <1>1 DEF new
  <2> QED BY <2>1, <2>3, <2>4, UntimedFileKeeps
<1>2. CASE CompileLevels
  <2> DEFINE table == tx.levels \cup {Own(RowsOrNone("levels")[i].id) : i \in DOMAIN RowsOrNone("levels")}
             valid == AllOK(RowsOrNone("levels")) /\ NoneRepeats(RowsOrNone("levels"))
  <2>1. CompileFile("levels", valid, [tx EXCEPT !["levels"] = table]) BY <1>2 DEF CompileLevels
  <2> HIDE DEF table, valid
  <2> QED BY <1>1, <2>1
<1>3. CASE CompileStops
  <2> DEFINE table == tx.stops \cup Each(RowsOrNone("stops"), StopOf)
             valid == StopsOK(RowsOrNone("stops"), Each(RowsOrNone("stops"), StopOf), tx.levels)
  <2>1. CompileFile("stops", valid, [tx EXCEPT !["stops"] = table]) BY <1>3 DEF CompileStops
  <2> HIDE DEF table, valid
  <2> QED BY <1>1, <2>1
<1>4. CASE CompileRoutes
  <2> DEFINE table == tx.routes \cup {[id |-> Own(RowsOrNone("routes")[i].id)] : i \in DOMAIN RowsOrNone("routes")}
             valid == AllOK(RowsOrNone("routes")) /\ NoneRepeats(RowsOrNone("routes"))
  <2>1. CompileFile("routes", valid, [tx EXCEPT !["routes"] = table]) BY <1>4 DEF CompileRoutes
  <2> HIDE DEF table, valid
  <2> QED BY <1>1, <2>1
<1>5. CASE CompileTransfers
  <2> DEFINE table == tx.transfers \cup Each(RowsOrNone("transfers"), TransferOf)
             valid == TransfersOK(RowsOrNone("transfers"))
  <2>1. CompileFile("transfers", valid, [tx EXCEPT !["transfers"] = table]) BY <1>5 DEF CompileTransfers
  <2> HIDE DEF table, valid
  <2> QED BY <1>1, <2>1
<1>6. CASE CompilePathways
  <2> DEFINE table == tx.pathways \cup Each(RowsOrNone("pathways"), PathwayOf)
             valid == PathwaysOK(RowsOrNone("pathways"))
  <2>1. CompileFile("pathways", valid, [tx EXCEPT !["pathways"] = table]) BY <1>6 DEF CompilePathways
  <2> HIDE DEF table, valid
  <2> QED BY <1>1, <2>1
<1> QED BY <1>2, <1>3, <1>4, <1>5, <1>6

\* What a function makes of finitely many values.
LEMMA FiniteImage ==
  ASSUME NEW S, IsFiniteSet(S), NEW T, NEW f, DOMAIN f = S, \A y \in T : \E x \in S : f[x] = y
  PROVE  IsFiniteSet(T)
<1> DEFINE U == {f[x] : x \in S}
           g == [x \in S |-> f[x]]
<1>1. g \in Surjection(S, U) BY DEF Surjection
<1>2. IsFiniteSet(U) BY <1>1, FS_Surjection
<1>3. T \subseteq U OBVIOUS
<1> QED BY <1>2, <1>3, FS_Subset

\* The rows of a file are finitely many, and each is sound.
LEMMA RowsOfFile ==
  ASSUME IInv, outcome = "running", step # "open", NEW file
  PROVE  LET rows == RowsOrNone(file)
         IN  /\ IsFiniteSet(DOMAIN rows) /\ DOMAIN rows \subseteq Nat
             /\ \A i \in DOMAIN rows : RowIsSound(file, rows[i])
<1>1. CASE file \in DOMAIN Feed.files
  <2>1. FileIsSound(file, Rows(file)) BY <1>1, Sound
  <2>2. RowsOrNone(file) = Rows(file) BY <1>1 DEF RowsOrNone
  <2> QED BY <2>1, <2>2 DEF FileIsSound
<1>2. CASE file \notin DOMAIN Feed.files
  <2>1. RowsOrNone(file) = <<>> /\ DOMAIN <<>> = {} BY <1>2 DEF RowsOrNone
  <2> QED BY <2>1, FS_EmptySet
<1> QED BY <1>1, <1>2

\* Services of calendar.txt run from one date to another.
LEMMA CalendarIsDated ==
  ASSUME IInv, RowsInv, CompileCalendar
  PROVE  RowsInv'
<1> DEFINE rows == RowsOrNone("calendar")
           added == Each(rows, ServiceOf)
           table == tx.services \cup added
           new == [tx EXCEPT !["services"] = table]
           valid == CalendarOK(rows)
<1>1. outcome = "running" /\ step = "calendar" /\ step # "open" /\ CompileFile("calendar", valid, new)
  BY DEF CompileCalendar, CompileFile, Stage
<1>2. /\ "services" \in Names /\ "calendar" \in Files
      /\ {"exceptions", "trips", "times"} \subseteq Names \ {"services"}
  BY DEF Names, Files
<1>3. new["services"] = table /\ \A name \in Names \ {"services"} : new[name] = tx[name] BY <1>2, OneTable
<1>4. new["exceptions"] = tx["exceptions"] /\ new["trips"] = tx["trips"] /\ new["times"] = tx["times"]
  BY <1>2, <1>3
<1>5. Dated(tx) /\ KeyedTrips(tx.trips) /\ TimedRows(tx) /\ Ordered(tx.trips, step) BY <1>1 DEF RowsInv
<1>6. IsFiniteSet(DOMAIN rows) /\ \A i \in DOMAIN rows : RowIsSound("calendar", rows[i])
  BY <1>1, RowsOfFile
<1>7. IsFiniteSet(added)
  <2> DEFINE f == [i \in DOMAIN rows |-> ServiceOf(rows[i])]
  <2>1. DOMAIN f = DOMAIN rows /\ \A y \in added : \E i \in DOMAIN rows : f[i] = y BY DEF Each
  <2> HIDE DEF rows, added, f
  <2> QED BY <1>6, <2>1, FiniteImage
<1>8. ASSUME valid, NEW s \in added PROVE s.from \in Int /\ s.to \in Int
  <2>1. PICK i \in DOMAIN rows : s = ServiceOf(rows[i]) BY <1>8 DEF Each
  <2>2. rows[i].ok BY <1>8, <2>1 DEF CalendarOK, AllOK
  <2>3. rows[i].from \in Int /\ rows[i].to \in Int BY <1>6, <2>1, <2>2 DEF RowIsSound
  <2> HIDE DEF rows
  <2> QED BY <2>1, <2>3 DEF ServiceOf
<1>9. ASSUME valid PROVE Dated(new)
  <2>1. IsFiniteSet(table) BY <1>5, <1>7, FS_Union DEF Dated
  <2> HIDE DEF added, new, rows, valid
  <2>2. new.services = table /\ new.exceptions = tx.exceptions BY <1>3, <1>4
  <2> QED BY <1>5, <1>8, <1>9, <2>1, <2>2 DEF Dated
<1> HIDE DEF new, valid
<1>10. TimedRows(new) BY <1>4, <1>5 DEF TimedRows
<1>11. Ordered(new.trips, FileAfter("calendar"))
  BY <1>1, <1>4, <1>5, FilesInOrder DEF Ordered, BeforeTrips
<1> QED BY <1>1, <1>2, <1>4, <1>5, <1>9, <1>10, <1>11, FileKeeps

\* The services of calendar_dates.txt alone have no days of the week.
LEMMA DateOnlyServicesHaveNoDays ==
  ASSUME NEW exceptions, NEW services, IsFiniteSet(exceptions)
  PROVE  /\ IsFiniteSet(DateOnlyServices(exceptions, services))
         /\ \A s \in DateOnlyServices(exceptions, services) : s.days = {}
<1> DEFINE Dates(x) == {e.date : e \in {y \in exceptions : y.id = x}}
           First(x) == CHOOSE d \in Dates(x) : \A e \in Dates(x) : d <= e
           Last(x) == CHOOSE d \in Dates(x) : \A e \in Dates(x) : d >= e
           Service(x) == [id |-> x, days |-> {}, from |-> First(x), to |-> Last(x)]
           ids == IdsOf(exceptions) \ IdsOf(services)
<1>1. DateOnlyServices(exceptions, services) = {Service(x) : x \in ids} BY Zenon DEF DateOnlyServices
<1>2. \A x : Service(x).days = {} OBVIOUS
<1>3. IsFiniteSet(ids)
  <2> DEFINE f == [e \in exceptions |-> e.id]
  <2>1. DOMAIN f = exceptions /\ \A y \in IdsOf(exceptions) : \E e \in exceptions : f[e] = y BY DEF IdsOf
  <2> HIDE DEF f
  <2>2. IsFiniteSet(IdsOf(exceptions)) BY <2>1, FiniteImage
  <2> QED BY <2>2, FS_Subset
<1> HIDE DEF Service, ids
<1>4. IsFiniteSet({Service(x) : x \in ids})
  <2> DEFINE f == [x \in ids |-> Service(x)]
             T == {Service(x) : x \in ids}
  <2>1. DOMAIN f = ids /\ \A y \in T : \E x \in ids : f[x] = y OBVIOUS
  <2> HIDE DEF f, T
  <2>2. IsFiniteSet(T) BY <1>3, <2>1, FiniteImage
  <2> QED BY <2>2 DEF T
<1> QED BY <1>1, <1>2, <1>4

\* Exceptions are of a date.
LEMMA ExceptionsAreDated ==
  ASSUME IInv, RowsInv, CompileCalendarDates
  PROVE  RowsInv'
<1> DEFINE rows == RowsOrNone("dates")
           exceptions == Each(rows, ExceptionOf)
           added == DateOnlyServices(exceptions, tx.services)
           new == [tx EXCEPT !.exceptions = @ \cup exceptions, !.services = @ \cup added]
           valid == DatesOK(rows, tx.services)
<1>1. outcome = "running" /\ step = "dates" /\ step # "open" /\ CompileFile("dates", valid, new)
  BY DEF CompileCalendarDates, CompileFile, Stage
<1>2. /\ new.services = tx.services \cup added /\ new.exceptions = tx.exceptions \cup exceptions
      /\ new.trips = tx.trips /\ new.times = tx.times
  <2> HIDE DEF added, exceptions
  <2> QED BY DEF IInv, Tables, Names
<1>3. Dated(tx) /\ KeyedTrips(tx.trips) /\ TimedRows(tx) /\ Ordered(tx.trips, step) BY <1>1 DEF RowsInv
<1>4. IsFiniteSet(DOMAIN rows) /\ \A i \in DOMAIN rows : RowIsSound("dates", rows[i])
  BY <1>1, RowsOfFile
<1>5. IsFiniteSet(exceptions)
  <2> DEFINE f == [i \in DOMAIN rows |-> ExceptionOf(rows[i])]
  <2>1. DOMAIN f = DOMAIN rows /\ \A y \in exceptions : \E i \in DOMAIN rows : f[i] = y BY DEF Each
  <2> HIDE DEF rows, exceptions, f
  <2> QED BY <1>4, <2>1, FiniteImage
<1>6. ASSUME valid, NEW e \in exceptions PROVE e.date \in Int
  <2>1. PICK i \in DOMAIN rows : e = ExceptionOf(rows[i]) BY <1>6 DEF Each
  <2>2. rows[i].ok BY <1>6, <2>1 DEF DatesOK, AllOK
  <2>3. rows[i].date \in Int BY <1>4, <2>1, <2>2 DEF RowIsSound
  <2> HIDE DEF rows
  <2> QED BY <2>1, <2>3 DEF ExceptionOf
<1>7. IsFiniteSet(added) /\ \A s \in added : s.days = {}
  <2> HIDE DEF exceptions
  <2> QED BY <1>5, DateOnlyServicesHaveNoDays
<1>8. ASSUME valid PROVE Dated(new)
  <2>1. IsFiniteSet(tx.services \cup added) /\ IsFiniteSet(tx.exceptions \cup exceptions)
    BY <1>3, <1>5, <1>7, FS_Union DEF Dated
  <2> HIDE DEF added, new, rows, valid, exceptions
  <2> QED BY <1>2, <1>3, <1>6, <1>7, <1>8, <2>1 DEF Dated
<1> HIDE DEF new, valid
<1>9. TimedRows(new) BY <1>2, <1>3 DEF TimedRows
<1>10. Ordered(new.trips, FileAfter("dates")) BY <1>1, <1>2, <1>3, FilesInOrder DEF Ordered, BeforeTrips
<1>11. "dates" \in Files BY DEF Files
<1> QED BY <1>1, <1>2, <1>3, <1>8, <1>9, <1>10, <1>11, FileKeeps

\* Trips of a feed are known by their row, and of those with one id the first is
\* kept.
LEMMA TripsAreKeyed ==
  ASSUME IInv, RowsInv, CompileTrips
  PROVE  RowsInv'
<1> DEFINE rows == RowsOrNone("trips")
           trips == CompiledTrips(rows)
           table == AddRows(tx.trips, trips)
           new == [tx EXCEPT !["trips"] = table]
           valid == TripsOK(rows)
<1>1. outcome = "running" /\ step = "trips" /\ step # "open" /\ CompileFile("trips", valid, new)
  BY DEF CompileTrips, CompileFile, Stage
<1>2. /\ "trips" \in Names /\ "trips" \in Files
      /\ {"services", "exceptions", "times"} \subseteq Names \ {"trips"}
  BY DEF Names, Files
<1>3. new["trips"] = table /\ \A name \in Names \ {"trips"} : new[name] = tx[name] BY <1>2, OneTable
<1>4. new["services"] = tx["services"] /\ new["exceptions"] = tx["exceptions"] /\ new["times"] = tx["times"]
  BY <1>2, <1>3
<1>5. Dated(tx) /\ KeyedTrips(tx.trips) /\ TimedRows(tx) /\ Ordered(tx.trips, "trips") BY <1>1 DEF RowsInv
<1>6. DOMAIN rows \subseteq Nat /\ Feed.mode \in Int BY <1>1, RowsOfFile, Sound
<1>7. \A k \in DOMAIN tx.trips : k[1] \in Int /\ k[1] < Feed.mode BY <1>5 DEF Ordered, BeforeTrips
<1>8. ASSUME valid, NEW k \in DOMAIN trips
      PROVE  /\ k[1] = Feed.mode /\ k = <<Feed.mode, k[2]>> /\ k[2] \in Kept(rows) /\ k[2] \in Nat
             /\ trips[k].id = <<Feed.mode, rows[k[2]].id>>
  <2>1. k \in {Feed.mode} \X Kept(rows) /\ trips[k] = TripOf(rows[k[2]]) BY <1>8 DEF CompiledTrips, RowKeys
  <2>2. k[1] = Feed.mode /\ k[2] \in Kept(rows) /\ k = <<Feed.mode, k[2]>> BY <2>1
  <2>3. k[2] \in DOMAIN rows BY <2>2 DEF Kept
  <2>4. rows[k[2]].id # None BY <1>8, <2>3 DEF TripsOK
  <2>5. trips[k].id = Own(rows[k[2]].id) BY <2>1 DEF TripOf
  <2> QED BY <1>6, <2>2, <2>3, <2>4, <2>5 DEF Own
<1>9. ASSUME valid, NEW k \in DOMAIN trips, NEW l \in DOMAIN trips, trips[k].id = trips[l].id PROVE k = l
  <2> DEFINE i == k[2]
             j == l[2]
  <2>1. /\ i \in Kept(rows) /\ j \in Kept(rows) /\ i \in Nat /\ j \in Nat /\ rows[i].id = rows[j].id
        /\ k = <<Feed.mode, i>> /\ l = <<Feed.mode, j>>
    BY <1>8, <1>9
  <2> HIDE DEF i, j
  <2>2. ~(i < j) /\ ~(j < i)
    <3>1. i \in DOMAIN rows /\ j \in DOMAIN rows /\ DOMAIN rows \subseteq Nat BY <1>6, <2>1 DEF Kept
    <3>2. ASSUME NEW a \in DOMAIN rows, NEW b \in DOMAIN rows, b \in Kept(rows), rows[a].id = rows[b].id,
                 a \in Nat, b \in Nat, a < b, a # 0
          PROVE  FALSE
      <4>1. a \in 1 .. b - 1 BY <3>2
      <4> QED BY <3>2, <4>1 DEF Kept, Repeats
    <3>3. 0 \notin DOMAIN rows
      <4>1. "trips" \in DOMAIN Feed.files => FileIsSound("trips", Rows("trips")) BY <1>1, Sound
      <4> QED BY <4>1 DEF RowsOrNone, FileIsSound
    <3> QED BY <2>1, <3>1, <3>2, <3>3
  <2> QED BY <2>1, <2>2
<1> HIDE DEF valid, trips, rows, table
<1>10. /\ DOMAIN table = DOMAIN tx.trips \cup DOMAIN trips
       /\ \A k \in DOMAIN tx.trips : table[k] = tx.trips[k]
       /\ \A k \in DOMAIN table : k \notin DOMAIN tx.trips => k \in DOMAIN trips /\ table[k] = trips[k]
  BY DEF AddRows, table
<1>11. ASSUME valid PROVE KeyedTrips(table) /\ Ordered(table, "times")
  <2>1. ASSUME NEW k \in DOMAIN table
        PROVE  k \in Int \X Nat /\ table[k].id[1] = k[1] /\ k[1] <= Feed.mode
               /\ (k \in DOMAIN tx.trips <=> k[1] < Feed.mode)
    <3>1. CASE k \in DOMAIN tx.trips
      <4>1. k[1] \in Int /\ k[1] < Feed.mode BY <1>7, <3>1
      <4> QED BY <1>5, <1>6, <1>10, <3>1, <4>1 DEF KeyedTrips
    <3>2. CASE k \notin DOMAIN tx.trips
      <4>1. k \in DOMAIN trips /\ table[k] = trips[k] BY <1>10, <3>2
      <4>2. /\ k[1] = Feed.mode /\ k = <<Feed.mode, k[2]>> /\ k[2] \in Nat
            /\ trips[k].id = <<Feed.mode, rows[k[2]].id>>
        BY <1>8, <1>11, <4>1
      <4> QED BY <1>6, <3>2, <4>1, <4>2
    <3> QED BY <3>1, <3>2
  <2>2. ASSUME NEW k \in DOMAIN table, NEW l \in DOMAIN table, table[k].id = table[l].id PROVE k = l
    <3>1. k[1] = l[1] BY <2>1, <2>2
    <3>2. CASE k \in DOMAIN tx.trips
      <4>1. l \in DOMAIN tx.trips BY <2>1, <3>1, <3>2
      <4> QED BY <1>5, <1>10, <2>2, <3>2, <4>1 DEF KeyedTrips
    <3>3. CASE k \notin DOMAIN tx.trips
      <4>1. l \notin DOMAIN tx.trips BY <2>1, <3>1, <3>3
      <4> QED BY <1>9, <1>10, <1>11, <2>2, <3>3, <4>1
    <3> QED BY <3>2, <3>3
  <2>3. KeyedTrips(table) BY <2>1, <2>2 DEF KeyedTrips
  <2>4. \A k \in DOMAIN table : k[1] \in Int BY <2>1
  <2> QED BY <2>1, <2>3, <2>4 DEF Ordered, BeforeTrips
<1> HIDE DEF new
<1>12. Dated(new) BY <1>4, <1>5 DEF Dated
<1>13. TimedRows(new) BY <1>3, <1>4, <1>5, <1>10 DEF TimedRows
<1> QED BY <1>1, <1>2, <1>3, <1>11, <1>12, <1>13, FilesInOrder, FileKeeps

\* Stop times are of a trip of their feed, within a service day.
LEMMA StopTimesAreTimed ==
  ASSUME IInv, RowsInv, CompileStopTimes
  PROVE  RowsInv'
<1> DEFINE rows == RowsOrNone("times")
           times == CompiledTimes(rows)
           table == AddRows(tx.times, times)
           new == [tx EXCEPT !["times"] = table]
           valid == TimesOK(rows)
<1>1. outcome = "running" /\ step = "times" /\ step # "open" /\ CompileFile("times", valid, new)
  BY DEF CompileStopTimes, CompileFile, Stage
<1>2. /\ "times" \in Names /\ "times" \in Files
      /\ {"services", "exceptions", "trips"} \subseteq Names \ {"times"}
  BY DEF Names, Files
<1>3. new["times"] = table /\ \A name \in Names \ {"times"} : new[name] = tx[name] BY <1>2, OneTable
<1>4. new["services"] = tx["services"] /\ new["exceptions"] = tx["exceptions"] /\ new["trips"] = tx["trips"]
  BY <1>2, <1>3
<1>5. Dated(tx) /\ KeyedTrips(tx.trips) /\ TimedRows(tx) /\ Ordered(tx.trips, "times") BY <1>1 DEF RowsInv
<1>6. DOMAIN rows \subseteq Nat /\ Feed.mode \in Int /\ \A i \in DOMAIN rows : RowIsSound("times", rows[i])
  BY <1>1, RowsOfFile, Sound
<1>12. IsFiniteSet(DOMAIN times)
  <2> DEFINE f == [i \in DOMAIN rows |-> <<Feed.mode, i>>]
  <2>1. IsFiniteSet(DOMAIN rows) BY <1>1, RowsOfFile
  <2>2. DOMAIN times = {Feed.mode} \X DOMAIN rows BY DEF CompiledTimes, RowKeys
  <2> HIDE DEF times, rows
  <2>3. DOMAIN f = DOMAIN rows /\ \A y \in DOMAIN times : \E i \in DOMAIN rows : f[i] = y BY <2>2
  <2> HIDE DEF f
  <2> QED BY <2>1, <2>3, FiniteImage
<1>7. ASSUME valid, NEW k \in DOMAIN times
      PROVE  /\ k \in Int \X Nat
             /\ times[k].trip \in DOMAIN tx.trips /\ times[k].trip[1] = k[1] /\ times[k].seq \in Int
             /\ times[k].arr \in 0 .. MaxSeconds /\ times[k].dep \in 0 .. MaxSeconds
  <2>1. k \in {Feed.mode} \X DOMAIN rows /\ times[k] = TimeOf(rows[k[2]]) BY <1>7 DEF CompiledTimes, RowKeys
  <2> DEFINE r == rows[k[2]]
  <2>2. k[1] = Feed.mode /\ k[2] \in DOMAIN rows /\ k = <<Feed.mode, k[2]>> BY <2>1
  <2>3. /\ r.ok /\ Own(r.trip) \in TripIds(tx.trips)
        /\ r.arr <= r.dep /\ r.dep <= MaxSeconds
    BY <1>7, <2>2 DEF TimesOK
  <2>4. r.trip # None /\ r.seq \in Int /\ r.arr \in Nat /\ r.dep \in Nat BY <1>6, <2>2, <2>3 DEF RowIsSound
  <2>5. /\ times[k].trip = TripKey(tx.trips, Own(r.trip)) /\ times[k].seq = r.seq
        /\ times[k].arr = r.arr /\ times[k].dep = r.dep
    BY <2>1 DEF TimeOf
  <2> HIDE DEF r, rows, times
  <2>6. times[k].trip \in DOMAIN tx.trips /\ tx.trips[times[k].trip].id = Own(r.trip)
    BY <2>3, <2>5, TripKeyFinds
  <2>7. Own(r.trip)[1] = Feed.mode BY <2>4, OwnMode
  <2>8. times[k].trip[1] = Feed.mode BY <1>5, <2>6, <2>7 DEF KeyedTrips
  <2>9. r.arr \in 0 .. MaxSeconds /\ r.dep \in 0 .. MaxSeconds BY <2>3, <2>4, RangeAssumption
  <2>10. k \in Int \X Nat BY <1>6, <2>2
  <2> QED BY <2>2, <2>4, <2>5, <2>6, <2>8, <2>9, <2>10
<1> HIDE DEF valid, times, rows, table
<1>8. \A k \in DOMAIN table : \/ k \in DOMAIN tx.times /\ table[k] = tx.times[k]
                              \/ k \in DOMAIN times /\ table[k] = times[k]
  BY DEF AddRows, table
<1>13. IsFiniteSet(DOMAIN table)
  <2>1. DOMAIN table = DOMAIN tx.times \cup DOMAIN times BY DEF AddRows, table
  <2>2. IsFiniteSet(DOMAIN tx.times) BY <1>5 DEF TimedRows
  <2> QED BY <1>12, <2>1, <2>2, FS_Union
<1> HIDE DEF new
<1>9. Dated(new) BY <1>4, <1>5 DEF Dated
<1>10. ASSUME valid PROVE TimedRows(new)
  <2>1. new.times = table /\ new.trips = tx.trips BY <1>3, <1>4
  <2>2. SUFFICES ASSUME NEW k \in DOMAIN table
                 PROVE  /\ k \in Int \X Nat /\ table[k].trip \in DOMAIN tx.trips /\ table[k].trip[1] = k[1]
                        /\ table[k].seq \in Int
                        /\ table[k].arr \in 0 .. MaxSeconds /\ table[k].dep \in 0 .. MaxSeconds
    BY <1>13, <2>1 DEF TimedRows
  <2>3. CASE k \in DOMAIN tx.times /\ table[k] = tx.times[k] BY <1>5, <2>3 DEF TimedRows
  <2>4. CASE k \in DOMAIN times /\ table[k] = times[k] BY <1>7, <1>10, <2>4
  <2> QED BY <1>8, <2>3, <2>4
<1>11. Ordered(new.trips, FileAfter("times")) BY <1>4, <1>5, FilesInOrder DEF Ordered, BeforeTrips
<1> QED BY <1>1, <1>2, <1>4, <1>5, <1>9, <1>10, <1>11, FileKeeps

\* What follows from one set of tables holds in another with the same rows.
LEMMA SameRows ==
  ASSUME NEW t, NEW n, n.services = t.services, n.exceptions = t.exceptions, n.trips = t.trips, n.times = t.times
  PROVE  /\ Dated(n) <=> Dated(t)
         /\ TimedRows(n) <=> TimedRows(t)
         /\ CoveredDates(n) = CoveredDates(t)
<1>1. Dated(n) <=> Dated(t) BY DEF Dated
<1>2. TimedRows(n) <=> TimedRows(t) BY DEF TimedRows
<1>3. CoveredDates(n) = CoveredDates(t) BY DEF CoveredDates
<1> QED BY <1>1, <1>2, <1>3

\* A feed begins with the trips of those before it.
LEMMA NextFeedKeepsOrder ==
  ASSUME IInv, RowsInv, outcome = "running", NEW numbers \in SUBSET DOMAIN archive, NEW new,
         StartFeed(numbers, new),
         /\ new.services = tx.services /\ new.exceptions = tx.exceptions
         /\ new.trips = tx.trips /\ new.times = tx.times,
         \A k \in DOMAIN tx.trips : k[1] \in Int /\ \A i \in numbers : k[1] < archive[i].mode
  PROVE  RowsInv'
<1>1. /\ feed' \in numbers /\ step' = "required" /\ tx' = new
      /\ archive' = archive /\ outcome' = outcome
  BY DEF StartFeed
<1>2. Feed'.mode = archive[feed'].mode /\ archive[feed'].mode \in Int
  BY <1>1, ArchivesAssumption DEF IInv, Feed
<1>3. \A k \in DOMAIN new.trips : k[1] \in Int /\ k[1] < Feed'.mode /\ k[1] <= Feed'.mode
  BY <1>1, <1>2
<1>4. Ordered(tx.trips, step)' BY <1>1, <1>3 DEF Ordered
<1>5. Dated(new) /\ KeyedTrips(new.trips) /\ TimedRows(new) BY SameRows DEF RowsInv
<1>6. "required" \notin Linking \cup {"open", "proximity", "commit"} BY DEF Linking
<1> QED BY <1>1, <1>4, <1>5, <1>6 DEF RowsInv

\* The steps that open an archive and look at which files it has.
LEMMA OpeningKeepsRows ==
  ASSUME IInv, RowsInv, Open \/ CheckFiles
  PROVE  RowsInv'
<1>1. CASE Rolled BY <1>1 DEF Rolled, RowsInv
<1>2. CASE Open /\ ~Rolled
  <2>1. outcome = "running" /\ step = "open" /\ tx.trips = <<>> /\ StartFeed(DOMAIN archive, tx)
    BY <1>2 DEF Open, Stage, RowsInv
  <2>2. DOMAIN tx.trips = {} BY <2>1
  <2> QED BY <2>1, <2>2, NextFeedKeepsOrder
<1>3. CASE CheckFiles /\ ~Rolled
  <2>1. outcome = "running" /\ step = "required" /\ Advance("levels", tx) BY <1>3 DEF CheckFiles, Stage
  <2>2. /\ step' = "levels" /\ tx' = tx /\ outcome' = "running" /\ UNCHANGED <<archive, feed>>
    BY <2>1 DEF Advance
  <2>3. Ordered(tx.trips, step)' BY <2>1, <2>2 DEF RowsInv, Ordered, Feed, BeforeTrips
  <2> QED BY <2>1, <2>2, <2>3 DEF RowsInv, Linking
<1> QED BY <1>1, <1>2, <1>3

\* Connections are made anew of every feed's trips and times.
LEMMA ConnectionsAreLinked ==
  ASSUME IInv, RowsInv, MaterializeConnections
  PROVE  RowsInv'
<1> DEFINE connections == Connections(tx.trips, tx.times)
           new == [tx EXCEPT !["connections"] = connections]
<1>1. outcome = "running" /\ step = "connections" BY DEF MaterializeConnections, Stage
<1>2. /\ "connections" \in Names /\ {"services", "exceptions", "trips", "times"} \subseteq Names \ {"connections"}
  BY DEF Names
<1>3. \A name \in Names \ {"connections"} : new[name] = tx[name] BY <1>2, OneTable
<1>4. /\ new["services"] = tx["services"] /\ new["exceptions"] = tx["exceptions"]
      /\ new["trips"] = tx["trips"] /\ new["times"] = tx["times"] /\ new["connections"] = connections
  BY <1>2, <1>3, OneTable
<1>5. \/ Rolled \/ Advance("links", new) \/ StartFeed(Later, new) BY DEF MaterializeConnections
<1>6. Linked(new) BY <1>4 DEF Linked
<1> HIDE DEF new, connections
<1>7. /\ Dated(tx) /\ KeyedTrips(tx.trips) /\ TimedRows(tx) /\ Ordered(tx.trips, step) BY <1>1 DEF RowsInv
<1>8. CASE Rolled BY <1>8 DEF Rolled, RowsInv
<1>9. CASE Advance("links", new)
  <2>1. /\ step' = "links" /\ tx' = new /\ outcome' = "running" /\ UNCHANGED <<archive, feed>>
    BY <1>1, <1>9 DEF Advance
  <2>2. Dated(new) /\ KeyedTrips(new.trips) /\ TimedRows(new) BY <1>4, <1>7, SameRows
  <2>3. Ordered(tx.trips, step)' BY <1>4, <1>7, <2>1 DEF Ordered, Feed, BeforeTrips
  <2> QED BY <1>6, <2>1, <2>2, <2>3 DEF RowsInv
<1>10. CASE StartFeed(Later, new)
  <2>1. feed \in DOMAIN archive /\ Feed.mode \in Int BY <1>1, Sound
  <2>2. Later \in SUBSET DOMAIN archive BY DEF Later
  <2>3. \A i \in Later : archive[i].mode \in Int /\ archive[i].mode > Feed.mode
    BY ArchivesAssumption DEF IInv, Later
  <2>4. \A k \in DOMAIN tx.trips : k[1] \in Int /\ \A i \in Later : k[1] < archive[i].mode
    BY <1>7, <2>1, <2>3 DEF Ordered
  <2> QED BY <1>1, <1>4, <1>10, <2>2, <2>4, NextFeedKeepsOrder
<1> QED BY <1>5, <1>8, <1>9, <1>10

\* A generated walk is no rule for two trips.
LEMMA WalksAreNoLinks ==
  ASSUME NEW transfers, NEW t
  PROVE  TripLinks(transfers \cup ProximityTransfers(t)) = TripLinks(transfers)
<1>1. ASSUME NEW w \in ProximityTransfers(t) PROVE w.type = 2
  <2>1. PICK p \in Near(t) : w = Walk(p[1], p[2]) BY <1>1 DEF ProximityTransfers
  <2> QED BY <2>1 DEF Walk
<1>2. {r \in transfers \cup ProximityTransfers(t) : r.type \in {StayTransfer, LeaveTransfer}}
        = {r \in transfers : r.type \in {StayTransfer, LeaveTransfer}}
  BY <1>1 DEF StayTransfer, LeaveTransfer
<1> QED BY ONLY <1>2 DEF TripLinks

\* The last stages, after the connections.
LEMMA LinkingKeepsRows ==
  ASSUME IInv, RowsInv, MaterializeTripLinks \/ GenerateProximityTransfers
  PROVE  RowsInv'
<1>1. ASSUME NEW file \in {"links", "transfers"}, NEW table, NEW s \in {"proximity", "commit"},
             outcome = "running", step \in Linking,
             Advance(s, [tx EXCEPT ![file] = table]),
             [tx EXCEPT ![file] = table].links = TripLinks([tx EXCEPT ![file] = table].transfers)
      PROVE  RowsInv'
  <2> DEFINE new == [tx EXCEPT ![file] = table]
  <2>1. /\ file \in Names
        /\ {"services", "exceptions", "trips", "times", "connections"} \subseteq Names \ {file}
    BY DEF Names
  <2>2. \A name \in Names \ {file} : new[name] = tx[name] BY <2>1, OneTable
  <2>3. /\ new["services"] = tx["services"] /\ new["exceptions"] = tx["exceptions"]
        /\ new["trips"] = tx["trips"] /\ new["times"] = tx["times"] /\ new["connections"] = tx["connections"]
    BY <2>1, <2>2
  <2>4. new.links = TripLinks(new.transfers) BY <1>1
  <2>5. Advance(s, new) BY <1>1
  <2> HIDE DEF new
  <2>6. /\ step' = s /\ tx' = new /\ outcome' = "running" /\ UNCHANGED <<archive, feed>>
    BY <1>1, <2>5 DEF Advance
  <2>7. Dated(tx) /\ KeyedTrips(tx.trips) /\ TimedRows(tx) /\ Ordered(tx.trips, step) /\ Linked(tx)
    BY <1>1 DEF RowsInv, Linking
  <2>8. Dated(new) /\ KeyedTrips(new.trips) /\ TimedRows(new) BY <2>3, <2>7, SameRows
  <2>9. Linked(new) BY <2>3, <2>7 DEF Linked
  <2>10. Ordered(tx.trips, step)' BY <1>1, <2>3, <2>6, <2>7 DEF Ordered, Feed, BeforeTrips
  <2> QED BY <1>1, <2>4, <2>6, <2>8, <2>9, <2>10 DEF RowsInv
<1>2. "links" \in Names /\ "transfers" \in Names BY DEF Names
<1>3. CASE MaterializeTripLinks
  <2> DEFINE table == TripLinks(tx.transfers)
             new == [tx EXCEPT !["links"] = table]
  <2>1. outcome = "running" /\ step = "links" /\ Advance("proximity", new)
    BY <1>3 DEF MaterializeTripLinks, Stage
  <2>2. new["links"] = table /\ new["transfers"] = tx["transfers"] BY <1>2, OneTable
  <2>3. new.links = TripLinks(new.transfers) BY <2>2
  <2> HIDE DEF table
  <2> QED BY <1>1, <2>1, <2>3 DEF Linking
<1>4. CASE GenerateProximityTransfers
  <2> DEFINE table == tx.transfers \cup ProximityTransfers(tx)
             new == [tx EXCEPT !["transfers"] = table]
  <2>1. outcome = "running" /\ step = "proximity" /\ Advance("commit", new)
    BY <1>4 DEF GenerateProximityTransfers, Stage
  <2>2. new["transfers"] = table /\ new["links"] = tx["links"] BY <1>2, OneTable
  <2>3. tx.links = TripLinks(tx.transfers) BY <2>1 DEF RowsInv
  <2>4. new.links = TripLinks(new.transfers) BY <2>2, <2>3, WalksAreNoLinks
  <2> HIDE DEF table
  <2> QED BY <1>1, <2>1, <2>4 DEF Linking
<1> QED BY <1>3, <1>4

\* What is committed is what was compiled, with its coverage.
LEMMA CommitKeepsRows ==
  ASSUME IInv, RowsInv, Commit
  PROVE  RowsInv'
<1> DEFINE coverage == Coverage(tx)
           new == [tx EXCEPT !["coverage"] = coverage]
<1>1. outcome = "running" /\ step = "commit" BY DEF Commit, Stage
<1>2. CASE Rolled BY <1>2 DEF Rolled, RowsInv
<1>3. CASE CoveredDates(tx) # {} /\ store' = new /\ outcome' = "compiled"
  <2>1. /\ "coverage" \in Names
        /\ {"services", "exceptions", "trips", "times", "transfers", "connections", "links"}
             \subseteq Names \ {"coverage"}
    BY DEF Names
  <2>2. new["coverage"] = coverage /\ \A name \in Names \ {"coverage"} : new[name] = tx[name]
    BY <2>1, OneTable
  <2>3. /\ new["services"] = tx["services"] /\ new["exceptions"] = tx["exceptions"]
        /\ new["trips"] = tx["trips"] /\ new["times"] = tx["times"] /\ new["connections"] = tx["connections"]
        /\ new["transfers"] = tx["transfers"] /\ new["links"] = tx["links"]
    BY <2>1, <2>2
  <2> HIDE DEF new
  <2>4. /\ Dated(tx) /\ KeyedTrips(tx.trips) /\ TimedRows(tx) /\ Linked(tx) /\ tx.links = TripLinks(tx.transfers)
    BY <1>1 DEF RowsInv, Linking
  <2>5. Dated(new) /\ KeyedTrips(new.trips) /\ TimedRows(new) /\ CoveredDates(new) = CoveredDates(tx)
    BY <2>3, <2>4, SameRows
  <2>6. Linked(new) /\ new.links = TripLinks(new.transfers) BY <2>3, <2>4 DEF Linked
  <2>7. new.coverage = Coverage(new) BY <2>2, <2>5 DEF Coverage
  <2> QED BY <1>3, <2>5, <2>6, <2>7 DEF RowsInv
<1> QED BY <1>2, <1>3 DEF Commit

\* What is compiled about time is sound while an archive is compiled, and in the
\* dataset that comes of it, whatever its feeds hold (ingest.go, compiler_csv.go,
\* compiler_graph.go).
THEOREM StepRowsInv == IInv /\ RowsInv /\ [CompilerNext]_compilerVars => RowsInv'
<1> SUFFICES ASSUME IInv, RowsInv, [CompilerNext]_compilerVars PROVE RowsInv'
  OBVIOUS
<1>1. CASE UNCHANGED compilerVars
  BY <1>1 DEF compilerVars, RowsInv, Ordered, Feed, Dated, KeyedTrips, TimedRows, Linked
<1>2. CASE Abort
  BY <1>2 DEF Abort, Rolled, RowsInv
<1>3. CASE CompilerNext /\ ~Abort
  BY <1>3, OpeningKeepsRows, UntimedFilesKeep, CalendarIsDated, ExceptionsAreDated, TripsAreKeyed,
     StopTimesAreTimed, ConnectionsAreLinked, LinkingKeepsRows, CommitKeepsRows
     DEF CompilerNext
<1> QED BY <1>1, <1>2, <1>3

\* Nothing is compiled at first.
LEMMA InitRowsInv == Init => RowsInv
<1> SUFFICES ASSUME Init PROVE RowsInv
  OBVIOUS
<1>1. tx = NoRows /\ step = "open" /\ outcome = "running" BY DEF Init
<1>2. /\ NoRows.services = {} /\ NoRows.exceptions = {} /\ NoRows.trips = <<>> /\ NoRows.times = <<>>
      /\ DOMAIN <<>> = {}
  BY DEF NoRows
<1>3. Dated(NoRows) BY <1>2, FS_EmptySet DEF Dated
<1>4. KeyedTrips(NoRows.trips) /\ TimedRows(NoRows) BY <1>2, FS_EmptySet DEF KeyedTrips, TimedRows
<1> QED BY <1>1, <1>2, <1>3, <1>4 DEF RowsInv, Linking

(***************************************************************************)
(* The coverage.                                                           *)
(***************************************************************************)
\* A set of naturals has a least element.
LEMMA LeastNatural ==
  ASSUME NEW T, T \subseteq Nat, T # {}
  PROVE  \E x \in T : \A y \in T : x <= y
<1>1. PICK x \in T : \A y \in T : ~(<<y, x>> \in OpToRel(<, Nat))
  BY WFMin, NatLessThanWellFounded
<1>2. \A y \in T : x <= y
  <2>1. TAKE y \in T
  <2>2. x \in Nat /\ y \in Nat OBVIOUS
  <2>3. ~(y < x) BY <1>1, <2>2 DEF OpToRel
  <2> QED BY <2>2, <2>3
<1> QED BY <1>2

\* The values of a finite sequence of integers have a least one.
LEMMA LeastValue ==
  ASSUME NEW n \in Nat \ {0}, NEW f, \A k \in 1 .. n : f[k] \in Int
  PROVE  \E i \in 1 .. n : \A j \in 1 .. n : f[i] <= f[j]
<1> DEFINE Has(m) == \E i \in 1 .. m : \A j \in 1 .. m : f[i] <= f[j]
           T == {m \in 1 .. n : ~Has(m)}
<1>1. SUFFICES ASSUME ~Has(n) PROVE FALSE OBVIOUS
<1>2. T \subseteq Nat /\ T # {}
  <2>1. n \in 1 .. n OBVIOUS
  <2>2. n \in T BY <1>1, <2>1
  <2>3. T \subseteq 1 .. n OBVIOUS
  <2> HIDE DEF T
  <2> QED BY <2>2, <2>3
<1>3. PICK m \in T : \A k \in T : m <= k BY <1>2, LeastNatural
<1>4. m \in 1 .. n /\ ~Has(m) BY <1>3
<1>5. CASE m = 1 BY <1>4, <1>5
<1>6. CASE m # 1
  <2>1. m - 1 \in 1 .. n /\ ~(m <= m - 1) BY <1>4, <1>6
  <2>2. Has(m - 1) BY <1>3, <2>1
  <2>3. PICK i \in 1 .. m - 1 : \A j \in 1 .. m - 1 : f[i] <= f[j] BY <2>2
  <2> HIDE DEF T
  <2>4. i \in 1 .. m /\ m \in 1 .. m /\ f[i] \in Int /\ \A j \in 1 .. m : f[j] \in Int /\ (j # m => j \in 1 .. m - 1)
    BY <1>4, <2>1, <2>3
  <2>5. CASE f[i] <= f[m] BY <1>4, <2>3, <2>4, <2>5
  <2>6. CASE ~(f[i] <= f[m])
    <3>1. \A j \in 1 .. m : f[m] <= f[j]
      <4>1. TAKE j \in 1 .. m
      <4>2. j # m => f[i] <= f[j] BY <2>3, <2>4
      <4> QED BY <2>4, <2>6, <4>2
    <3> QED BY <1>4, <2>4, <3>1
  <2> QED BY <2>5, <2>6
<1> QED BY <1>5, <1>6

\* A finite set of integers has a least and a greatest member.
LEMMA Extremes ==
  ASSUME NEW S, IsFiniteSet(S), S \subseteq Int, S # {}
  PROVE  (\E x \in S : \A y \in S : x <= y) /\ (\E x \in S : \A y \in S : x >= y)
<1>1. PICK n \in Nat : ExistsBijection(1 .. n, S) BY FS_NatBijection
<1>2. PICK f \in Bijection(1 .. n, S) : TRUE BY <1>1 DEF ExistsBijection
<1>3. (\A k \in 1 .. n : f[k] \in S) /\ \A y \in S : \E k \in 1 .. n : f[k] = y
  BY <1>2 DEF Bijection, Injection, Surjection
<1>4. n # 0
  <2>1. PICK y \in S : TRUE OBVIOUS
  <2>2. PICK k \in 1 .. n : f[k] = y BY <1>3, <2>1
  <2> QED BY <2>2
<1>5. \E x \in S : \A y \in S : x <= y
  <2>1. PICK i \in 1 .. n : \A j \in 1 .. n : f[i] <= f[j] BY <1>3, <1>4, LeastValue
  <2>2. \A y \in S : f[i] <= y BY <1>3, <2>1
  <2> QED BY <1>3, <2>2
<1>6. \E x \in S : \A y \in S : x >= y
  <2> DEFINE g == [k \in 1 .. n |-> 0 - f[k]]
  <2>1. \A k \in 1 .. n : g[k] = 0 - f[k] /\ g[k] \in Int /\ f[k] \in Int
    <3>1. TAKE k \in 1 .. n
    <3>2. f[k] \in Int BY <1>3
    <3> QED BY <3>2
  <2> HIDE DEF g
  <2>2. PICK i \in 1 .. n : \A j \in 1 .. n : g[i] <= g[j] BY <1>4, <2>1, LeastValue
  <2>3. ASSUME NEW y \in S PROVE f[i] >= y
    <3>1. PICK k \in 1 .. n : f[k] = y BY <1>3
    <3>2. g[i] <= g[k] BY <2>2
    <3> QED BY <2>1, <3>1, <3>2
  <2> QED BY <1>3, <2>3
<1> QED BY <1>5, <1>6

\* The dates covered are those that calendars run from and to, and the added ones.
LEMMA CoveredDatesAre ==
  ASSUME NEW t
  PROVE  LET weekly == {x \in t.services : x.days # {}}
             added == {x \in t.exceptions : x.type = Added}
         IN  CoveredDates(t) = ({s.from : s \in weekly} \cup {s.to : s \in weekly}) \cup {e.date : e \in added}
<1> DEFINE weekly == {x \in t.services : x.days # {}}
           ends == UNION {{s.from, s.to} : s \in {x \in t.services : x.days # {}}}
           dates == {e.date : e \in {x \in t.exceptions : x.type = Added}}
           froms == {s.from : s \in weekly}
           tos == {s.to : s \in weekly}
<1>1. CoveredDates(t) = dates \cup ends BY DEF CoveredDates
<1>2. ends = froms \cup tos
  <2>1. ASSUME NEW d \in ends PROVE d \in froms \cup tos
    <3>1. PICK s \in weekly : d \in {s.from, s.to} BY <2>1
    <3> QED BY <3>1
  <2>2. ASSUME NEW s \in weekly PROVE s.from \in ends /\ s.to \in ends
    <3>1. {s.from, s.to} \in {{x.from, x.to} : x \in weekly} OBVIOUS
    <3> QED BY <3>1
  <2> HIDE DEF ends, weekly
  <2>3. \A d \in froms \cup tos : d \in ends BY <2>2
  <2> QED BY <2>1, <2>3
<1> HIDE DEF ends, dates, froms, tos
<1>3. CoveredDates(t) = (froms \cup tos) \cup dates BY <1>1, <1>2
<1> QED BY <1>3 DEF froms, tos, dates

\* The coverage is from the first to the last of the dates of a generation.
LEMMA CoverageHolds ==
  ASSUME NEW t, Dated(t), CoveredDates(t) # {}
  PROVE  /\ Coverage(t).start \in Int /\ Coverage(t).end \in Int /\ Coverage(t).start <= Coverage(t).end
         /\ \A d \in CoveredDates(t) : d \in Int /\ Coverage(t).start <= d /\ d <= Coverage(t).end
<1> DEFINE weekly == {x \in t.services : x.days # {}}
           added == {x \in t.exceptions : x.type = Added}
           froms == {s.from : s \in weekly}
           tos == {s.to : s \in weekly}
           dates == {e.date : e \in added}
           C == CoveredDates(t)
<1>1. C = (froms \cup tos) \cup dates BY CoveredDatesAre
<1>2. IsFiniteSet(weekly) /\ IsFiniteSet(added) BY FS_Subset DEF Dated
<1>3. (\A s \in weekly : s.from \in Int /\ s.to \in Int) /\ \A e \in added : e.date \in Int BY DEF Dated
<1> HIDE DEF weekly, added, C
<1>4. C \subseteq Int BY <1>1, <1>3
<1>5. IsFiniteSet(C)
  <2>1. IsFiniteSet(froms)
    <3> DEFINE f == [s \in weekly |-> s.from]
    <3>1. DOMAIN f = weekly /\ \A y \in froms : \E s \in weekly : f[s] = y OBVIOUS
    <3> HIDE DEF f, froms
    <3> QED BY <1>2, <3>1, FiniteImage
  <2>2. IsFiniteSet(tos)
    <3> DEFINE f == [s \in weekly |-> s.to]
    <3>1. DOMAIN f = weekly /\ \A y \in tos : \E s \in weekly : f[s] = y OBVIOUS
    <3> HIDE DEF f, tos
    <3> QED BY <1>2, <3>1, FiniteImage
  <2>3. IsFiniteSet(dates)
    <3> DEFINE f == [e \in added |-> e.date]
    <3>1. DOMAIN f = added /\ \A y \in dates : \E e \in added : f[e] = y OBVIOUS
    <3> HIDE DEF f, dates
    <3> QED BY <1>2, <3>1, FiniteImage
  <2> HIDE DEF froms, tos, dates
  <2>4. IsFiniteSet(froms \cup tos) BY <2>1, <2>2, FS_Union
  <2> QED BY <1>1, <2>3, <2>4, FS_Union
<1>6. C # {} BY DEF C
<1>7. (\E x \in C : \A y \in C : x <= y) /\ (\E x \in C : \A y \in C : x >= y) BY <1>4, <1>5, <1>6, Extremes
<1>8. /\ Coverage(t).start = CHOOSE d \in C : \A e \in C : d <= e
      /\ Coverage(t).end = CHOOSE d \in C : \A e \in C : d >= e
  BY DEF Coverage, C
<1>9. Coverage(t).start \in C /\ \A e \in C : Coverage(t).start <= e BY <1>7, <1>8
<1>10. Coverage(t).end \in C /\ \A e \in C : Coverage(t).end >= e BY <1>7, <1>8
<1> QED BY <1>4, <1>9, <1>10 DEF C

\* A service that runs on a day has the day in its calendar or added to it.
LEMMA RunsWhenCovered ==
  ASSUME NEW t, Dated(t), CoveredDates(t) # {}, NEW d \in Int, ServicesOn(t, d) # {}
  PROVE  Coverage(t).start <= d /\ d <= Coverage(t).end
<1> DEFINE C == CoveredDates(t)
<1>1. \/ \E s \in t.services : d % 7 \in s.days /\ s.from <= d /\ d <= s.to
      \/ \E e \in t.exceptions : e.date = d /\ e.type = Added
  BY DEF ServicesOn
<1>2. CASE \E s \in t.services : d % 7 \in s.days /\ s.from <= d /\ d <= s.to
  <2>1. PICK s \in t.services : s.days # {} /\ s.from <= d /\ d <= s.to BY <1>2
  <2>2. s.from \in C /\ s.to \in C BY <2>1, CoveredDatesAre
  <2> HIDE DEF C
  <2>3. /\ Coverage(t).start \in Int /\ Coverage(t).end \in Int
        /\ \A x \in C : x \in Int /\ Coverage(t).start <= x /\ x <= Coverage(t).end
    BY CoverageHolds DEF C
  <2> QED BY <2>1, <2>2, <2>3
<1>3. CASE \E e \in t.exceptions : e.date = d /\ e.type = Added
  <2>1. PICK e \in t.exceptions : e.date = d /\ e.type = Added BY <1>3
  <2>2. d \in C BY <2>1, CoveredDatesAre
  <2> QED BY <2>2, CoverageHolds
<1> QED BY <1>1, <1>2, <1>3

(***************************************************************************)
(* The type invariant.                                                     *)
(***************************************************************************)
\* How outcome, tables and store go together.
Shaped ==
  /\ archive # <<>> => feed \in DOMAIN archive
  /\ store # NoRows <=> outcome = "compiled"
  /\ outcome = "failed" => tx = NoRows

\* What was loaded last is of a compiled generation.
QueryInv ==
  query # None =>
    /\ outcome = "compiled"
    /\ \E q \in Queries :
         /\ query = q
         /\ window # NoWindow => /\ window.connections = LoadedConnections(q)
                             /\ window.continuations = LoadContinuations(LoadedConnections(q))
         /\ window = NoWindow => LoadedConnections(q) = {}

\* The inductive invariant.
WindowInv == IInv /\ WalksInv /\ RowsInv /\ Shaped /\ QueryInv

\* Nothing is compiled any more once a generation is committed.
LEMMA CompiledStays ==
  ASSUME outcome = "compiled", [CompilerNext]_compilerVars
  PROVE  UNCHANGED compilerVars
BY DEF CompilerNext, Open, CheckFiles, CompileLevels, CompileStops, CompileRoutes, CompileCalendar,
       CompileCalendarDates, CompileTrips, CompileStopTimes, CompileTransfers, CompilePathways, CompileFile,
       MaterializeConnections, MaterializeTripLinks, GenerateProximityTransfers, Commit, Abort, Stage

\* Feeds are of the archive, and rows are stored only by the commit.
LEMMA ShapeKept ==
  ASSUME IInv, IInv', Shaped, [CompilerNext]_compilerVars
  PROVE  Shaped'
<1>1. CASE UNCHANGED compilerVars BY <1>1 DEF compilerVars, Shaped
<1>2. CASE CompilerNext
  <2>1. archive' = archive /\ outcome = "running" /\ store = NoRows
    BY <1>2 DEF Shaped, CompilerNext, Open, CheckFiles, CompileLevels, CompileStops, CompileRoutes, CompileCalendar,
       CompileCalendarDates, CompileTrips, CompileStopTimes, CompileTransfers, CompilePathways, CompileFile,
       MaterializeConnections, MaterializeTripLinks, GenerateProximityTransfers, Commit, Abort, Stage,
       Advance, Rolled, StartFeed
  <2>2. feed' = feed \/ feed' \in DOMAIN archive
    BY <1>2 DEF CompilerNext, Open, CheckFiles, CompileLevels, CompileStops, CompileRoutes, CompileCalendar,
       CompileCalendarDates, CompileTrips, CompileStopTimes, CompileTransfers, CompilePathways, CompileFile,
       MaterializeConnections, MaterializeTripLinks, GenerateProximityTransfers, Commit, Abort,
       Advance, Rolled, StartFeed, Later
  <2>3. CASE outcome' = "compiled"
    <3>1. store'.connections # {} BY <2>3 DEF IInv, CompiledIsPublishable, CoreRowsPresent
    <3>2. NoRows.connections = {} BY DEF NoRows
    <3> QED BY <2>1, <2>2, <2>3, <3>1, <3>2 DEF Shaped
  <2>4. CASE outcome' # "compiled"
    <3>1. store' = store /\ (outcome' = "failed" => tx' = NoRows)
      BY <1>2, <2>1, <2>4 DEF CompilerNext, Open, CheckFiles, CompileLevels, CompileStops, CompileRoutes,
         CompileCalendar, CompileCalendarDates, CompileTrips, CompileStopTimes, CompileTransfers, CompilePathways,
         CompileFile, MaterializeConnections, MaterializeTripLinks, GenerateProximityTransfers, Commit, Abort,
         Advance, Rolled, StartFeed
    <3> QED BY <2>1, <2>2, <2>4, <3>1 DEF Shaped
  <2> QED BY <2>3, <2>4
<1> QED BY <1>1, <1>2

\* What a window holds depends on the tables alone.
LEMMA SameTablesSameWindow ==
  ASSUME store' = store, NEW q
  PROVE  /\ LoadedConnections(q)' = LoadedConnections(q)
         /\ LoadContinuations(LoadedConnections(q))' = LoadContinuations(LoadedConnections(q))
<1>1. LoadedConnections(q)' = LoadedConnections(q) BY DEF LoadedConnections
<1>2. ASSUME NEW conns PROVE LoadContinuations(conns)' = LoadContinuations(conns)
  BY DEF LoadContinuations, NextJoins, Joins, Lasts, Firsts, LastSeq, FirstSeq
<1> QED BY <1>1, <1>2

(***************************************************************************)
(* Dates and instants.                                                     *)
(***************************************************************************)
\* Midnights can be counted up from the first date.
LEMMA MidnightsExist ==
  ASSUME NEW n \in Nat
  PROVE  \E f : f = [d \in 0 .. n |-> IF d = 0 THEN 0 ELSE f[d-1] + DayLength[d-1]]
<1> DEFINE Has(m) == \E f : f = [d \in 0 .. m |-> IF d = 0 THEN 0 ELSE f[d-1] + DayLength[d-1]]
           T == {m \in Nat : ~Has(m)}
<1>1. SUFFICES ASSUME ~Has(n) PROVE FALSE OBVIOUS
<1>2. T \subseteq Nat /\ T # {} BY <1>1
<1>3. PICK m \in T : \A k \in T : m <= k BY <1>2, LeastNatural
<1>4. m \in Nat /\ ~Has(m) BY <1>3
<1>5. CASE m = 0
  <2> DEFINE f == [d \in 0 .. 0 |-> 0]
  <2>1. f = [d \in 0 .. 0 |-> IF d = 0 THEN 0 ELSE f[d-1] + DayLength[d-1]] OBVIOUS
  <2> QED BY <1>4, <1>5, <2>1
<1>6. CASE m # 0
  <2>1. m - 1 \in Nat /\ ~(m <= m - 1) BY <1>4, <1>6
  <2>2. Has(m - 1) BY <1>3, <2>1
  <2>3. PICK g : g = [d \in 0 .. m - 1 |-> IF d = 0 THEN 0 ELSE g[d-1] + DayLength[d-1]] BY <2>2
  <2> DEFINE f == [d \in 0 .. m |-> IF d = m THEN g[m - 1] + DayLength[m - 1] ELSE g[d]]
  <2>4. \A d \in 0 .. m : f[d] = IF d = 0 THEN 0 ELSE f[d-1] + DayLength[d-1]
    <3>1. TAKE d \in 0 .. m
    <3>2. CASE d = m
      <4>1. m - 1 \in 0 .. m /\ m - 1 # m BY <1>4, <2>1
      <4>2. f[m] = g[m - 1] + DayLength[m - 1] /\ f[m - 1] = g[m - 1] BY <4>1
      <4> QED BY <1>6, <3>2, <4>2
    <3>3. CASE d # m
      <4>1. d \in 0 .. m - 1 BY <1>4, <3>3
      <4>2. f[d] = g[d] /\ g[d] = IF d = 0 THEN 0 ELSE g[d-1] + DayLength[d-1] BY <2>3, <3>3, <4>1
      <4>3. CASE d = 0 BY <4>2, <4>3
      <4>4. CASE d # 0
        <5>1. d - 1 \in 0 .. m /\ d - 1 # m BY <1>4, <4>1, <4>4
        <5>2. f[d - 1] = g[d - 1] BY <5>1
        <5> QED BY <4>2, <4>4, <5>2
      <4> QED BY <4>3, <4>4
    <3> QED BY <3>2, <3>3
  <2>5. f = [d \in 0 .. m |-> f[d]] OBVIOUS
  <2> HIDE DEF f
  <2>6. f = [d \in 0 .. m |-> IF d = 0 THEN 0 ELSE f[d-1] + DayLength[d-1]] BY <2>4, <2>5
  <2> QED BY <1>4, <2>6
<1> QED BY <1>5, <1>6

\* A midnight comes a day after the one before.
LEMMA MidnightSteps ==
  /\ Midnight[0] = 0
  /\ \A d \in Days : Midnight[d + 1] = Midnight[d] + DayLength[d]
<1>1. LastDay + 1 \in Nat BY DaysAssumption
<1>2. Midnight = [d \in 0 .. LastDay + 1 |-> IF d = 0 THEN 0 ELSE Midnight[d-1] + DayLength[d-1]]
  <2>1. \E f : f = [d \in 0 .. LastDay + 1 |-> IF d = 0 THEN 0 ELSE f[d-1] + DayLength[d-1]]
    BY <1>1, MidnightsExist
  <2> QED BY <2>1 DEF Midnight
<1>3. \A d \in 0 .. LastDay + 1 : Midnight[d] = IF d = 0 THEN 0 ELSE Midnight[d-1] + DayLength[d-1] BY <1>2
<1>4. Midnight[0] = 0 BY <1>1, <1>3
<1>5. ASSUME NEW d \in Days PROVE Midnight[d + 1] = Midnight[d] + DayLength[d]
  <2>1. d + 1 \in 0 .. LastDay + 1 /\ d + 1 # 0 /\ (d + 1) - 1 = d BY DaysAssumption DEF Days
  <2> QED BY <1>3, <2>1
<1> QED BY <1>4, <1>5

\* Midnights are numbers, and a later date has a later one, by at least a day of 23 hours.
LEMMA MidnightsRise ==
  /\ \A d \in 0 .. LastDay + 1 : Midnight[d] \in Nat
  /\ \A d \in Days, e \in 0 .. LastDay + 1 : d < e => Midnight[d + 1] <= Midnight[e]
<1>1. LastDay \in Nat /\ \A d \in Days : d \in Nat /\ DayLength[d] \in 23 .. 25
  BY DaysAssumption DEF Days
<1>2. \A d \in 0 .. LastDay + 1 : Midnight[d] \in Nat
  <2> DEFINE T == {d \in 0 .. LastDay + 1 : Midnight[d] \notin Nat}
  <2>1. SUFFICES ASSUME T # {} PROVE FALSE OBVIOUS
  <2>2. T \subseteq Nat BY <1>1
  <2>3. PICK m \in T : \A k \in T : m <= k BY <2>1, <2>2, LeastNatural
  <2>4. m \in 0 .. LastDay + 1 /\ Midnight[m] \notin Nat BY <2>3
  <2>5. m # 0 BY <2>4, MidnightSteps
  <2>6. m - 1 \in Days /\ m - 1 \in 0 .. LastDay + 1 /\ ~(m <= m - 1) /\ (m - 1) + 1 = m
    BY <1>1, <2>4, <2>5 DEF Days
  <2>7. Midnight[m - 1] \in Nat BY <2>3, <2>6
  <2>8. Midnight[m] = Midnight[m - 1] + DayLength[m - 1] BY <2>6, MidnightSteps
  <2>9. DayLength[m - 1] \in 23 .. 25 BY <1>1, <2>6
  <2> QED BY <2>4, <2>7, <2>8, <2>9
<1>3. ASSUME NEW d \in Days, NEW e \in 0 .. LastDay + 1, d < e PROVE Midnight[d + 1] <= Midnight[e]
  <2> DEFINE T == {k \in 0 .. LastDay + 1 : d < k /\ ~(Midnight[d + 1] <= Midnight[k])}
  <2>1. SUFFICES ASSUME T # {} PROVE FALSE BY <1>3
  <2>2. T \subseteq Nat BY <1>1
  <2>3. PICK m \in T : \A k \in T : m <= k BY <2>1, <2>2, LeastNatural
  <2>4. m \in 0 .. LastDay + 1 /\ d < m /\ ~(Midnight[d + 1] <= Midnight[m]) BY <2>3
  <2>5. d + 1 \in 0 .. LastDay + 1 /\ d \in Nat BY <1>1 DEF Days
  <2>6. m # d + 1 BY <1>2, <2>4, <2>5
  <2>7. /\ m - 1 \in Days /\ m - 1 \in 0 .. LastDay + 1 /\ ~(m <= m - 1) /\ (m - 1) + 1 = m /\ d < m - 1
    BY <1>1, <2>4, <2>5, <2>6 DEF Days
  <2>8. Midnight[d + 1] <= Midnight[m - 1] BY <2>3, <2>7
  <2>9. Midnight[m] = Midnight[m - 1] + DayLength[m - 1] /\ DayLength[m - 1] \in 23 .. 25
    BY <1>1, <2>7, MidnightSteps
  <2>10. Midnight[m - 1] \in Nat /\ Midnight[d + 1] \in Nat BY <1>2, <2>5, <2>7
  <2> QED BY <2>4, <2>8, <2>9, <2>10
<1> QED BY <1>2, <1>3

\* Every instant of the dates of the model has a date.
LEMMA LocalDateHolds ==
  ASSUME NEW t \in Int, 0 <= t, t < Midnight[LastDay + 1]
  PROVE  LocalDate(t) \in Days /\ Midnight[LocalDate(t)] <= t /\ t < Midnight[LocalDate(t) + 1]
<1> DEFINE T == {d \in 0 .. LastDay + 1 : t < Midnight[d]}
<1>1. LastDay \in Nat BY DaysAssumption
<1>2. LastDay + 1 \in T /\ T \subseteq Nat BY <1>1
<1>3. PICK m \in T : \A k \in T : m <= k BY <1>2, LeastNatural
<1>4. m \in 0 .. LastDay + 1 /\ t < Midnight[m] BY <1>3
<1>5. m # 0 BY <1>4, MidnightSteps
<1>6. m - 1 \in Days /\ m - 1 \in 0 .. LastDay + 1 /\ ~(m <= m - 1) /\ (m - 1) + 1 = m
  BY <1>1, <1>4, <1>5 DEF Days
<1>7. ~(t < Midnight[m - 1]) /\ Midnight[m - 1] \in Nat BY <1>3, <1>6, MidnightsRise
<1>8. Midnight[m - 1] <= t /\ t < Midnight[(m - 1) + 1] BY <1>4, <1>6, <1>7
<1> QED BY <1>6, <1>8 DEF LocalDate

\* No earlier date has begun later, and a later one begins later.
LEMMA DatesInOrder ==
  ASSUME NEW t \in Int, 0 <= t, t < Midnight[LastDay + 1], NEW d \in Days
  PROVE  /\ d <= LocalDate(t) <=> Midnight[d] <= t
         /\ Midnight[d] \in Nat
<1>1. LocalDate(t) \in Days /\ Midnight[LocalDate(t)] <= t /\ t < Midnight[LocalDate(t) + 1] BY LocalDateHolds
<1>2. LastDay \in Nat BY DaysAssumption
<1> DEFINE l == LocalDate(t)
<1>3. l \in Nat /\ d \in Nat /\ l \in 0 .. LastDay + 1 /\ d \in 0 .. LastDay + 1
      /\ l + 1 \in 0 .. LastDay + 1 /\ d + 1 \in 0 .. LastDay + 1
  BY <1>1, <1>2 DEF Days
<1>4. Midnight[l] \in Nat /\ Midnight[d] \in Nat /\ Midnight[l + 1] \in Nat /\ Midnight[d + 1] \in Nat
  BY <1>3, MidnightsRise
<1>5. (d < l => Midnight[d + 1] <= Midnight[l]) /\ (l < d => Midnight[l + 1] <= Midnight[d])
  BY <1>1, <1>3, MidnightsRise
<1>6. Midnight[d + 1] = Midnight[d] + DayLength[d] /\ DayLength[d] \in 23 .. 25
  BY MidnightSteps, DaysAssumption
<1> HIDE DEF l
<1> QED BY <1>1, <1>3, <1>4, <1>5, <1>6 DEF l

\* A service day begins within an hour of its midnight.
LEMMA AnchorNearMidnight ==
  ASSUME NEW d \in Days
  PROVE  /\ ServiceDayAnchor(d) \in Int
         /\ Midnight[d] - 1 <= ServiceDayAnchor(d) /\ ServiceDayAnchor(d) <= Midnight[d] + 1
         /\ ServiceDayAnchor(d) < Midnight[d + 1]
<1>1. DayLength[d] \in 23 .. 25 /\ LastDay \in Nat BY DaysAssumption
<1>2. d \in 0 .. LastDay + 1 BY <1>1 DEF Days
<1>3. Midnight[d] \in Nat BY <1>2, MidnightsRise
<1>4. Midnight[d + 1] = Midnight[d] + DayLength[d] BY MidnightSteps
<1> QED BY <1>1, <1>3, <1>4 DEF ServiceDayAnchor, Noon

(***************************************************************************)
(* Connections.                                                            *)
(***************************************************************************)
\* Row j comes next after row i in their trip.
NextRow(times, i, j) ==
  /\ times[j].trip = times[i].trip /\ times[j].seq > times[i].seq /\ times[j].arr >= times[i].dep
  /\ \A k \in DOMAIN times :
       times[k].trip = times[i].trip /\ (times[k].seq > times[i].seq \/ (times[k].seq = times[i].seq /\ k[2] > i[2]))
         => times[j].seq < times[k].seq \/ (times[j].seq = times[k].seq /\ j[2] <= k[2])

\* A connection is of two rows, the second next after the first.
LEMMA ConnectionRows ==
  ASSUME NEW t, Linked(t), NEW c \in t.connections
  PROVE  \E i, j \in DOMAIN t.times :
           NextRow(t.times, i, j) /\ c = Segment(t.trips[t.times[i].trip], t.times[i], t.times[j])
<1> DEFINE times == t.times
           From(i) == {j \in FollowingTimes(times, i) : FollowsInTime(times[i], times[j])}
<1>1. PICK i \in DOMAIN times :
        c \in {Segment(t.trips[times[i].trip], times[i], times[j]) : j \in From(i)}
  BY DEF Linked, Connections
<1>2. PICK j \in From(i) : c = Segment(t.trips[times[i].trip], times[i], times[j]) BY <1>1
<1>3. j \in FollowingTimes(times, i) /\ FollowsInTime(times[i], times[j]) BY <1>2
<1>4. j \in DOMAIN times /\ NextRow(times, i, j)
  BY <1>3 DEF FollowingTimes, FollowsInTime, NextRow
<1> QED BY <1>1, <1>2, <1>4

\* Where rows are the same, in one trip, the connections are the same.
LEMMA OneNextRow ==
  ASSUME NEW t, TimedRows(t),
         NEW i \in DOMAIN t.times, NEW j \in DOMAIN t.times, NextRow(t.times, i, j),
         NEW k \in DOMAIN t.times, NEW l \in DOMAIN t.times, NextRow(t.times, k, l),
         t.times[i].trip = t.times[k].trip,
         t.times[i].seq = t.times[k].seq \/ t.times[j].seq = t.times[l].seq
  PROVE  i = k /\ j = l
<1> DEFINE T == t.times
<1>1. /\ i \in Int \X Nat /\ j \in Int \X Nat /\ k \in Int \X Nat /\ l \in Int \X Nat
      /\ T[i].seq \in Int /\ T[j].seq \in Int /\ T[k].seq \in Int /\ T[l].seq \in Int
      /\ T[i].trip[1] = i[1] /\ T[j].trip[1] = j[1] /\ T[k].trip[1] = k[1] /\ T[l].trip[1] = l[1]
  BY DEF TimedRows
<1>2. T[j].trip = T[i].trip /\ T[l].trip = T[k].trip /\ T[j].seq > T[i].seq /\ T[l].seq > T[k].seq
  BY DEF NextRow
<1>3. i[1] = k[1] /\ j[1] = l[1] /\ i[2] \in Nat /\ j[2] \in Nat /\ k[2] \in Nat /\ l[2] \in Nat
      /\ i = <<i[1], i[2]>> /\ j = <<j[1], j[2]>> /\ k = <<k[1], k[2]>> /\ l = <<l[1], l[2]>>
  BY <1>1, <1>2
<1> DEFINE After(x, y) == T[x].seq > T[y].seq \/ (T[x].seq = T[y].seq /\ x[2] > y[2])
           Upto(x, y) == T[x].seq < T[y].seq \/ (T[x].seq = T[y].seq /\ x[2] <= y[2])
<1>4. /\ \A x \in DOMAIN T : T[x].trip = T[i].trip /\ After(x, i) => Upto(j, x)
      /\ \A x \in DOMAIN T : T[x].trip = T[k].trip /\ After(x, k) => Upto(l, x)
  BY DEF NextRow
<1>5. /\ (After(k, i) => Upto(j, k)) /\ (After(l, i) => Upto(j, l))
      /\ (After(i, k) => Upto(l, i)) /\ (After(j, k) => Upto(l, j))
  <2> HIDE DEF After, Upto
  <2> QED BY <1>2, <1>4
<1>6. /\ T[i].seq \in Int /\ T[j].seq \in Int /\ T[k].seq \in Int /\ T[l].seq \in Int
      /\ (T[i].seq = T[k].seq \/ T[j].seq = T[l].seq)
  BY <1>1
<1> HIDE DEF T
<1>7. i[2] = k[2] /\ j[2] = l[2]
  <2>1. CASE T[i].seq = T[k].seq
    <3>1. i[2] = k[2] BY <1>2, <1>3, <1>5, <1>6, <2>1
    <3>2. After(l, i) /\ After(j, k) BY <1>2, <1>6, <2>1
    <3> QED BY <1>3, <1>5, <1>6, <3>1, <3>2
  <2>2. CASE T[j].seq = T[l].seq
    <3>1. After(l, i) /\ After(j, k) BY <1>2, <1>6, <2>2
    <3>2. j[2] = l[2] BY <1>3, <1>5, <1>6, <2>2, <3>1
    <3> QED BY <1>2, <1>3, <1>5, <1>6, <2>2, <3>2
  <2> QED BY <1>6, <2>1, <2>2
<1> QED BY <1>3, <1>7

\* A connection departs and arrives within a service day, and forwards.
LEMMA ConnectionTimes ==
  ASSUME NEW t, TimedRows(t), Linked(t), NEW c \in t.connections
  PROVE  /\ c.trip \in DOMAIN t.trips /\ c.fromSeq \in Int /\ c.toSeq \in Int /\ c.fromSeq < c.toSeq
         /\ c.dep \in 0 .. MaxSeconds /\ c.arr \in 0 .. MaxSeconds /\ c.dep <= c.arr
<1>1. PICK i, j \in DOMAIN t.times :
        NextRow(t.times, i, j) /\ c = Segment(t.trips[t.times[i].trip], t.times[i], t.times[j])
  BY ConnectionRows
<1>2. /\ t.times[i].trip \in DOMAIN t.trips /\ t.times[i].seq \in Int /\ t.times[j].seq \in Int
      /\ t.times[i].dep \in 0 .. MaxSeconds /\ t.times[j].arr \in 0 .. MaxSeconds
  BY DEF TimedRows
<1>3. t.times[j].seq > t.times[i].seq /\ t.times[j].arr >= t.times[i].dep BY <1>1 DEF NextRow
<1>4. /\ c.trip = t.times[i].trip /\ c.fromSeq = t.times[i].seq /\ c.toSeq = t.times[j].seq
      /\ c.dep = t.times[i].dep /\ c.arr = t.times[j].arr
  BY <1>1 DEF Segment
<1> QED BY <1>2, <1>3, <1>4, RangeAssumption

\* A trip has one connection from, and one to, a number of its sequence.
LEMMA OneConnection ==
  ASSUME NEW t, TimedRows(t), Linked(t), NEW c \in t.connections, NEW e \in t.connections,
         c.trip = e.trip, c.fromSeq = e.fromSeq \/ c.toSeq = e.toSeq
  PROVE  c = e
<1>1. PICK i, j \in DOMAIN t.times :
        NextRow(t.times, i, j) /\ c = Segment(t.trips[t.times[i].trip], t.times[i], t.times[j])
  BY ConnectionRows
<1>2. PICK k, l \in DOMAIN t.times :
        NextRow(t.times, k, l) /\ e = Segment(t.trips[t.times[k].trip], t.times[k], t.times[l])
  BY ConnectionRows
<1>3. c.trip = t.times[i].trip /\ c.fromSeq = t.times[i].seq /\ c.toSeq = t.times[j].seq BY <1>1 DEF Segment
<1>4. e.trip = t.times[k].trip /\ e.fromSeq = t.times[k].seq /\ e.toSeq = t.times[l].seq BY <1>2 DEF Segment
<1>5. i = k /\ j = l
  <2>1. t.times[i].trip = t.times[k].trip
        /\ (t.times[i].seq = t.times[k].seq \/ t.times[j].seq = t.times[l].seq)
    BY <1>3, <1>4
  <2>2. NextRow(t.times, i, j) /\ NextRow(t.times, k, l) BY <1>1, <1>2
  <2> QED BY SMTT(30), <2>1, <2>2, OneNextRow
<1> QED BY <1>1, <1>2, <1>5

(***************************************************************************)
(* The window.                                                             *)
(***************************************************************************)
\* A window is of dates that the model has.
LEMMA WindowHolds ==
  ASSUME NEW q, Held(q)
  PROVE  /\ WindowStart(q) \in Int /\ WindowEnd(q) \in Int /\ WindowStart(q) - MaxSeconds \in Int
         /\ 0 <= WindowStart(q) - MaxSeconds /\ WindowStart(q) <= WindowEnd(q)
         /\ WindowStart(q) - MaxSeconds <= WindowStart(q)
         /\ 0 <= WindowEnd(q) /\ WindowEnd(q) < Midnight[LastDay + 1]
         /\ WindowStart(q) - MaxSeconds < Midnight[LastDay + 1]
<1>1. /\ q.at \in Int /\ q.horizon \in Nat /\ q.latest \in BOOLEAN
      /\ MaxSeconds <= WindowStart(q) /\ WindowEnd(q) < Midnight[LastDay + 1]
  BY DEF Held
<1>2. WindowStart(q) \in Int /\ WindowEnd(q) \in Int /\ WindowStart(q) <= WindowEnd(q)
  BY <1>1 DEF WindowStart, WindowEnd
<1>3. Midnight[LastDay + 1] \in Nat
  <2>1. LastDay + 1 \in 0 .. LastDay + 1 BY DaysAssumption
  <2> QED BY <2>1, MidnightsRise
<1> QED BY <1>1, <1>2, <1>3, RangeAssumption

\* An instance is a connection of a day, at the instants of the day.
LEMMA InstanceFacts ==
  ASSUME NEW t, TimedRows(t), Linked(t), NEW c \in t.connections, NEW d \in Days
  PROVE  LET i == Instance(d, c)
         IN  /\ i.day = d /\ i.trip = c.trip /\ i.from = c.from /\ i.to = c.to
             /\ i.fromSeq = c.fromSeq /\ i.toSeq = c.toSeq
             /\ i.dep = ServiceDayAnchor(d) + c.dep /\ i.arr = ServiceDayAnchor(d) + c.arr
             /\ i.dep \in Int /\ i.arr \in Int /\ i.dep <= i.arr
             /\ c.dep \in 0 .. MaxSeconds /\ c.arr \in 0 .. MaxSeconds /\ ServiceDayAnchor(d) \in Int
<1>1. ServiceDayAnchor(d) \in Int BY AnchorNearMidnight
<1>2. c.dep \in 0 .. MaxSeconds /\ c.arr \in 0 .. MaxSeconds /\ c.dep <= c.arr BY ConnectionTimes
<1>3. /\ Instance(d, c).dep = ServiceDayAnchor(d) + c.dep /\ Instance(d, c).arr = ServiceDayAnchor(d) + c.arr
      /\ Instance(d, c).day = d /\ Instance(d, c).trip = c.trip
      /\ Instance(d, c).from = c.from /\ Instance(d, c).to = c.to
      /\ Instance(d, c).fromSeq = c.fromSeq /\ Instance(d, c).toSeq = c.toSeq
  BY DEF Instance
<1> QED BY <1>1, <1>2, <1>3, RangeAssumption

\* The instance of a connection on a day whose service runs is in a window.
Running(d, c, q) ==
  /\ d \in Days /\ c \in store.connections /\ c.service \in ServicesOn(store, d)
  /\ d <= LocalDate(WindowEnd(q))
  /\ WindowStart(q) <= Moment(q, Instance(d, c)) /\ Moment(q, Instance(d, c)) <= WindowEnd(q)

\* What is loaded is what runs in the window: the days before it that run on
\* into it are looked at, and within each of them the seconds that are in it.
LEMMA LoadedAreRunning ==
  ASSUME TimedRows(store), Linked(store), NEW q, Held(q), NEW i
  PROVE  i \in LoadedConnections(q) <=> \E d, c : i = Instance(d, c) /\ Running(d, c, q)
<1> DEFINE u == WindowStart(q) - MaxSeconds
<1>1. /\ WindowStart(q) \in Int /\ WindowEnd(q) \in Int /\ u \in Int /\ 0 <= u /\ WindowStart(q) <= WindowEnd(q)
      /\ u <= WindowStart(q) /\ 0 <= WindowEnd(q)
      /\ WindowEnd(q) < Midnight[LastDay + 1] /\ u < Midnight[LastDay + 1]
  BY WindowHolds
<1>2. /\ LocalDate(u) \in Days /\ Midnight[LocalDate(u)] <= u
      /\ LocalDate(WindowEnd(q)) \in Days
  BY <1>1, LocalDateHolds
<1>3. LastDay \in Nat /\ MaxSeconds \in Nat /\ q.latest \in BOOLEAN
  BY DaysAssumption, RangeAssumption DEF Held
<1>4. WindowDates(q) = LocalDate(u) .. LocalDate(WindowEnd(q)) BY DEF WindowDates
<1>5. i \in LoadedConnections(q) <=>
        \E d \in WindowDates(q) : \E c \in store.connections :
           i = Instance(d, c) /\ c.service \in ServicesOn(store, d) /\ InWindow(q, d, c)
  <2> DEFINE Of(d) == {Instance(d, c) : c \in {x \in store.connections :
                                     x.service \in ServicesOn(store, d) /\ InWindow(q, d, x)}}
  <2>1. LoadedConnections(q) = UNION {Of(d) : d \in WindowDates(q)} BY DEF LoadedConnections
  <2>2. \A d : i \in Of(d) <=> \E c \in store.connections :
           i = Instance(d, c) /\ c.service \in ServicesOn(store, d) /\ InWindow(q, d, c)
    OBVIOUS
  <2> HIDE DEF Of
  <2> QED BY <2>1, <2>2
<1> HIDE DEF u
<1>6. ASSUME NEW d \in Days, NEW c \in store.connections
      PROVE  InWindow(q, d, c) <=> /\ WindowStart(q) <= Moment(q, Instance(d, c))
                                   /\ Moment(q, Instance(d, c)) <= WindowEnd(q)
  <2> DEFINE m == IF q.latest THEN c.arr ELSE c.dep
             A == ServiceDayAnchor(d)
  <2>1. Moment(q, Instance(d, c)) = A + m /\ m \in 0 .. MaxSeconds /\ A \in Int
    BY InstanceFacts DEF Moment
  <2>2. InWindow(q, d, c) <=> m \in LowSeconds(q, d) .. HighSeconds(q, d) BY DEF InWindow
  <2>3. LowSeconds(q, d) = IF WindowStart(q) > A THEN WindowStart(q) - A ELSE 0 BY DEF LowSeconds
  <2>4. HighSeconds(q, d) = IF WindowEnd(q) - A > MaxSeconds THEN MaxSeconds ELSE WindowEnd(q) - A
    BY DEF HighSeconds
  <2> HIDE DEF m, A
  <2>5. LowSeconds(q, d) \in Int /\ HighSeconds(q, d) \in Int BY <1>1, <1>3, <2>1, <2>3, <2>4
  <2>6. LowSeconds(q, d) <= m <=> WindowStart(q) <= A + m BY <1>1, <2>1, <2>3
  <2>7. m <= HighSeconds(q, d) <=> A + m <= WindowEnd(q) BY <1>1, <1>3, <2>1, <2>4
  <2> QED BY <2>1, <2>2, <2>5, <2>6, <2>7
<1>7. ASSUME NEW d \in Days, NEW c \in store.connections, WindowStart(q) <= Moment(q, Instance(d, c))
      PROVE  LocalDate(u) <= d
  <2> DEFINE m == IF q.latest THEN c.arr ELSE c.dep
             A == ServiceDayAnchor(d)
             l == LocalDate(u)
  <2>1. Moment(q, Instance(d, c)) = A + m /\ m \in 0 .. MaxSeconds /\ A \in Int
    BY InstanceFacts DEF Moment
  <2>2. A < Midnight[d + 1] BY AnchorNearMidnight
  <2>3. l \in Nat /\ d \in Nat /\ l \in 0 .. LastDay + 1 /\ d + 1 \in 0 .. LastDay + 1 BY <1>2, <1>3 DEF Days
  <2>4. d < l => Midnight[d + 1] <= Midnight[l] BY <2>3, MidnightsRise
  <2>5. Midnight[d + 1] \in Nat /\ Midnight[l] \in Nat BY <2>3, MidnightsRise
  <2>6. Midnight[l] <= WindowStart(q) - MaxSeconds BY <1>2 DEF u
  <2> HIDE DEF m, A, l
  <2>7. ~(d < l) BY <1>1, <1>3, <1>7, <2>1, <2>2, <2>4, <2>5, <2>6
  <2> QED BY <2>3, <2>7 DEF l
<1>8. LocalDate(u) \in Nat /\ LocalDate(WindowEnd(q)) \in Nat /\ LocalDate(WindowEnd(q)) <= LastDay
  BY <1>2, <1>3 DEF Days
<1>9. ASSUME i \in LoadedConnections(q) PROVE \E d, c : i = Instance(d, c) /\ Running(d, c, q)
  <2>1. PICK d \in WindowDates(q), c \in store.connections :
           i = Instance(d, c) /\ c.service \in ServicesOn(store, d) /\ InWindow(q, d, c)
    BY <1>5, <1>9
  <2>2. d \in Days /\ d <= LocalDate(WindowEnd(q)) BY <1>3, <1>4, <1>8 DEF Days
  <2>3. Running(d, c, q) BY <1>6, <2>1, <2>2 DEF Running
  <2> QED BY <2>1, <2>3
<1>10. ASSUME NEW d, NEW c, i = Instance(d, c), Running(d, c, q) PROVE i \in LoadedConnections(q)
  <2>1. /\ d \in Days /\ c \in store.connections /\ c.service \in ServicesOn(store, d)
        /\ d <= LocalDate(WindowEnd(q))
        /\ WindowStart(q) <= Moment(q, Instance(d, c)) /\ Moment(q, Instance(d, c)) <= WindowEnd(q)
    BY <1>10 DEF Running
  <2>2. LocalDate(u) <= d BY <1>7, <2>1
  <2>3. d \in WindowDates(q) BY <1>3, <1>4, <1>8, <2>1, <2>2 DEF Days
  <2>4. InWindow(q, d, c) BY <1>6, <2>1
  <2> QED BY <1>5, <1>10, <2>1, <2>3, <2>4
<1> QED BY <1>9, <1>10

\* Later dates begin later, whatever the clocks do.
LEMMA AnchorsRise ==
  ASSUME NEW d \in Days, NEW e \in Days, ServiceDayAnchor(d) < ServiceDayAnchor(e)
  PROVE  d < e
<1>1. LastDay \in Nat BY DaysAssumption
<1>2. d \in 0 .. LastDay + 1 /\ e \in 0 .. LastDay + 1 /\ d \in Nat /\ e \in Nat /\ e + 1 \in 0 .. LastDay + 1
  BY <1>1 DEF Days
<1>3. Midnight[d] \in Nat /\ Midnight[e] \in Nat /\ Midnight[e + 1] \in Nat BY <1>2, MidnightsRise
<1>4. Midnight[e + 1] = Midnight[e] + DayLength[e] /\ DayLength[e] \in 23 .. 25 BY MidnightSteps, DaysAssumption
<1>5. e < d => Midnight[e + 1] <= Midnight[d] BY <1>2, MidnightsRise
<1>6. /\ ServiceDayAnchor(d) \in Int /\ ServiceDayAnchor(e) \in Int
      /\ Midnight[d] - 1 <= ServiceDayAnchor(d) /\ ServiceDayAnchor(e) <= Midnight[e] + 1
  BY AnchorNearMidnight
<1>7. d # e BY <1>6
<1>8. ~(e < d) BY <1>3, <1>4, <1>5, <1>6
<1> QED BY <1>2, <1>7, <1>8

\* An instance between an arrival and a departure of the window is in it.
LEMMA BetweenIsLoaded ==
  ASSUME TimedRows(store), Linked(store), NEW q, Held(q),
         NEW a \in LoadedConnections(q), NEW b \in LoadedConnections(q),
         NEW d \in Days, NEW c \in store.connections, c.service \in ServicesOn(store, d),
         b = Instance(b.day, c), b.day \in Days,
         a.arr <= Instance(d, c).dep, Instance(d, c).dep < b.dep
  PROVE  Instance(d, c) \in LoadedConnections(q)
<1> DEFINE x == Instance(d, c)
<1>1. PICK da, ca : a = Instance(da, ca) /\ Running(da, ca, q) BY LoadedAreRunning
<1>2. PICK db, cb : b = Instance(db, cb) /\ Running(db, cb, q) BY LoadedAreRunning
<1>3. /\ WindowStart(q) \in Int /\ WindowEnd(q) \in Int /\ LocalDate(WindowEnd(q)) \in Days
      /\ WindowStart(q) <= Moment(q, a) /\ Moment(q, b) <= WindowEnd(q) /\ db <= LocalDate(WindowEnd(q))
  <2>1. /\ WindowStart(q) <= Moment(q, a) /\ Moment(q, b) <= WindowEnd(q) /\ db <= LocalDate(WindowEnd(q))
    BY <1>1, <1>2 DEF Running
  <2> QED BY <2>1, WindowHolds, LocalDateHolds
<1>4. b.day = db /\ db \in Days
  <2>1. db \in Days BY <1>2 DEF Running
  <2> QED BY <1>2, <2>1 DEF Instance
<1>5. /\ x.dep = ServiceDayAnchor(d) + c.dep /\ x.arr = ServiceDayAnchor(d) + c.arr
      /\ b.dep = ServiceDayAnchor(db) + c.dep /\ b.arr = ServiceDayAnchor(db) + c.arr
      /\ c.dep \in Int /\ c.arr \in Int /\ ServiceDayAnchor(d) \in Int /\ ServiceDayAnchor(db) \in Int
      /\ x.dep <= x.arr
  BY <1>4, InstanceFacts
<1>6. a.dep \in Int /\ a.arr \in Int /\ a.dep <= a.arr
  <2>1. da \in Days /\ ca \in store.connections BY <1>1 DEF Running
  <2> QED BY <1>1, <2>1, InstanceFacts
<1> HIDE DEF x
<1>7. a.arr <= x.dep /\ x.dep < b.dep BY DEF x
<1>8. ServiceDayAnchor(d) < ServiceDayAnchor(db) BY <1>5, <1>7
<1>9. d < db BY <1>4, <1>8, AnchorsRise
<1>10. d <= LocalDate(WindowEnd(q))
  <2>1. d \in Int /\ db \in Int /\ LocalDate(WindowEnd(q)) \in Int BY <1>3, <1>4, DaysAssumption DEF Days
  <2> QED BY <1>3, <1>9, <2>1
<1>11. WindowStart(q) <= Moment(q, x) /\ Moment(q, x) <= WindowEnd(q)
  <2>1. CASE q.latest
    <3>1. Moment(q, x) = x.arr /\ Moment(q, a) = a.arr /\ Moment(q, b) = b.arr BY <2>1 DEF Moment
    <3> QED BY <1>3, <1>5, <1>6, <1>7, <1>8, <3>1
  <2>2. CASE ~q.latest
    <3>1. Moment(q, x) = x.dep /\ Moment(q, a) = a.dep /\ Moment(q, b) = b.dep BY <2>2 DEF Moment
    <3> QED BY <1>3, <1>5, <1>6, <1>7, <1>8, <3>1
  <2> QED BY <2>1, <2>2
<1>12. Running(d, c, q) BY <1>10, <1>11 DEF Running, x
<1> QED BY <1>12, LoadedAreRunning

(***************************************************************************)
(* Continuations.                                                          *)
(***************************************************************************)
\* What is committed about trips, times and connections.
Tabled(t) == /\ KeyedTrips(t.trips) /\ TimedRows(t) /\ Linked(t)
             /\ t.links = TripLinks(t.transfers)

\* The first and the last connection of a trip are one each.
LEMMA OnlyEnds ==
  ASSUME Tabled(store), NEW c \in store.connections
  PROVE  /\ c.fromSeq = FirstSeq(c.trip) => FirstOf(c.trip) = c
         /\ c.toSeq = LastSeq(c.trip) => LastOf(c.trip) = c
<1>1. ASSUME c.fromSeq = FirstSeq(c.trip) PROVE FirstOf(c.trip) = c
  <2> DEFINE f == FirstOf(c.trip)
  <2>1. f \in store.connections /\ f.trip = c.trip /\ f.fromSeq = FirstSeq(c.trip) BY <1>1 DEF FirstOf
  <2> HIDE DEF f
  <2>2. f = c BY <1>1, <2>1, OneConnection DEF Tabled
  <2> QED BY <2>2 DEF f
<1>2. ASSUME c.toSeq = LastSeq(c.trip) PROVE LastOf(c.trip) = c
  <2> DEFINE f == LastOf(c.trip)
  <2>1. f \in store.connections /\ f.trip = c.trip /\ f.toSeq = LastSeq(c.trip) BY <1>2 DEF LastOf
  <2> HIDE DEF f
  <2>2. f = c BY <1>2, <2>1, OneConnection DEF Tabled
  <2> QED BY <2>2 DEF f
<1> QED BY <1>1, <1>2

\* What a window holds of the first connections, and the last ones.
LEMMA EndsOfWindow ==
  ASSUME Tabled(store), NEW q, Held(q)
  PROVE  /\ \A a \in Lasts(LoadedConnections(q)) :
              /\ a \in LoadedConnections(q) /\ a.day \in Days /\ a.trip \in DOMAIN store.trips
              /\ LastOf(a.trip) \in store.connections /\ LastOf(a.trip).trip = a.trip
              /\ a = Instance(a.day, LastOf(a.trip)) /\ a.to = LastOf(a.trip).to
              /\ a.toSeq = LastSeq(a.trip) /\ a.arr \in Int
         /\ \A b \in Firsts(LoadedConnections(q)) :
              /\ b \in LoadedConnections(q) /\ b.day \in Days /\ b.trip \in DOMAIN store.trips
              /\ FirstOf(b.trip) \in store.connections /\ FirstOf(b.trip).trip = b.trip
              /\ FirstOf(b.trip).service \in ServicesOn(store, b.day)
              /\ b = Instance(b.day, FirstOf(b.trip)) /\ b.from = FirstOf(b.trip).from
              /\ b.fromSeq = FirstSeq(b.trip) /\ b.dep \in Int
<1>1. TimedRows(store) /\ Linked(store) BY DEF Tabled
<1>2. ASSUME NEW a \in LoadedConnections(q)
      PROVE  \E d \in Days, c \in store.connections :
                /\ a = Instance(d, c) /\ c.service \in ServicesOn(store, d)
                /\ a.day = d /\ a.trip = c.trip /\ a.trip \in DOMAIN store.trips
                /\ a.from = c.from /\ a.to = c.to /\ a.fromSeq = c.fromSeq /\ a.toSeq = c.toSeq
                /\ a.dep \in Int /\ a.arr \in Int
  <2>1. PICK d, c : a = Instance(d, c) /\ Running(d, c, q) BY <1>1, LoadedAreRunning
  <2>2. d \in Days /\ c \in store.connections /\ c.service \in ServicesOn(store, d) BY <2>1 DEF Running
  <2>3. c.trip \in DOMAIN store.trips BY <1>1, <2>2, ConnectionTimes
  <2>4. /\ a.day = d /\ a.trip = c.trip /\ a.from = c.from /\ a.to = c.to
        /\ a.fromSeq = c.fromSeq /\ a.toSeq = c.toSeq /\ a.dep \in Int /\ a.arr \in Int
    BY <1>1, <2>1, <2>2, InstanceFacts
  <2> QED BY <2>1, <2>2, <2>3, <2>4
<1>3. ASSUME NEW a \in Lasts(LoadedConnections(q))
      PROVE  /\ a \in LoadedConnections(q) /\ a.day \in Days /\ a.trip \in DOMAIN store.trips
             /\ LastOf(a.trip) \in store.connections /\ LastOf(a.trip).trip = a.trip
             /\ a = Instance(a.day, LastOf(a.trip)) /\ a.to = LastOf(a.trip).to
             /\ a.toSeq = LastSeq(a.trip) /\ a.arr \in Int
  <2>1. a \in LoadedConnections(q) /\ a.toSeq = LastSeq(a.trip) BY DEF Lasts
  <2>2. PICK d \in Days, c \in store.connections :
                /\ a = Instance(d, c) /\ c.service \in ServicesOn(store, d)
                /\ a.day = d /\ a.trip = c.trip /\ a.trip \in DOMAIN store.trips
                /\ a.from = c.from /\ a.to = c.to /\ a.fromSeq = c.fromSeq /\ a.toSeq = c.toSeq
                /\ a.dep \in Int /\ a.arr \in Int
    BY <1>2, <2>1
  <2>3. LastOf(c.trip) = c BY <2>1, <2>2, OnlyEnds
  <2> QED BY <2>1, <2>2, <2>3
<1>4. ASSUME NEW b \in Firsts(LoadedConnections(q))
      PROVE  /\ b \in LoadedConnections(q) /\ b.day \in Days /\ b.trip \in DOMAIN store.trips
             /\ FirstOf(b.trip) \in store.connections /\ FirstOf(b.trip).trip = b.trip
             /\ FirstOf(b.trip).service \in ServicesOn(store, b.day)
             /\ b = Instance(b.day, FirstOf(b.trip)) /\ b.from = FirstOf(b.trip).from
             /\ b.fromSeq = FirstSeq(b.trip) /\ b.dep \in Int
  <2>1. b \in LoadedConnections(q) /\ b.fromSeq = FirstSeq(b.trip) BY DEF Firsts
  <2>2. PICK d \in Days, c \in store.connections :
                /\ b = Instance(d, c) /\ c.service \in ServicesOn(store, d)
                /\ b.day = d /\ b.trip = c.trip /\ b.trip \in DOMAIN store.trips
                /\ b.from = c.from /\ b.to = c.to /\ b.fromSeq = c.fromSeq /\ b.toSeq = c.toSeq
                /\ b.dep \in Int /\ b.arr \in Int
    BY <1>2, <2>1
  <2>3. FirstOf(c.trip) = c BY <2>1, <2>2, OnlyEnds
  <2> QED BY <2>1, <2>2, <2>3
<1> QED BY <1>3, <1>4

\* What a link joins.
LEMMA JoinsFacts ==
  ASSUME NEW l, NEW conns, NEW p
  PROVE  p \in Joins(l, conns) <=>
           \E a \in Lasts(conns), b \in Firsts(conns) :
              /\ p = <<a, b>>
              /\ store.trips[a.trip].id = l.fromTrip /\ store.trips[b.trip].id = l.toTrip
              /\ l.from \in {None, a.to} /\ l.to \in {None, b.from}
              /\ <<a.trip, a.day>> # <<b.trip, b.day>> /\ a.arr <= b.dep
BY DEF Joins

\* The continuations of a window, without those that a prohibition takes away.
LEMMA ContinuationFacts ==
  ASSUME NEW conns, NEW k
  PROVE  k \in LoadContinuations(conns) <=>
           /\ \E l \in store.links : \E p \in NextJoins(l, conns) : k = Continuation(l, p)
           /\ k.type = StayTransfer =>
                ~\E l \in store.links : \E p \in NextJoins(l, conns) :
                   Continuation(l, p).type = LeaveTransfer /\ SamePair(Continuation(l, p), k)
<1> DEFINE Of(l) == {Continuation(l, p) : p \in NextJoins(l, conns)}
           all == UNION {Of(l) : l \in store.links}
<1>1. LoadContinuations(conns) =
        {x \in all : x.type = StayTransfer => ~\E f \in all : f.type = LeaveTransfer /\ SamePair(f, x)}
  BY DEF LoadContinuations
<1>2. \A x : x \in all <=> \E l \in store.links : x \in Of(l) BY Zenon
<1>3. \A x, l : x \in Of(l) <=> \E p \in NextJoins(l, conns) : x = Continuation(l, p) BY Zenon
<1> HIDE DEF Of, all
<1>4. \A x : x \in all <=> \E l \in store.links : \E p \in NextJoins(l, conns) : x = Continuation(l, p)
  BY <1>2, <1>3
<1>5. (\E f \in all : f.type = LeaveTransfer /\ SamePair(f, k))
        <=> \E l \in store.links : \E p \in NextJoins(l, conns) :
               Continuation(l, p).type = LeaveTransfer /\ SamePair(Continuation(l, p), k)
  <2> DEFINE P(f) == f.type = LeaveTransfer /\ SamePair(f, k)
  <2>1. SUFFICES (\E f \in all : P(f)) <=> \E l \in store.links : \E p \in NextJoins(l, conns) : P(Continuation(l, p))
    BY Zenon
  <2> HIDE DEF P
  <2>2. ASSUME NEW f \in all, P(f)
        PROVE  \E l \in store.links : \E p \in NextJoins(l, conns) : P(Continuation(l, p))
    BY <1>4, <2>2
  <2>3. ASSUME NEW l \in store.links, NEW p \in NextJoins(l, conns), P(Continuation(l, p))
        PROVE  \E f \in all : P(f)
    BY <1>4, <2>3
  <2> QED BY <2>2, <2>3
<1> QED BY <1>1, <1>4, <1>5

\* No instance of the next trip departs in between, in the window or not.
LEMMA NothingBetween ==
  ASSUME Tabled(store), NEW q, Held(q), NEW l, NEW a, NEW b, <<a, b>> \in NextJoins(l, LoadedConnections(q)),
         NEW d \in Days, FirstOf(b.trip).service \in ServicesOn(store, d),
         <<a.trip, a.day>> # <<b.trip, d>>, a.arr <= Instance(d, FirstOf(b.trip)).dep
  PROVE  b.dep <= Instance(d, FirstOf(b.trip)).dep
<1> DEFINE conns == LoadedConnections(q)
           c == FirstOf(b.trip)
           x == Instance(d, c)
<1>1. TimedRows(store) /\ Linked(store) BY DEF Tabled
<1>2. <<a, b>> \in Joins(l, conns) /\ \A o \in Joins(l, conns) : o[1] = a => b.dep <= o[2].dep
  BY DEF NextJoins
<1>3. /\ a \in Lasts(conns) /\ b \in Firsts(conns)
      /\ store.trips[a.trip].id = l.fromTrip /\ store.trips[b.trip].id = l.toTrip
      /\ l.from \in {None, a.to} /\ l.to \in {None, b.from}
  BY <1>2, JoinsFacts
<1>4. /\ a \in conns /\ b \in conns /\ b.day \in Days /\ c \in store.connections /\ c.trip = b.trip
      /\ b = Instance(b.day, c) /\ b.from = c.from /\ b.fromSeq = FirstSeq(b.trip) /\ b.dep \in Int
  BY <1>3, EndsOfWindow
<1> HIDE DEF conns, c
<1>5. x.day = d /\ x.trip = b.trip /\ x.from = b.from /\ x.fromSeq = FirstSeq(x.trip) /\ x.dep \in Int
  <2>1. /\ x.day = d /\ x.trip = c.trip /\ x.from = c.from /\ x.fromSeq = c.fromSeq /\ x.dep \in Int
    BY <1>1, <1>4, InstanceFacts
  <2>2. b.fromSeq = c.fromSeq BY <1>1, <1>4, InstanceFacts
  <2> QED BY <1>4, <2>1, <2>2
<1>6. SUFFICES ASSUME x.dep < b.dep PROVE FALSE
  <2>1. ~(x.dep < b.dep) => b.dep <= x.dep BY <1>4, <1>5
  <2> QED BY <1>6, <2>1 DEF c
<1>7. x \in conns
  <2>1. c.service \in ServicesOn(store, d) /\ a.arr <= Instance(d, c).dep BY DEF c
  <2> QED BY <1>1, <1>4, <1>6, <2>1, BetweenIsLoaded DEF conns
<1>8. a.arr <= x.dep BY DEF c
<1> HIDE DEF x
<1>9. x \in Firsts(conns) BY <1>5, <1>7 DEF Firsts
<1>10. <<a, x>> \in Joins(l, conns) BY <1>3, <1>5, <1>8, <1>9, JoinsFacts
<1>11. b.dep <= x.dep
  <2>1. <<a, x>>[1] = a /\ <<a, x>>[2] = x OBVIOUS
  <2> QED BY <1>2, <1>10, <2>1
<1> QED BY <1>4, <1>5, <1>6, <1>11

\* A window is of what is compiled when it is asked for, and stays so.
LEMMA StepQueryInv ==
  ASSUME QueryInv, [WindowNext]_<<compilerVars, windowVars>>
  PROVE  QueryInv'
<1>1. CASE UNCHANGED <<query, window>>
  <2>1. SUFFICES ASSUME query # None PROVE QueryInv'
    BY <1>1 DEF QueryInv
  <2>2. PICK q \in Queries :
          /\ query = q
          /\ window # NoWindow => /\ window.connections = LoadedConnections(q)
                                  /\ window.continuations = LoadContinuations(LoadedConnections(q))
          /\ window = NoWindow => LoadedConnections(q) = {}
    BY <2>1 DEF QueryInv
  <2>3. outcome = "compiled" BY <2>1 DEF QueryInv
  <2>4. outcome' = outcome /\ store' = store BY <2>3, CompiledStays, QueriesOnlyRead DEF compilerVars
  <2>5. /\ LoadedConnections(q)' = LoadedConnections(q)
        /\ LoadContinuations(LoadedConnections(q))' = LoadContinuations(LoadedConnections(q))
    BY <2>4, SameTablesSameWindow
  <2> QED BY <1>1, <2>2, <2>3, <2>4, <2>5 DEF QueryInv
<1>2. CASE \E q \in Queries : LoadTimetableWindow(q)
  <2>1. PICK q \in Queries : LoadTimetableWindow(q) BY <1>2
  <2>2. /\ outcome = "compiled" /\ outcome' = outcome /\ store' = store
        /\ query' = q /\ window' = Load(q)
    BY <2>1 DEF LoadTimetableWindow, compilerVars
  <2>3. /\ LoadedConnections(q)' = LoadedConnections(q)
        /\ LoadContinuations(LoadedConnections(q))' = LoadContinuations(LoadedConnections(q))
    BY <2>2, SameTablesSameWindow
  <2>4. /\ Load(q) # NoWindow => /\ Load(q).connections = LoadedConnections(q)
                                 /\ Load(q).continuations = LoadContinuations(LoadedConnections(q))
        /\ Load(q) = NoWindow => LoadedConnections(q) = {}
    <3> DEFINE conns == LoadedConnections(q)
               walk == LoadWalking
               rules == LoadRules(conns)
               continuations == LoadContinuations(conns)
               full == [connections |-> conns, walk |-> walk, rules |-> rules, continuations |-> continuations]
    <3>1. (Load(q) = NoWindow /\ conns = {}) \/ Load(q) = full BY DEF Load
    <3> HIDE DEF conns, walk, rules, continuations
    <3>2. full.connections = conns /\ full.continuations = continuations OBVIOUS
    <3>3. full # NoWindow
      <4>1. DOMAIN full = {"connections", "walk", "rules", "continuations"} OBVIOUS
      <4>2. DOMAIN NoWindow = {"error"} BY DEF NoWindow
      <4> HIDE DEF full
      <4> QED BY <4>1, <4>2
    <3> HIDE DEF full
    <3> QED BY <3>1, <3>2, <3>3 DEF conns, continuations
  <2>5. /\ window' # NoWindow => /\ window'.connections = LoadedConnections(q)'
                                 /\ window'.continuations = LoadContinuations(LoadedConnections(q))'
        /\ window' = NoWindow => LoadedConnections(q)' = {}
    BY <2>2, <2>3, <2>4
  <2> QED BY <2>2, <2>5 DEF QueryInv
<1> QED BY <1>1, <1>2 DEF WindowNext, windowVars

\* The inductive invariant is kept by each step of the compiler and each query.
LEMMA StepWindowInv == WindowInv /\ [WindowNext]_<<compilerVars, windowVars>> => WindowInv'
<1> SUFFICES ASSUME WindowInv, [WindowNext]_<<compilerVars, windowVars>> PROVE WindowInv'
  OBVIOUS
<1>1. IInv /\ WalksInv /\ RowsInv /\ Shaped /\ QueryInv BY DEF WindowInv
<1>2. [CompilerNext]_compilerVars BY QueriesOnlyRead
<1>3. IInv' BY <1>1, <1>2, StepIInv
<1>4. WalksInv' BY <1>1, <1>2, StepWalksInv
<1>5. RowsInv' BY <1>1, <1>2, StepRowsInv
<1>6. Shaped' BY <1>1, <1>2, <1>3, ShapeKept
<1>7. QueryInv' BY <1>1, StepQueryInv
<1> QED BY <1>3, <1>4, <1>5, <1>6, <1>7 DEF WindowInv

\* The inductive invariant holds at first.
LEMMA InitWindowInv == WindowInit => WindowInv
<1> SUFFICES ASSUME WindowInit PROVE WindowInv
  OBVIOUS
<1>1. Init /\ query = None BY DEF WindowInit
<1>2. WalksInv BY <1>1 DEF Init, WalksInv, NoRows, OneStopPerId, StopsInOrder, FromFeed
<1>3. Shaped
  <2>1. archive \in Archives /\ feed = 1 /\ store = NoRows /\ outcome = "running" BY <1>1 DEF Init
  <2>2. archive # <<>> => 1 \in DOMAIN archive
    <3> DEFINE S == {archive[i] : i \in DOMAIN archive}
    <3>1. archive \in Seq(S) BY <2>1, ArchivesAssumption
    <3> HIDE DEF S
    <3>2. Len(archive) \in Nat /\ DOMAIN archive = 1 .. Len(archive) /\ (Len(archive) = 0 => archive = <<>>)
      BY <3>1
    <3> QED BY <3>2
  <2> QED BY <2>1, <2>2 DEF Shaped
<1>4. QueryInv BY <1>1 DEF QueryInv
<1> QED BY <1>1, <1>2, <1>3, <1>4, InitIInv, InitRowsInv DEF WindowInv

\* What is compiled, and what was loaded of it last, stay as described.
THEOREM WindowInvIsInvariant == WindowSpec => []WindowInv
BY InitWindowInv, StepWindowInv, PTL DEF WindowSpec

\* The transaction is all or nothing: what a failed compilation had compiled is
\* gone, rows refer to rows, and only a compiled generation is asked.
THEOREM WindowIsTyped == WindowSpec => []WindowTypeOK
<1>1. WindowInv => WindowTypeOK
  <2> SUFFICES ASSUME WindowInv PROVE WindowTypeOK
    OBVIOUS
  <2>1. outcome \in {"running", "compiled", "failed"} /\ ValidateResolvedDataset(tx) BY DEF WindowInv, IInv
  <2>2. \A i \in DOMAIN tx.times : tx.times[i].trip \in DOMAIN tx.trips
    BY <2>1 DEF ValidateResolvedDataset, ValidTime
  <2>3. \A c \in tx.connections : c.trip \in DOMAIN tx.trips /\ c.fromSeq < c.toSeq
    BY <2>1 DEF ValidateResolvedDataset, ValidConnection
  <2>4. query # None => query \in Queries /\ outcome = "compiled" BY DEF WindowInv, QueryInv
  <2> QED BY <2>1, <2>2, <2>3, <2>4 DEF WindowInv, Shaped, WindowTypeOK
<1> QED BY <1>1, WindowInvIsInvariant, PTL

\* Freshness and the planner may trust the coverage of a generation: no service
\* runs on a day outside it (coverageTx).
THEOREM CoverageIsTrusted == WindowSpec => []NothingRunsOutsideCoverage
<1>1. WindowInv => NothingRunsOutsideCoverage
  <2> SUFFICES ASSUME WindowInv, outcome = "compiled"
               PROVE  /\ store.coverage.start <= store.coverage.end
                      /\ \A d \in Days : ServicesOn(store, d) # {} =>
                           store.coverage.start <= d /\ d <= store.coverage.end
    BY DEF NothingRunsOutsideCoverage
  <2>1. Dated(store) /\ CoveredDates(store) # {} /\ store.coverage = Coverage(store) BY DEF WindowInv, RowsInv
  <2>2. \A d \in Days : d \in Int BY DaysAssumption DEF Days
  <2> QED BY <2>1, <2>2, CoverageHolds, RunsWhenCovered
<1> QED BY <1>1, WindowInvIsInvariant, PTL

\* What an answered query is of.
LEMMA Answers ==
  ASSUME WindowInv, query # None
  PROVE  /\ query \in Queries /\ Held(query) /\ Tabled(store)
         /\ window # NoWindow => /\ window.connections = LoadedConnections(query)
                                 /\ window.continuations = LoadContinuations(LoadedConnections(query))
         /\ window = NoWindow => LoadedConnections(query) = {}
<1>1. outcome = "compiled" BY DEF WindowInv, QueryInv
<1>2. Tabled(store) BY <1>1 DEF WindowInv, RowsInv, Tabled
<1> QED BY <1>2, QueriesAssumption DEF WindowInv, QueryInv

\* A timetable misses no run of its window: whatever the clocks do, and however
\* late the service day before runs on (serviceDatesForWindow, LoadTimetable).
THEOREM WindowsAreComplete == WindowSpec => []NothingMissed
<1>1. WindowInv => NothingMissed
  <2> SUFFICES ASSUME WindowInv, query # None, NEW d \in Days, d <= LocalDate(WindowEnd(query)),
                      NEW i \in Runs(query, d)
               PROVE  Answered(i)
    BY DEF NothingMissed
  <2>1. query \in Queries /\ TimedRows(store) /\ Linked(store) BY Answers DEF Tabled
  <2>2. PICK c \in store.connections :
          /\ c.service \in ServicesOn(store, d) /\ i = Instance(d, c)
          /\ WindowStart(query) <= Moment(query, i) /\ Moment(query, i) <= WindowEnd(query)
    BY DEF Runs
  <2>3. Running(d, c, query) BY <2>2 DEF Running
  <2>4. i \in LoadedConnections(query) BY <2>1, <2>2, <2>3, LoadedAreRunning, QueriesAssumption
  <2> QED BY <2>4, Answers DEF Answered
<1> QED BY <1>1, WindowInvIsInvariant, PTL

\* Link l leads from connection a of a window to its next run b.
Leads(l, conns, p, a, b) ==
  /\ p = <<a, b>> /\ <<a, b>> \in Joins(l, conns)
  /\ \A y : <<a, y>> \in Joins(l, conns) => b.dep <= y.dep
  /\ store.trips[a.trip].id = l.fromTrip /\ store.trips[b.trip].id = l.toTrip
  /\ l.from \in {None, a.to} /\ l.to \in {None, b.from}
  /\ <<a.trip, a.day>> # <<b.trip, b.day>> /\ a.arr <= b.dep
  /\ Continuation(l, p).fromDay = a.day /\ Continuation(l, p).fromTrip = a.trip
  /\ Continuation(l, p).toDay = b.day /\ Continuation(l, p).toTrip = b.trip
  /\ Continuation(l, p).type = l.type

\* A continuation is of a link and of two connections of the window.
LEMMA ContinuationPair ==
  ASSUME NEW conns, NEW l, NEW p \in NextJoins(l, conns)
  PROVE  \E a \in Lasts(conns), b \in Firsts(conns) : Leads(l, conns, p, a, b)
<1>1. p \in Joins(l, conns) /\ \A o \in Joins(l, conns) : o[1] = p[1] => p[2].dep <= o[2].dep
  BY DEF NextJoins
<1>2. PICK a \in Lasts(conns), b \in Firsts(conns) :
              /\ p = <<a, b>>
              /\ store.trips[a.trip].id = l.fromTrip /\ store.trips[b.trip].id = l.toTrip
              /\ l.from \in {None, a.to} /\ l.to \in {None, b.from}
              /\ <<a.trip, a.day>> # <<b.trip, b.day>> /\ a.arr <= b.dep
  BY <1>1, JoinsFacts
<1>3. p[1] = a /\ p[2] = b BY <1>2
<1>4. \A y : <<a, y>> \in Joins(l, conns) => b.dep <= y.dep
  <2>1. TAKE y
  <2>2. <<a, y>>[1] = a /\ <<a, y>>[2] = y OBVIOUS
  <2> QED BY <1>1, <1>3, <2>2
<1>5. /\ Continuation(l, p).fromDay = a.day /\ Continuation(l, p).fromTrip = a.trip
      /\ Continuation(l, p).toDay = b.day /\ Continuation(l, p).toTrip = b.trip
      /\ Continuation(l, p).type = l.type
  BY <1>3 DEF Continuation
<1>6. Leads(l, conns, p, a, b) BY <1>1, <1>2, <1>4, <1>5 DEF Leads
<1> QED BY <1>6

\* Staying on board leads to the next run of the linked trip, of all that the feed
\* has: none of those that the window leaves out departs in between
\* (loadContinuations).
THEOREM StayingOnIsNext == WindowSpec => []StayOnIsTheNextRun
<1>1. WindowInv => StayOnIsTheNextRun
  <2> SUFFICES ASSUME WindowInv, query # None, window # NoWindow, NEW k \in window.continuations, NEW d \in Days,
                      FirstOf(k.toTrip).service \in ServicesOn(store, d),
                      <<k.toTrip, d>> # <<k.fromTrip, k.fromDay>>,
                      Instance(k.fromDay, LastOf(k.fromTrip)).arr <= Instance(d, FirstOf(k.toTrip)).dep,
                      Instance(d, FirstOf(k.toTrip)).dep < Instance(k.toDay, FirstOf(k.toTrip)).dep
               PROVE  FALSE
    BY DEF StayOnIsTheNextRun
  <2> DEFINE conns == LoadedConnections(query)
  <2>1. query \in Queries /\ Held(query) /\ Tabled(store) /\ k \in LoadContinuations(conns) BY Answers
  <2>2. PICK l \in store.links : \E p \in NextJoins(l, conns) : k = Continuation(l, p)
    BY <2>1, ContinuationFacts
  <2>3. PICK p \in NextJoins(l, conns) : k = Continuation(l, p) BY <2>2
  <2>4. PICK a \in Lasts(conns), b \in Firsts(conns) : Leads(l, conns, p, a, b) BY ContinuationPair
  <2>5. /\ p = <<a, b>>
        /\ k.fromDay = a.day /\ k.fromTrip = a.trip /\ k.toDay = b.day /\ k.toTrip = b.trip
    BY <2>3, <2>4 DEF Leads
  <2>6. a = Instance(a.day, LastOf(a.trip)) BY <2>1, EndsOfWindow
  <2>7. b = Instance(b.day, FirstOf(b.trip)) /\ b.dep \in Int /\ FirstOf(b.trip) \in store.connections
    BY <2>1, EndsOfWindow
  <2>8. <<a, b>> \in NextJoins(l, conns) BY <2>3, <2>5
  <2>9. Instance(d, FirstOf(b.trip)).dep \in Int BY <2>1, <2>7, InstanceFacts DEF Tabled
  <2> DEFINE x == Instance(d, FirstOf(b.trip))
  <2>10. a.arr <= x.dep /\ x.dep < b.dep BY <2>5, <2>6, <2>7
  <2>11. <<a.trip, a.day>> # <<b.trip, d>> BY <2>5
  <2>12. FirstOf(b.trip).service \in ServicesOn(store, d) BY <2>5
  <2>13. b.dep <= x.dep BY <2>1, <2>8, <2>10, <2>11, <2>12, NothingBetween
  <2> HIDE DEF x
  <2> QED BY <2>7, <2>9, <2>10, <2>13 DEF x
<1> QED BY <1>1, WindowInvIsInvariant, PTL

\* A link is of one trip of the first connections of a window and one only.
LEMMA SameTrip ==
  ASSUME Tabled(store), NEW q, Held(q), NEW r, Held(r),
         NEW b \in Firsts(LoadedConnections(q)), NEW o \in Firsts(LoadedConnections(r)),
         store.trips[b.trip].id = store.trips[o.trip].id
  PROVE  o.trip = b.trip /\ o.from = b.from
<1>1. b.trip \in DOMAIN store.trips /\ b.from = FirstOf(b.trip).from BY EndsOfWindow
<1>2. o.trip \in DOMAIN store.trips /\ o.from = FirstOf(o.trip).from BY EndsOfWindow
<1>3. o.trip = b.trip BY <1>1, <1>2 DEF Tabled, KeyedTrips
<1> QED BY <1>1, <1>2, <1>3

\* A prohibition is a link, whatever else is said of its ends.
LEMMA ProhibitionsAreLinks ==
  ASSUME Tabled(store), NEW r \in store.transfers, r.type = LeaveTransfer
  PROVE  \E l \in store.links : /\ l.fromTrip = r.fromTrip /\ l.toTrip = r.toTrip
                                /\ l.from = r.from /\ l.to = r.to /\ l.type = LeaveTransfer
<1> DEFINE linked == {t \in store.transfers : t.type \in {StayTransfer, LeaveTransfer}}
           Ends(t) == <<t.fromTrip, t.toTrip, t.from, t.to>>
           Link(t) == [fromTrip |-> t.fromTrip, toTrip |-> t.toTrip, from |-> t.from, to |-> t.to, type |-> t.type]
           most == {x \in linked : \A y \in linked : Ends(y) = Ends(x) => y.type <= x.type}
<1>1. store.links = {Link(t) : t \in most} BY DEF Tabled, TripLinks
<1>2. r \in linked BY DEF LeaveTransfer
<1>3. \A y \in linked : y.type <= r.type BY DEF StayTransfer, LeaveTransfer
<1>4. r \in most BY <1>2, <1>3
<1> HIDE DEF most
<1>5. Link(r) \in store.links BY <1>1, <1>4
<1>6. /\ Link(r).fromTrip = r.fromTrip /\ Link(r).toTrip = r.toTrip
      /\ Link(r).from = r.from /\ Link(r).to = r.to /\ Link(r).type = LeaveTransfer
  OBVIOUS
<1> QED BY <1>5, <1>6

\* Passengers told to leave are not kept on board by a permission for the same
\* trips, whatever ends the two rules name or leave open (loadContinuations).
THEOREM ProhibitionsSeparate == WindowSpec => []ForbiddenStaysSeparate
<1>1. WindowInv => ForbiddenStaysSeparate
  <2> SUFFICES ASSUME WindowInv, query # None, window # NoWindow,
                      NEW k \in window.continuations, NEW r \in store.transfers,
                      k.type = StayTransfer, r.type = LeaveTransfer,
                      store.trips[k.fromTrip].id = r.fromTrip, store.trips[k.toTrip].id = r.toTrip,
                      r.from \in {None, LastOf(k.fromTrip).to}, r.to \in {None, FirstOf(k.toTrip).from}
               PROVE  FALSE
    BY DEF ForbiddenStaysSeparate
  <2> DEFINE conns == LoadedConnections(query)
  <2>1. query \in Queries /\ Held(query) /\ Tabled(store) /\ k \in LoadContinuations(conns) BY Answers
  <2>2. PICK l \in store.links : \E p \in NextJoins(l, conns) : k = Continuation(l, p)
    BY <2>1, ContinuationFacts
  <2>3. PICK p \in NextJoins(l, conns) : k = Continuation(l, p) BY <2>2
  <2>4. PICK a \in Lasts(conns), b \in Firsts(conns) : Leads(l, conns, p, a, b) BY ContinuationPair
  <2>5. /\ p = <<a, b>> /\ \A y : <<a, y>> \in Joins(l, conns) => b.dep <= y.dep
        /\ store.trips[a.trip].id = l.fromTrip /\ store.trips[b.trip].id = l.toTrip
        /\ l.from \in {None, a.to} /\ l.to \in {None, b.from}
        /\ <<a.trip, a.day>> # <<b.trip, b.day>> /\ a.arr <= b.dep
        /\ k.fromDay = a.day /\ k.fromTrip = a.trip /\ k.toDay = b.day /\ k.toTrip = b.trip
    BY <2>3, <2>4 DEF Leads
  <2>6. PICK f \in store.links : /\ f.fromTrip = r.fromTrip /\ f.toTrip = r.toTrip
                                 /\ f.from = r.from /\ f.to = r.to /\ f.type = LeaveTransfer
    BY <2>1, ProhibitionsAreLinks
  <2>7. a.to = LastOf(a.trip).to /\ b.from = FirstOf(b.trip).from BY <2>1, EndsOfWindow
  <2>8. /\ store.trips[a.trip].id = f.fromTrip /\ store.trips[b.trip].id = f.toTrip
        /\ f.from \in {None, a.to} /\ f.to \in {None, b.from}
    BY <2>5, <2>6, <2>7
  <2>9. <<a, b>> \in Joins(f, conns) BY <2>5, <2>8, JoinsFacts
  <2>10. ASSUME NEW o \in Joins(f, conns), o[1] = a PROVE b.dep <= o[2].dep
    <3>1. PICK x \in Lasts(conns), y \in Firsts(conns) :
            /\ o = <<x, y>> /\ store.trips[y.trip].id = f.toTrip
            /\ <<x.trip, x.day>> # <<y.trip, y.day>> /\ x.arr <= y.dep
      BY JoinsFacts
    <3>2. x = a /\ o[2] = y BY <2>10, <3>1
    <3>3. y.from = b.from /\ y.trip = b.trip BY <2>1, <2>8, <3>1, SameTrip
    <3>4. <<a, y>> \in Joins(l, conns) BY <2>5, <3>1, <3>2, <3>3, JoinsFacts
    <3> QED BY <2>5, <3>2, <3>4
  <2>11. <<a, b>>[1] = a /\ <<a, b>>[2] = b OBVIOUS
  <2>12. <<a, b>> \in NextJoins(f, conns) BY <2>9, <2>10, <2>11 DEF NextJoins
  <2>13. Continuation(f, <<a, b>>).type = LeaveTransfer /\ SamePair(Continuation(f, <<a, b>>), k)
    BY <2>5, <2>6 DEF Continuation, SamePair
  <2> HIDE DEF conns
  <2> QED BY <2>1, <2>6, <2>12, <2>13, ContinuationFacts
<1> QED BY <1>1, WindowInvIsInvariant, PTL

\* A wider window holds what a narrower one from the same instant does.
LEMMA WiderHoldsMore ==
  ASSUME Tabled(store), NEW q, Held(q), NEW w, Held(w),
         w.at = q.at, w.latest = q.latest, w.horizon >= q.horizon
  PROVE  /\ LoadedConnections(q) \subseteq LoadedConnections(w)
         /\ Lasts(LoadedConnections(q)) \subseteq Lasts(LoadedConnections(w))
         /\ Firsts(LoadedConnections(q)) \subseteq Firsts(LoadedConnections(w))
<1>1. TimedRows(store) /\ Linked(store) BY DEF Tabled
<1>2. /\ q.at \in Int /\ q.horizon \in Nat /\ q.latest \in BOOLEAN /\ w.horizon \in Nat
  BY DEF Held
<1>3. WindowStart(w) <= WindowStart(q) /\ WindowEnd(q) <= WindowEnd(w)
  BY <1>2 DEF WindowStart, WindowEnd
<1>4. /\ WindowStart(q) \in Int /\ WindowEnd(q) \in Int /\ 0 <= WindowEnd(q) /\ WindowEnd(q) < Midnight[LastDay + 1]
      /\ WindowStart(w) \in Int /\ WindowEnd(w) \in Int /\ 0 <= WindowEnd(w) /\ WindowEnd(w) < Midnight[LastDay + 1]
  BY WindowHolds
<1>5. ASSUME NEW i \in LoadedConnections(q) PROVE i \in LoadedConnections(w)
  <2>1. PICK d, c : i = Instance(d, c) /\ Running(d, c, q) BY <1>1, LoadedAreRunning
  <2>2. /\ d \in Days /\ c \in store.connections /\ c.service \in ServicesOn(store, d)
        /\ d <= LocalDate(WindowEnd(q))
        /\ WindowStart(q) <= Moment(q, i) /\ Moment(q, i) <= WindowEnd(q)
    BY <2>1 DEF Running
  <2>3. Midnight[d] <= WindowEnd(q) /\ Midnight[d] \in Nat BY <1>4, <2>2, DatesInOrder
  <2>4. Midnight[d] <= WindowEnd(w) BY <1>3, <1>4, <2>3
  <2>5. d <= LocalDate(WindowEnd(w)) BY <1>4, <2>2, <2>4, DatesInOrder
  <2>6. Moment(w, i) = Moment(q, i) BY DEF Moment
  <2>7. Moment(q, i) \in Int
    <3>1. i.dep \in Int /\ i.arr \in Int BY <1>1, <2>1, <2>2, InstanceFacts
    <3> QED BY <3>1 DEF Moment
  <2>8. WindowStart(w) <= Moment(w, i) /\ Moment(w, i) <= WindowEnd(w)
    BY <1>3, <1>4, <2>2, <2>6, <2>7
  <2>9. Running(d, c, w) BY <2>1, <2>2, <2>5, <2>8 DEF Running
  <2> QED BY <1>1, <2>1, <2>9, LoadedAreRunning
<1> QED BY <1>5 DEF Lasts, Firsts

\* What a link joins in a window, it joins in a wider one, and to the same run.
LEMMA WiderJoinsTheSame ==
  ASSUME Tabled(store), NEW q, Held(q), NEW w, Held(w),
         w.at = q.at, w.latest = q.latest, w.horizon >= q.horizon,
         NEW l, NEW p \in NextJoins(l, LoadedConnections(q))
  PROVE  p \in NextJoins(l, LoadedConnections(w))
<1> DEFINE narrow == LoadedConnections(q)
           wide == LoadedConnections(w)
<1>1. PICK a \in Lasts(narrow), b \in Firsts(narrow) : Leads(l, narrow, p, a, b) BY ContinuationPair
<1>2. /\ p = <<a, b>>
      /\ store.trips[a.trip].id = l.fromTrip /\ store.trips[b.trip].id = l.toTrip
      /\ l.from \in {None, a.to} /\ l.to \in {None, b.from}
      /\ <<a.trip, a.day>> # <<b.trip, b.day>> /\ a.arr <= b.dep
  BY <1>1 DEF Leads
<1>3. a \in Lasts(wide) /\ b \in Firsts(wide) BY WiderHoldsMore
<1>4. p \in Joins(l, wide) BY <1>2, <1>3, JoinsFacts
<1>5. ASSUME NEW o \in Joins(l, wide), o[1] = p[1] PROVE p[2].dep <= o[2].dep
  <2>1. PICK x \in Lasts(wide), y \in Firsts(wide) :
          /\ o = <<x, y>> /\ store.trips[y.trip].id = l.toTrip
          /\ <<x.trip, x.day>> # <<y.trip, y.day>> /\ x.arr <= y.dep
    BY JoinsFacts
  <2>2. x = a /\ o[2] = y /\ p[2] = b BY <1>2, <1>5, <2>1
  <2>3. y.trip = b.trip BY <1>2, <2>1, SameTrip
  <2>4. /\ y.day \in Days /\ y = Instance(y.day, FirstOf(y.trip))
        /\ FirstOf(y.trip).service \in ServicesOn(store, y.day)
    BY EndsOfWindow
  <2>5. <<a, b>> \in NextJoins(l, narrow) BY <1>2
  <2>6. /\ FirstOf(b.trip).service \in ServicesOn(store, y.day)
        /\ <<a.trip, a.day>> # <<b.trip, y.day>> /\ a.arr <= Instance(y.day, FirstOf(b.trip)).dep
        /\ Instance(y.day, FirstOf(b.trip)) = y
    BY <2>1, <2>2, <2>3, <2>4
  <2>7. b.dep <= Instance(y.day, FirstOf(b.trip)).dep BY <2>4, <2>5, <2>6, NothingBetween
  <2> QED BY <2>2, <2>6, <2>7
<1> QED BY <1>4, <1>5 DEF NextJoins

\* A prohibition that a wider window brings up for two instances of a narrower one
\* is in the narrower one.
LEMMA NoNewProhibition ==
  ASSUME Tabled(store), NEW q, Held(q), NEW w, Held(w),
         w.at = q.at, w.latest = q.latest, w.horizon >= q.horizon,
         NEW l, NEW p \in NextJoins(l, LoadedConnections(q)),
         NEW f, NEW o \in NextJoins(f, LoadedConnections(w)),
         SamePair(Continuation(f, o), Continuation(l, p))
  PROVE  p \in NextJoins(f, LoadedConnections(q)) /\ Continuation(f, p) = Continuation(f, o)
<1> DEFINE narrow == LoadedConnections(q)
           wide == LoadedConnections(w)
<1>1. PICK a \in Lasts(narrow), b \in Firsts(narrow) : Leads(l, narrow, p, a, b) BY ContinuationPair
<1>2. /\ p = <<a, b>>
      /\ Continuation(l, p).fromDay = a.day /\ Continuation(l, p).fromTrip = a.trip
      /\ Continuation(l, p).toDay = b.day /\ Continuation(l, p).toTrip = b.trip
  BY <1>1 DEF Leads
<1>3. PICK x \in Lasts(wide), y \in Firsts(wide) : Leads(f, wide, o, x, y) BY ContinuationPair
<1>4. /\ o = <<x, y>> /\ <<x, y>> \in Joins(f, wide)
      /\ \A z : <<x, z>> \in Joins(f, wide) => y.dep <= z.dep
      /\ store.trips[x.trip].id = f.fromTrip /\ store.trips[y.trip].id = f.toTrip
      /\ f.from \in {None, x.to} /\ f.to \in {None, y.from}
      /\ <<x.trip, x.day>> # <<y.trip, y.day>> /\ x.arr <= y.dep
      /\ Continuation(f, o).fromDay = x.day /\ Continuation(f, o).fromTrip = x.trip
      /\ Continuation(f, o).toDay = y.day /\ Continuation(f, o).toTrip = y.trip
  BY <1>3 DEF Leads
<1>5. a.day = x.day /\ a.trip = x.trip /\ b.day = y.day /\ b.trip = y.trip BY <1>2, <1>4 DEF SamePair
<1>6. a = Instance(a.day, LastOf(a.trip)) /\ b = Instance(b.day, FirstOf(b.trip)) BY EndsOfWindow
<1>7. x = Instance(x.day, LastOf(x.trip)) /\ y = Instance(y.day, FirstOf(y.trip)) BY EndsOfWindow
<1>8. a = x /\ b = y /\ p = o BY <1>2, <1>4, <1>5, <1>6, <1>7
<1>9. <<a, b>> \in Joins(f, narrow) BY <1>4, <1>8, JoinsFacts
<1>10. ASSUME NEW z \in Joins(f, narrow), z[1] = a PROVE b.dep <= z[2].dep
  <2>1. PICK u \in Lasts(narrow), v \in Firsts(narrow) :
          /\ z = <<u, v>>
          /\ store.trips[u.trip].id = f.fromTrip /\ store.trips[v.trip].id = f.toTrip
          /\ f.from \in {None, u.to} /\ f.to \in {None, v.from}
          /\ <<u.trip, u.day>> # <<v.trip, v.day>> /\ u.arr <= v.dep
    BY JoinsFacts
  <2>2. u \in Lasts(wide) /\ v \in Firsts(wide) BY WiderHoldsMore
  <2>3. <<u, v>> \in Joins(f, wide) BY <2>1, <2>2, JoinsFacts
  <2>4. u = x /\ z[2] = v BY <1>8, <1>10, <2>1
  <2> QED BY <1>4, <1>8, <2>3, <2>4
<1>11. p[1] = a /\ p[2] = b /\ p \in Joins(f, narrow) BY <1>2, <1>9
<1>12. p \in NextJoins(f, narrow) BY <1>10, <1>11 DEF NextJoins
<1> QED BY <1>8, <1>12

\* A wider window takes no continuation away: what the planner could do within a
\* narrow horizon it can do within each that it tries next (loadContinuations).
THEOREM WideningLosesNothing == WindowSpec => []WiderKeepsContinuations
<1>1. WindowInv => WiderKeepsContinuations
  <2> SUFFICES ASSUME WindowInv, query # None, window # NoWindow, NEW w \in Queries,
                      w.at = query.at, w.latest = query.latest, w.horizon >= query.horizon
               PROVE  /\ window.connections \subseteq LoadedConnections(w)
                      /\ window.continuations \subseteq LoadContinuations(LoadedConnections(w))
    BY DEF WiderKeepsContinuations
  <2> DEFINE narrow == LoadedConnections(query)
             wide == LoadedConnections(w)
  <2>1. /\ query \in Queries /\ Held(query) /\ Held(w) /\ Tabled(store) /\ window.connections = narrow
        /\ window.continuations = LoadContinuations(narrow)
    BY Answers, QueriesAssumption
  <2>2. narrow \subseteq wide BY <2>1, WiderHoldsMore
  <2>3. ASSUME NEW k \in LoadContinuations(narrow) PROVE k \in LoadContinuations(wide)
    <3>1. PICK l \in store.links : \E p \in NextJoins(l, narrow) : k = Continuation(l, p)
      BY ContinuationFacts
    <3>2. PICK p \in NextJoins(l, narrow) : k = Continuation(l, p) BY <3>1
    <3>3. p \in NextJoins(l, wide) BY <2>1, WiderJoinsTheSame
    <3>4. ASSUME k.type = StayTransfer, NEW f \in store.links, NEW o \in NextJoins(f, wide),
                 Continuation(f, o).type = LeaveTransfer, SamePair(Continuation(f, o), k)
          PROVE  FALSE
      <4>1. p \in NextJoins(f, narrow) /\ Continuation(f, p) = Continuation(f, o)
        BY <2>1, <3>2, <3>4, NoNewProhibition
      <4> HIDE DEF narrow, wide
      <4> QED BY <3>4, <4>1, ContinuationFacts
    <3> HIDE DEF narrow, wide
    <3> QED BY <3>2, <3>3, <3>4, ContinuationFacts
  <2> QED BY <2>1, <2>2, <2>3
<1> QED BY <1>1, WindowInvIsInvariant, PTL
=============================================================================
