---------------------------- MODULE FeedCompiler ----------------------------
(***************************************************************************)
(* The compilation of a downloaded archive into the tables of one          *)
(* generation (internal/gtfs/ingest.go, compiler_csv.go and                *)
(* compiler_graph.go).  An archive holds one feed per transport mode.  All *)
(* of them are compiled in one transaction: their files in a fixed order,  *)
(* each of them validated against those before it, then the connections of *)
(* the feed, and, after the last feed, the trip links and the walking      *)
(* transfers between feeds.  Any error rolls everything back.              *)
(*                                                                         *)
(* A file is a sequence of rows.  What a row can have wrong by itself (a   *)
(* number that does not parse, a coordinate out of range, a missing name)  *)
(* is the row's `ok`; everything that relates a row to another is spelled  *)
(* out.  Positions are points on a line.                                   *)
(***************************************************************************)
EXTENDS Integers, Sequences, FiniteSets

CONSTANTS Archives,    \* the archives considered: sequences of feeds
          None,        \* an empty field
          MaxSeconds,  \* maxGTFSSeconds: the latest time of a service day
          WalkRange    \* maxTransferMeters

ASSUME NoneAssumption == None \notin Int
ASSUME RangeAssumption == MaxSeconds \in Nat /\ WalkRange \in Nat

\* What it means for a row to be ok by itself, as far as it is built on.
RowIsSound(file, r) ==
  r.ok => /\ file \notin {"times", "transfers"} => r.id # None
          /\ file = "calendar" => {r.from, r.to} \subseteq Int
          /\ file = "dates" => r.date \in Int
          /\ file = "times" => None \notin {r.trip, r.stop} /\ r.seq \in Int /\ {r.arr, r.dep} \subseteq Nat
          /\ file = "pathways" => None \notin {r.from, r.to} /\ r.secs \in Nat \cup {None}
          /\ file = "stops" => r.pos \in Int \cup {None}
          /\ file = "transfers" => r.type \in 0 .. 5 /\ r.min \in Nat \cup {None}

FileIsSound(file, rows) == /\ DOMAIN rows \subseteq Nat \ {0} /\ IsFiniteSet(DOMAIN rows)
                           /\ \A i \in DOMAIN rows : RowIsSound(file, rows[i])

ASSUME ArchivesAssumption ==
  \A a \in Archives :
    /\ a \in Seq({a[i] : i \in DOMAIN a})
    /\ \A i \in DOMAIN a :
         a[i].mode \in Int /\ \A file \in DOMAIN a[i].files : FileIsSound(file, a[i].files[file])

VARIABLES
  archive,  \* the archive being compiled
  feed,     \* the number of the feed being compiled
  step,     \* the file, or the later stage, that comes next
  tx,       \* the tables inside the transaction
  store,    \* the tables committed: those of an empty generation before
  outcome   \* running, compiled or failed

compilerVars == <<archive, feed, step, tx, store, outcome>>

NoRows == [levels |-> {}, stops |-> {}, routes |-> {}, services |-> {}, exceptions |-> {},
           trips |-> <<>>, times |-> <<>>, transfers |-> {}, pathways |-> {},
           connections |-> {}, links |-> {}, coverage |-> None]

\* The order in which compileInnerArchive reads the files.
FileOrder == <<"levels", "stops", "routes", "calendar", "dates", "trips", "times",
               "transfers", "pathways">>

Feed == archive[feed]
Rows(file) == Feed.files[file]

\* prefix: the same source id in two feeds makes two identities.
Own(id) == IF id = None THEN None ELSE <<Feed.mode, id>>

IdsOf(table) == {r.id : r \in table}
Belongs(r) == r.id[1] = Feed.mode

AllOK(rows) == \A i \in DOMAIN rows : rows[i].ok
Repeats(rows, i) == \E j \in 1 .. i - 1 : rows[j].id = rows[i].id
NoneRepeats(rows) == \A i \in DOMAIN rows : ~Repeats(rows, i)

(***************************************************************************)
(* The archive.                                                            *)
(***************************************************************************)

\* discoverOuterFeeds: a mode may come once; at least one is recognised.
Discovered(a) == /\ a # <<>>
                 /\ \A i, j \in DOMAIN a : i # j => a[i].mode # a[j].mode

RequiredFiles == {"stops", "routes", "trips", "times"}

HasRequiredFiles == /\ RequiredFiles \subseteq DOMAIN Feed.files
                    /\ {"calendar", "dates"} \cap DOMAIN Feed.files # {}

(***************************************************************************)
(* Stops.  A platform (0), an entrance (2) and a generic node (3) hang     *)
(* below a station (1), a boarding area (4) below a platform.              *)
(***************************************************************************)
StopOf(r) == [id |-> Own(r.id), kind |-> r.kind, parent |-> Own(r.parent),
              level |-> Own(r.level), access |-> r.access, pos |-> r.pos]

ParentKindOK(kind, parentKind) == \/ kind \in {0, 2, 3} /\ parentKind = 1
                                  \/ kind = 4 /\ parentKind = 0

\* Mutated form: any stop may be the parent of any other.
ParentOKAnyKind(s, stops) ==
  IF s.parent = None THEN s.kind \in {0, 1} ELSE s.parent \in IdsOf(stops)

ParentOK(s, stops) ==
  IF s.parent = None THEN s.kind \in {0, 1}
  ELSE \E p \in stops : p.id = s.parent /\ ParentKindOK(s.kind, p.kind)

\* stop_access says whether one can walk onto a platform of a station directly.
StopsOK(rows, stops, levels) ==
  /\ AllOK(rows) /\ NoneRepeats(rows)
  /\ \A s \in stops : /\ s.access # None => s.kind = 0 /\ s.parent # None
                      /\ ParentOK(s, stops)
                      /\ s.level \in {None} \cup levels

(***************************************************************************)
(* Services.                                                               *)
(***************************************************************************)
ServiceOf(r) == [id |-> Own(r.id), days |-> r.days, from |-> r.from, to |-> r.to]

CalendarOK(rows) == /\ AllOK(rows) /\ NoneRepeats(rows)
                    /\ \A i \in DOMAIN rows : rows[i].from <= rows[i].to

Added == 1
Removed == 2

ExceptionOf(r) == [id |-> Own(r.id), date |-> r.date, type |-> r.type]

\* A service that calendar.txt does not define lives on its added dates only.
DatesOK(rows, services) ==
  /\ AllOK(rows)
  /\ \A i, j \in DOMAIN rows :
       i # j => rows[i].id # rows[j].id \/ rows[i].date # rows[j].date
  /\ \A i \in DOMAIN rows : rows[i].type = Removed => Own(rows[i].id) \in IdsOf(services)

DateOnlyServices(exceptions, services) ==
  LET Dates(id) == {e.date : e \in {x \in exceptions : x.id = id}}
  IN  {[id |-> id, days |-> {},
        from |-> CHOOSE d \in Dates(id) : \A e \in Dates(id) : d <= e,
        to |-> CHOOSE d \in Dates(id) : \A e \in Dates(id) : d >= e] :
         id \in IdsOf(exceptions) \ IdsOf(services)}

(***************************************************************************)
(* Trips and their stop times are known by the mode and the number of      *)
(* their row, which order them as trip_key does.                           *)
(***************************************************************************)
TripOf(r) == [id |-> Own(r.id), route |-> Own(r.route), service |-> Own(r.service)]

RowKeys(numbers) == {Feed.mode} \X numbers
RowBefore(a, b) == a[1] < b[1] \/ (a[1] = b[1] /\ a[2] < b[2])

AddRows(old, new) == [k \in DOMAIN old \cup DOMAIN new |-> IF k \in DOMAIN old THEN old[k] ELSE new[k]]

\* A trip_id that came before is skipped, wherever the rest of its row leads.
Kept(rows) == {i \in DOMAIN rows : ~Repeats(rows, i)}

TripsOK(rows) == /\ \A i \in DOMAIN rows : None \notin {rows[i].id, rows[i].route, rows[i].service}
                 /\ \A i \in Kept(rows) : /\ rows[i].ok
                                          /\ Own(rows[i].route) \in IdsOf(tx.routes)
                                          /\ Own(rows[i].service) \in IdsOf(tx.services)

CompiledTrips(rows) == [k \in RowKeys(Kept(rows)) |-> TripOf(rows[k[2]])]

TripKey(trips, id) == CHOOSE k \in DOMAIN trips : trips[k].id = id
TripIds(trips) == {trips[k].id : k \in DOMAIN trips}

TimesOK(rows) ==
  \A i \in DOMAIN rows :
    /\ rows[i].ok /\ Own(rows[i].trip) \in TripIds(tx.trips) /\ Own(rows[i].stop) \in IdsOf(tx.stops)
    /\ rows[i].arr <= rows[i].dep /\ rows[i].dep <= MaxSeconds

\* Rows of a repeated trip_id end up with the trip that was kept.
TimeOf(r) == [trip |-> TripKey(tx.trips, Own(r.trip)), stop |-> Own(r.stop), seq |-> r.seq,
              arr |-> r.arr, dep |-> r.dep, pickup |-> r.pickup, dropOff |-> r.dropOff]

CompiledTimes(rows) == [k \in RowKeys(DOMAIN rows) |-> TimeOf(rows[k[2]])]

\* The stop time that follows row i in its trip, by sequence, then by row.
FollowingTimes(times, i) ==
  LET After(j) == /\ times[j].trip = times[i].trip
                  /\ \/ times[j].seq > times[i].seq
                     \/ times[j].seq = times[i].seq /\ j[2] > i[2]
      later == {j \in DOMAIN times : After(j)}
  IN  {j \in later : \A k \in later : \/ times[j].seq < times[k].seq
                                      \/ times[j].seq = times[k].seq /\ j[2] <= k[2]}

FollowsInTime(a, b) == b.seq > a.seq /\ b.arr >= a.dep

Segment(trip, a, b) ==
  [trip |-> a.trip, service |-> trip.service, from |-> a.stop, to |-> b.stop,
   fromSeq |-> a.seq, toSeq |-> b.seq, dep |-> a.dep, arr |-> b.arr,
   pickup |-> a.pickup, dropOff |-> b.dropOff]

\* materializeConnections leaves out the segments that do not advance.
Connections(trips, times) ==
  LET From(i) == {j \in FollowingTimes(times, i) : FollowsInTime(times[i], times[j])}
  IN  UNION {{Segment(trips[times[i].trip], times[i], times[j]) : j \in From(i)} : i \in DOMAIN times}

(***************************************************************************)
(* Transfers and pathways.                                                 *)
(***************************************************************************)
StayTransfer == 4
LeaveTransfer == 5
NoTransfer == 3

TransferOf(r) == [from |-> Own(r.from), to |-> Own(r.to), type |-> r.type,
                  min |-> IF r.min = None THEN 0 ELSE r.min,
                  fromRoute |-> Own(r.fromRoute), toRoute |-> Own(r.toRoute),
                  fromTrip |-> Own(r.fromTrip), toTrip |-> Own(r.toTrip), source |-> "gtfs"]

TransferKey(t) == <<t.from, t.to, t.fromRoute, t.toRoute, t.fromTrip, t.toTrip>>

StopKind(id) == (CHOOSE s \in tx.stops : s.id = id).kind
RouteOfTrip(id) == tx.trips[TripKey(tx.trips, id)].route

\* validateTransferStop and the references of one end of a rule.
TransferEndOK(type, stop, route, trip) ==
  /\ stop # None => stop \in IdsOf(tx.stops) /\ StopKind(stop) \in IF type <= 3 THEN {0, 1} ELSE {0}
  /\ route # None => route \in IdsOf(tx.routes)
  /\ trip # None => trip \in TripIds(tx.trips)
  /\ trip # None /\ route # None => RouteOfTrip(trip) = route
  /\ type <= 3 => stop # None
  /\ type >= 4 => trip # None

\* A key may come twice only to say of one pair of trips both 4 and 5.
TransfersOK(rows) ==
  /\ AllOK(rows)
  /\ \A i \in DOMAIN rows :
       LET t == TransferOf(rows[i])
           same == {j \in DOMAIN rows : TransferKey(TransferOf(rows[j])) = TransferKey(t)}
       IN  /\ TransferEndOK(t.type, t.from, t.fromRoute, t.fromTrip)
           /\ TransferEndOK(t.type, t.to, t.toRoute, t.toTrip)
           /\ t.type = 2 => rows[i].min # None
           /\ \/ same = {i}
              \/ Cardinality(same) = 2 /\ {rows[j].type : j \in same} = {StayTransfer, LeaveTransfer}

\* A traversal time of zero is the feed's way to say that it is not known; None
\* stands for a pathway without a length as well.
PathwayOf(r) == [id |-> Own(r.id), from |-> Own(r.from), to |-> Own(r.to), both |-> r.both,
                 secs |-> IF r.secs = 0 THEN None ELSE r.secs]

Elevator == 5
ExitGate == 7

PathwaysOK(rows) ==
  /\ AllOK(rows) /\ NoneRepeats(rows)
  /\ \A i \in DOMAIN rows :
       /\ {Own(rows[i].from), Own(rows[i].to)} \subseteq IdsOf(tx.stops)
       /\ \A s \in tx.stops : s.id \in {Own(rows[i].from), Own(rows[i].to)}
                                => s.kind # 1 /\ s.access # 1
       /\ rows[i].mode = Elevator => "levels" \in DOMAIN Feed.files
       /\ rows[i].mode = ExitGate => ~rows[i].both

(***************************************************************************)
(* The steps of a compilation.                                             *)
(***************************************************************************)
Init ==
  /\ archive \in Archives
  /\ feed = 1 /\ step = "open"
  /\ tx = NoRows /\ store = NoRows /\ outcome = "running"

\* Mutated form: the rows of a failed compilation stay.
RolledKeepsRows == /\ outcome' = "failed"
                   /\ UNCHANGED <<archive, feed, step, tx, store>>

Rolled == /\ outcome' = "failed" /\ tx' = NoRows
          /\ UNCHANGED <<archive, feed, step, store>>

Stage(s) == outcome = "running" /\ step = s

Advance(s, new) == /\ step' = s /\ tx' = new
                   /\ UNCHANGED <<archive, feed, store, outcome>>

FileAfter(file) ==
  IF file = "pathways" THEN "connections"
  ELSE FileOrder[(CHOOSE i \in DOMAIN FileOrder : FileOrder[i] = file) + 1]

\* A file is compiled when it is there and its rows are in order; a file that
\* is not there is passed over; anything else ends the compilation.
CompileFile(file, valid, new) ==
  /\ Stage(file)
  /\ IF file \notin DOMAIN Feed.files THEN Advance(FileAfter(file), tx)
     ELSE IF valid THEN Advance(FileAfter(file), new) ELSE Rolled

RowsOrNone(file) == IF file \in DOMAIN Feed.files THEN Rows(file) ELSE <<>>
Each(rows, Of(_)) == {Of(rows[i]) : i \in DOMAIN rows}

\* Feeds are compiled in the order of their modes.
StartFeed(numbers, new) ==
  /\ feed' \in {i \in numbers : \A j \in numbers : archive[i].mode <= archive[j].mode}
  /\ step' = "required" /\ tx' = new
  /\ UNCHANGED <<archive, store, outcome>>

Later == {j \in DOMAIN archive : archive[j].mode > Feed.mode}

Open == /\ Stage("open")
        /\ IF Discovered(archive) THEN StartFeed(DOMAIN archive, tx) ELSE Rolled

CheckFiles == /\ Stage("required")
              /\ IF HasRequiredFiles THEN Advance("levels", tx) ELSE Rolled

CompileLevels ==
  LET rows == RowsOrNone("levels")
  IN  CompileFile("levels", AllOK(rows) /\ NoneRepeats(rows),
                  [tx EXCEPT !.levels = @ \cup {Own(rows[i].id) : i \in DOMAIN rows}])

CompileStops ==
  LET rows == RowsOrNone("stops")
      new == Each(rows, StopOf)
  IN  CompileFile("stops", StopsOK(rows, new, tx.levels), [tx EXCEPT !.stops = @ \cup new])

CompileRoutes ==
  LET rows == RowsOrNone("routes")
  IN  CompileFile("routes", AllOK(rows) /\ NoneRepeats(rows),
                  [tx EXCEPT !.routes = @ \cup {[id |-> Own(rows[i].id)] : i \in DOMAIN rows}])

CompileCalendar ==
  LET rows == RowsOrNone("calendar")
  IN  CompileFile("calendar", CalendarOK(rows),
                  [tx EXCEPT !.services = @ \cup Each(rows, ServiceOf)])

CompileCalendarDates ==
  LET rows == RowsOrNone("dates")
      new == Each(rows, ExceptionOf)
  IN  CompileFile("dates", DatesOK(rows, tx.services),
                  [tx EXCEPT !.exceptions = @ \cup new,
                             !.services = @ \cup DateOnlyServices(new, tx.services)])

CompileTrips ==
  LET rows == RowsOrNone("trips")
  IN  CompileFile("trips", TripsOK(rows), [tx EXCEPT !.trips = AddRows(@, CompiledTrips(rows))])

CompileStopTimes ==
  LET rows == RowsOrNone("times")
  IN  CompileFile("times", TimesOK(rows), [tx EXCEPT !.times = AddRows(@, CompiledTimes(rows))])

CompileTransfers ==
  LET rows == RowsOrNone("transfers")
  IN  CompileFile("transfers", TransfersOK(rows),
                  [tx EXCEPT !.transfers = @ \cup Each(rows, TransferOf)])

CompilePathways ==
  LET rows == RowsOrNone("pathways")
  IN  CompileFile("pathways", PathwaysOK(rows),
                  [tx EXCEPT !.pathways = @ \cup Each(rows, PathwayOf)])

\* A feed without a row in one of its core tables is refused.
HasCoreRows(t) == /\ \E s \in t.stops : Belongs(s)
                  /\ \E r \in t.routes : Belongs(r)
                  /\ \E s \in t.services : Belongs(s)
                  /\ \E k \in DOMAIN t.trips : Belongs(t.trips[k])
                  /\ \E c \in t.connections : Belongs(t.trips[c.trip])

MaterializeConnections ==
  /\ Stage("connections")
  /\ LET new == [tx EXCEPT !.connections = Connections(tx.trips, tx.times)]
     IN  IF ~HasCoreRows(new) THEN Rolled
         ELSE IF Later = {} THEN Advance("links", new) ELSE StartFeed(Later, new)

\* Rules for the same trips and ends are one link, and 5 wins over 4.
TripLinks(transfers) ==
  LET linked == {t \in transfers : t.type \in {StayTransfer, LeaveTransfer}}
      Ends(t) == <<t.fromTrip, t.toTrip, t.from, t.to>>
  IN  {[fromTrip |-> t.fromTrip, toTrip |-> t.toTrip, from |-> t.from, to |-> t.to, type |-> t.type] :
         t \in {x \in linked : \A y \in linked : Ends(y) = Ends(x) => y.type <= x.type}}

MaterializeTripLinks ==
  /\ Stage("links")
  /\ Advance("proximity", [tx EXCEPT !.links = TripLinks(tx.transfers)])

(***************************************************************************)
(* The walking graph.                                                      *)
(***************************************************************************)
ChildrenOf(stops, ids) == {s.id : s \in {x \in stops : x.parent \in ids}}

KindOf(stops, id) == (CHOOSE s \in stops : s.id = id).kind

\* platformDescendants: a platform is itself, anything else the platforms
\* below it, and what is below a platform is not looked at.  No chain of parents
\* has more than two steps.
PlatformsBelow(stops, id) ==
  LET Platforms(ids) == {i \in ids : KindOf(stops, i) = 0}
      WithChildren(ids) == ids \cup ChildrenOf(stops, ids \ Platforms(ids))
  IN  IF KindOf(stops, id) = 0 THEN {id} ELSE Platforms(WithChildren(WithChildren({id})))

ParentId(stops, id) == (CHOOSE s \in stops : s.id = id).parent

\* rootOf: the end of the chain of parents.
RootOf(stops, id) ==
  LET Up(i) == IF ParentId(stops, i) = None THEN i ELSE ParentId(stops, i)
  IN  Up(Up(id))

\* Stations whose inside the feed describes by pathways.
AuthoritativeRoots(t) == UNION {{RootOf(t.stops, p.from), RootOf(t.stops, p.to)} : p \in t.pathways}

Unqualified(r) == {r.fromRoute, r.toRoute, r.fromTrip, r.toTrip} = {None}

ExplicitPairs(t) ==
  UNION {PlatformsBelow(t.stops, r.from) \X PlatformsBelow(t.stops, r.to) :
           r \in {x \in t.transfers : x.type <= NoTransfer /\ Unqualified(x)}}

Eligible(t) == {s \in t.stops : /\ s.kind = 0 /\ s.pos # None
                                /\ \/ RootOf(t.stops, s.id) \notin AuthoritativeRoots(t)
                                   \/ s.access = 1}

Distance(a, b) == IF a.pos <= b.pos THEN b.pos - a.pos ELSE a.pos - b.pos

Walk(a, b) == [from |-> a.id, to |-> b.id, type |-> 2, min |-> IF Distance(a, b) = 0 THEN 1 ELSE Distance(a, b),
               fromRoute |-> None, toRoute |-> None, fromTrip |-> None, toTrip |-> None,
               source |-> "proximity"]

Near(t) == {p \in Eligible(t) \X Eligible(t) : p[1] # p[2] /\ Distance(p[1], p[2]) <= WalkRange}

\* Mutated form: an explicit rule holds in the direction it is written only
\* for the stops it names.
ProximityTransfersUnexpanded(t) ==
  {Walk(p[1], p[2]) : p \in {x \in Near(t) : ~\E r \in t.transfers :
                                 r.from = x[1].id /\ r.to = x[2].id /\ r.type <= NoTransfer}}

ProximityTransfers(t) ==
  {Walk(p[1], p[2]) : p \in {x \in Near(t) : <<x[1].id, x[2].id>> \notin ExplicitPairs(t)}}

GenerateProximityTransfers ==
  /\ Stage("proximity")
  /\ Advance("commit", [tx EXCEPT !.transfers = @ \cup ProximityTransfers(tx)])

(***************************************************************************)
(* Coverage and commit.                                                    *)
(***************************************************************************)

\* Mutated form: only calendar.txt counts.
CoveredDatesCalendarOnly(t) ==
  UNION {{s.from, s.to} : s \in {x \in t.services : x.days # {}}}

CoveredDates(t) == {e.date : e \in {x \in t.exceptions : x.type = Added}}
                     \cup UNION {{s.from, s.to} : s \in {x \in t.services : x.days # {}}}

Coverage(t) == [start |-> CHOOSE d \in CoveredDates(t) : \A e \in CoveredDates(t) : d <= e,
                end |-> CHOOSE d \in CoveredDates(t) : \A e \in CoveredDates(t) : d >= e]

Commit ==
  /\ Stage("commit")
  /\ IF CoveredDates(tx) = {} THEN Rolled
     ELSE /\ store' = [tx EXCEPT !.coverage = Coverage(tx)]
          /\ outcome' = "compiled"
          /\ UNCHANGED <<archive, feed, step, tx>>

\* The context is cancelled, or the disk or the archive cannot be read.
Abort == outcome = "running" /\ Rolled

CompilerNext ==
  \/ Open \/ CheckFiles \/ CompileLevels \/ CompileStops \/ CompileRoutes
  \/ CompileCalendar \/ CompileCalendarDates \/ CompileTrips \/ CompileStopTimes
  \/ CompileTransfers \/ CompilePathways \/ MaterializeConnections
  \/ MaterializeTripLinks \/ GenerateProximityTransfers \/ Commit \/ Abort

CompilerSpec == Init /\ [][CompilerNext]_compilerVars

(***************************************************************************)
(* What a generation must satisfy to be published: ValidateResolvedDataset *)
(* and validateDatasetState (internal/gtfs/state.go), which look at the    *)
(* tables and not at how they were filled.                                 *)
(***************************************************************************)
SameFeed(a, b) == a[1] = b[1]

ResolvedIn(id, ids, owner) == id \in ids /\ SameFeed(id, owner)

ValidStop(t, s) ==
  /\ s.kind \in 0 .. 4
  /\ s.parent # None =>
       \E p \in t.stops : /\ p.id = s.parent /\ SameFeed(p.id, s.id)
                          /\ s.kind \in {0, 2, 3} => p.kind = 1
                          /\ s.kind = 4 => p.kind = 0
  /\ s.kind = 1 => s.parent = None
  /\ s.kind \in {2, 3, 4} => s.parent # None
  /\ s.level # None => ResolvedIn(s.level, t.levels, s.id)
  /\ s.access # None => s.kind = 0 /\ s.parent # None

ValidTrip(t, trip) == /\ ResolvedIn(trip.route, IdsOf(t.routes), trip.id)
                      /\ ResolvedIn(trip.service, IdsOf(t.services), trip.id)

ValidTime(t, time) == /\ time.trip \in DOMAIN t.trips
                      /\ ResolvedIn(time.stop, IdsOf(t.stops), t.trips[time.trip].id)

ValidException(t, e) == e.id \in IdsOf(t.services)

\* One end of a rule of transfers.txt; the feed is that of its other fields.
ValidEnd(t, type, stop, route, trip) ==
  /\ type <= 3 => stop # None
  /\ type >= 4 => trip # None
  /\ stop # None => stop \in IdsOf(t.stops)
  /\ route # None => route \in IdsOf(t.routes)
  /\ trip # None => trip \in TripIds(t.trips)
  /\ trip # None /\ route # None =>
       \E k \in DOMAIN t.trips : t.trips[k].id = trip /\ t.trips[k].route = route

ValidTransfer(t, r) ==
  IF r.source = "gtfs"
  THEN /\ r.type \in 0 .. 5 /\ r.min >= 0
       /\ ValidEnd(t, r.type, r.from, r.fromRoute, r.fromTrip)
       /\ ValidEnd(t, r.type, r.to, r.toRoute, r.toTrip)
       /\ \A a, b \in {r.from, r.to, r.fromRoute, r.toRoute, r.fromTrip, r.toTrip} \ {None} :
            SameFeed(a, b)
  ELSE /\ r.type = 2 /\ r.min >= 0 /\ Unqualified(r)
       /\ {r.from, r.to} \subseteq IdsOf(t.stops)

ValidPathway(t, p) ==
  /\ ResolvedIn(p.from, IdsOf(t.stops), p.id) /\ ResolvedIn(p.to, IdsOf(t.stops), p.id)
  /\ \A s \in t.stops : s.id \in {p.from, p.to} => s.kind # 1 /\ s.access # 1

ValidConnection(t, c) ==
  /\ c.trip \in DOMAIN t.trips
  /\ t.trips[c.trip].service = c.service
  /\ ResolvedIn(c.from, IdsOf(t.stops), c.service) /\ ResolvedIn(c.to, IdsOf(t.stops), c.service)
  /\ c.toSeq > c.fromSeq
  /\ c.arr >= c.dep

ValidLink(t, l) ==
  /\ l.type \in {StayTransfer, LeaveTransfer}
  /\ l.fromTrip \in TripIds(t.trips) /\ ResolvedIn(l.toTrip, TripIds(t.trips), l.fromTrip)
  /\ \A s \in {l.from, l.to} \ {None} : ResolvedIn(s, IdsOf(t.stops), l.fromTrip)
  /\ \A o \in t.links : [o EXCEPT !.type = l.type] = l => o = l

ValidateResolvedDataset(t) ==
  /\ \A s \in t.stops : ValidStop(t, s)
  /\ \A k \in DOMAIN t.trips : ValidTrip(t, t.trips[k])
  /\ \A k \in DOMAIN t.times : ValidTime(t, t.times[k])
  /\ \A e \in t.exceptions : ValidException(t, e)
  /\ \A r \in t.transfers : ValidTransfer(t, r)
  /\ \A p \in t.pathways : ValidPathway(t, p)
  /\ \A c \in t.connections : ValidConnection(t, c)
  /\ \A l \in t.links : ValidLink(t, l)

CoreRowsPresent(t) == {} \notin {t.stops, t.routes, t.services, t.connections}
                      /\ <<>> \notin {t.trips, t.times}

\* What compiles can be published: prepareForPublication, which reads the tables
\* with queries of its own, finds no row it would refuse.
CompiledIsPublishable == outcome = "compiled" => CoreRowsPresent(store) /\ ValidateResolvedDataset(store)
=============================================================================
