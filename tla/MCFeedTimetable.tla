-------------------------- MODULE MCFeedTimetable --------------------------
(***************************************************************************)
(* Archives small enough to enumerate.  One family varies what is about    *)
(* places: the hierarchy of stops, levels, transfers and pathways.  The    *)
(* other varies what is about time: calendars, repeated trips, stop times  *)
(* out of order and linked trips.  Two archives hold two feeds.            *)
(*                                                                         *)
(* Summer time starts on day 6, of 23 hours, and ends on day 8, of 25.     *)
(***************************************************************************)
EXTENDS TimetableWindow

E == None

Level(id) == [id |-> id, ok |-> TRUE]
Stop(id, kind, parent, level, access, pos) ==
  [id |-> id, kind |-> kind, parent |-> parent, level |-> level, access |-> access, pos |-> pos, ok |-> TRUE]
Route(id) == [id |-> id, ok |-> TRUE]
Service(id, days, from, to) == [id |-> id, days |-> days, from |-> from, to |-> to, ok |-> TRUE]
Exception(id, date, type) == [id |-> id, date |-> date, type |-> type, ok |-> TRUE]
Trip(id, route, service) == [id |-> id, route |-> route, service |-> service, ok |-> TRUE]
Time(trip, stop, seq, arr, dep) ==
  [trip |-> trip, stop |-> stop, seq |-> seq, arr |-> arr, dep |-> dep, pickup |-> 0, dropOff |-> 0, ok |-> TRUE]
Change(from, to, type, min) ==
  [from |-> from, to |-> to, type |-> type, min |-> min, fromRoute |-> E, toRoute |-> E,
   fromTrip |-> E, toTrip |-> E, ok |-> TRUE]
Link(from, to, type) == [Change(from, to, type, E) EXCEPT !.fromTrip = "t1", !.toTrip = "t2"]
Path(id, from, to, mode, both) ==
  [id |-> id, from |-> from, to |-> to, mode |-> mode, both |-> both, secs |-> 0, ok |-> TRUE]

MCDayLength == [d \in 0 .. LastDay |-> IF d = 6 THEN 23 ELSE IF d = 8 THEN 25 ELSE 24]

Weekly == <<Service("s", 0 .. 6, 5, 8)>>

Core == [stops |-> <<Stop("S", 1, E, E, E, 0), Stop("P", 0, "S", E, E, 0), Stop("Q", 0, E, E, E, 1)>>,
         routes |-> <<Route("r"), Route("o")>>,
         calendar |-> Weekly,
         trips |-> <<Trip("t1", "r", "s"), Trip("t2", "o", "s")>>,
         times |-> <<Time("t1", "P", 1, 0, 1), Time("t1", "Q", 2, 2, 2),
                     Time("t2", "Q", 1, 2, 4), Time("t2", "P", 2, 5, 5)>>]

With(files, file, rows) == [f \in DOMAIN files \cup {file} |-> IF f = file THEN rows ELSE files[f]]
Without(files, file) == [f \in DOMAIN files \ {file} |-> files[f]]
Spoilt(files, file) == With(files, file, [files[file] EXCEPT ![Len(files[file])].ok = FALSE])
Twice(files, file) == With(files, file, files[file] \o files[file])

One(files) == <<[mode |-> 1, files |-> files]>>

(***************************************************************************)
(* Places.                                                                 *)
(***************************************************************************)
Hierarchies ==
  {<<Stop("S", 1, E, E, E, 0), Stop("P", 0, p, l, a, 0), Stop("Q", 0, q, E, E, 1), x>> :
     p \in {E, "S", "Q", "Z"}, l \in {E, "l"}, a \in {E, 1}, q \in {E, "S"},
     x \in {Stop("X", 2, "S", E, E, 0), Stop("X", 2, E, E, E, 0), Stop("X", 4, "P", E, E, 0),
            Stop("X", 1, "S", E, E, 0), Stop("X", 3, "P", E, E, E)}}

Levels == {Core, With(Core, "levels", <<Level("l")>>)}

Walks == {<<Change(a, b, t, m)>> : a, b \in {"S", "P", "Q", "X"}, t \in 0 .. 3, m \in {E, 2}}
Qualified == {<<[Change("P", "Q", t, 2) EXCEPT !.fromRoute = "r", !.fromTrip = x]>> :
                t \in {2, 3}, x \in {E, "t1", "t2"}}
Pairs == {<<Change("S", "Q", 3, E), Change("P", "Q", t, 2)>> : t \in {2, 3}}
         \cup {<<Change("P", "Q", 2, 2), Change("P", "Q", 2, E)>>}

Paths == {<<>>, <<Path("w", "X", "P", 1, TRUE)>>, <<Path("w", "P", "Q", 5, FALSE)>>,
          <<Path("w", "P", "Q", 7, TRUE)>>, <<Path("w", "S", "P", 1, FALSE)>>,
          <<Path("w", "P", "Q", 1, FALSE), Path("w", "Q", "P", 1, FALSE)>>}

Plain == <<Stop("S", 1, E, E, E, 0), Stop("P", 0, "S", E, E, 0), Stop("Q", 0, E, E, E, 1),
           Stop("X", 2, "S", E, E, 0)>>
Direct == [Plain EXCEPT ![2].access = 1]

Placed(f, stops) == With(f, "stops", stops)

Places ==
  {Placed(f, h) : f \in Levels, h \in Hierarchies}
    \cup {With(Placed(Core, h), "transfers", w) : h \in {Plain, Direct}, w \in Walks \cup Qualified \cup Pairs}
    \cup {With(Placed(f, h), "pathways", p) : f \in Levels, h \in {Plain, Direct}, p \in Paths}

(***************************************************************************)
(* Time.                                                                   *)
(***************************************************************************)
Calendars ==
  {With(Core, "calendar", c) : c \in {<<Service("s", {5, 6}, 5, 6)>>, <<Service("s", {0}, 7, 7)>>,
                                      <<Service("s", {}, 5, 8)>>, <<Service("s", 0 .. 6, 8, 5)>>}}
    \cup {Without(Core, "calendar")}

Dates == {<<Exception("s", 7, 1)>>, <<Exception("s", 6, 2)>>, <<Exception("s", 9, 1), Exception("s", 5, 2)>>,
          <<Exception("s", 7, 1), Exception("s", 7, 2)>>, <<Exception("s", 5, 1), Exception("s", 6, 1)>>}

Timings == {<<Time("t1", "P", 1, 0, a), Time("t1", "Q", 2, b, c),
              Time("t2", "Q", 1, d, d), Time("t2", "P", 2, e, e)>> :
              a \in {0, 23}, b \in {1, 24}, c \in {2, 26}, d \in {0, 25}, e \in {26, 72, 73}}

\* t2 leaves when t1 is half way.
Overtaken == <<Time("t1", "P", 1, 0, 1), Time("t1", "Q", 2, 2, 3), Time("t1", "P", 3, 6, 6),
               Time("t2", "Q", 1, 2, 2), Time("t2", "P", 2, 7, 7)>>

OutOfOrder == {<<Time("t1", "P", 1, 0, 1), Time("t1", "Q", 2, 3, 3), Time("t1", "P", s, 2, 2),
                 Time("t1", "Q", 4, 4, 4)>> : s \in {1, 2, 3}}

Repeated == {With(Core, "trips", <<Trip("t1", "r", "s"), Trip("t1", x, "s"), Trip("t2", "o", "s")>>) :
               x \in {"o", "Z"}}

LinkRules == {<<Link(a, b, t)>> : a \in {E, "Q", "P"}, b \in {E, "Q"}, t \in {4, 5}}
             \cup {<<Link("Q", "Q", 4), Link(a, b, 5)>> : a, b \in {E, "Q", "P"}}

Times ==
  Calendars
    \cup {With(f, "dates", d) : f \in Calendars \cup {Core}, d \in Dates}
    \cup {With(Core, "times", t) : t \in Timings \cup OutOfOrder}
    \cup {With(With(Core, "times", t), "transfers", l) :
            t \in {Overtaken} \cup {x \in Timings : x[4].dep # 73}, l \in LinkRules}
    \cup Repeated

Broken == {Spoilt(Core, f) : f \in DOMAIN Core} \cup {Twice(Core, f) : f \in DOMAIN Core}
          \cup {Without(Core, f) : f \in DOMAIN Core}
          \cup {Spoilt(With(Core, "levels", <<Level("l")>>), "levels"),
                With(Core, "times", <<>>)}

Foreign == With(Core, "transfers", <<Change("S", "Q", 3, E)>>)

MCArchives ==
  {One(f) : f \in Places \cup Times \cup Broken}
    \cup {<<[mode |-> 2, files |-> Core], [mode |-> 1, files |-> Foreign]>>,
          <<[mode |-> 1, files |-> Core], [mode |-> 1, files |-> Core]>>,
          <<[mode |-> 1, files |-> Core], [mode |-> 2, files |-> Twice(Core, "stops")]>>, <<>>}

Ask(at, horizon, latest) == [at |-> at, horizon |-> horizon, latest |-> latest]

\* Around the days on which the clocks change, and after the last service day.
MCQueries == {Ask(at, h, l) : at \in {143, 145, 167, 192}, h \in {2, 36}, l \in BOOLEAN}
             \cup {Ask(218, 2, FALSE)}
=============================================================================
