----------------------------- MODULE MCCommands -----------------------------
(***************************************************************************)
(* A process that compiles an archive and then runs one command on it.     *)
(***************************************************************************)
EXTENDS MCFeedTimetable, NextDepartures, PlanCommand

(***************************************************************************)
(* The board.  Runs around midnight and of more than a day, on days of 23  *)
(* and 25 hours.                                                           *)
(***************************************************************************)
MCNone == {}

Late == <<Time("t1", "P", 1, 0, 23), Time("t1", "Q", 2, 24, 25), Time("t1", "P", 3, 46, 46),
          Time("t1", "Q", 4, 47, 49), Time("t1", "P", 5, 50, 50),
          Time("t2", "Q", 1, 0, 0), Time("t2", "P", 2, 1, 1), Time("t2", "Q", 3, 2, 2)>>

BoardArchives == {One(With(Core, "times", Late)),
                  One(Without(With(With(Core, "times", Late), "dates", <<Exception("s", 6, 1), Exception("s", 7, 1)>>), "calendar"))}

BoardStarts == {142, 166, 190, 215}

StopUpdate(seq, stopId, dep, delay) == [seq |-> seq, stop |-> stopId, dep |-> dep, delay |-> delay, skipped |-> FALSE]
About(id, deleted, trip, day, rel, stops) ==
  [id |-> id, deleted |-> deleted, vehicle |-> None, alert |-> None,
   update |-> [trip |-> trip, date |-> day, rel |-> rel, stamp |-> 144, state |-> "unknown", stops |-> stops]]
Message(entities) == [stamp |-> 144, entities |-> entities]

\* One entity, or two that disagree about the same run.
BoardFeeds ==
  {Message(<<About(1, FALSE, t, d, "scheduled", <<u>>)>>) :
     t \in {"t1", "t2"}, d \in {5, 6}, u \in {StopUpdate(1, None, None, 1), StopUpdate(None, "Q", 145, 1)}}
    \cup {Message(<<About(1, FALSE, "t1", 5, a, <<StopUpdate(None, None, None, 2)>>),
                    About(2, del, "t1", d, b, <<StopUpdate(3, None, 143, None)>>)>>) :
            a, b \in {"scheduled", "canceled"}, del \in BOOLEAN, d \in {5, 6}}

Ptv(time, label, platform) == [time |-> time, label |-> label, platform |-> platform]
BoardDepartures == {<<Ptv(143, "R", 1), Ptv(144, None, 2), Ptv(144, "O", 3), Ptv(145, "R", 4)>>}

BoardLabels == [r \in {"r", "o"} |-> IF r = "r" THEN "R" ELSE None]

(***************************************************************************)
(* The planner.  A slow run and a fast one that leaves later, a run after  *)
(* midnight, another a day away, a walk, a train that carries on, one that *)
(* seems to go back in time, and a station without platforms.              *)
(***************************************************************************)
PlanStops == <<Stop("S", 1, E, E, E, 0), Stop("P", 0, "S", E, E, 0), Stop("Q", 0, E, E, E, 5),
               Stop("W", 0, E, E, E, 6), Stop("X", 2, "S", E, E, 1), Stop("T", 1, E, E, E, 12)>>

PlanTimes == {<<Time("t1", "P", 1, 0, 1), Time("t1", "Q", 2, 9, 9), Time("t2", "P", 1, 3, 3), Time("t2", "Q", 2, 4, 4)>>,
              <<Time("t1", "P", 1, 0, 23), Time("t1", "Q", 2, 25, 25), Time("t2", "Q", 1, 26, 26), Time("t2", "P", 2, 49, 49)>>,
              <<Time("t1", "P", 1, 0, 1), Time("t1", "Q", 2, 2, 2), Time("t2", "Q", 1, 2, 2), Time("t2", "W", 2, 3, 3)>>,
              <<Time("t1", "Q", 1, 48, 48), Time("t1", "P", 2, 49, 49), Time("t2", "Q", 1, 2, 2), Time("t2", "P", 2, 3, 3)>>}

Gap == <<Time("t1", "P", 1, 0, 1), Time("t1", "Q", 2, 2, 2), Time("t1", "P", 3, 1, 1), Time("t1", "Q", 4, 4, 4),
         Time("t2", "Q", 1, 2, 2), Time("t2", "W", 2, 3, 3)>>

\* What the second connection does is not over before the third leaves.
HiddenGap == <<Time("t1", "P", 1, 0, 1), Time("t1", "Q", 2, 2, 9), Time("t1", "W", 3, 3, 9),
               Time("t1", "P", 4, 10, 10), Time("t1", "Q", 5, 2, 2), Time("t1", "W", 6, 2, 2)>>

\* A change to a platform, forbidden by way of its station and allowed.
Contradiction == <<Change("Q", "S", 3, E), Change("Q", "P", 2, 2)>>

PlanCore(times) == With(With(Core, "stops", PlanStops), "times", times)

PlanArchives == {One(PlanCore(t)) : t \in PlanTimes \cup {Gap}}
                \cup {One(With(PlanCore(HiddenGap), "transfers", <<Change("Q", "Q", 3, E)>>))}
                \cup {One(With(PlanCore(t), "transfers", <<c>>)) :
                        t \in PlanTimes, c \in {Link(E, E, 4), Link(E, E, 5), Change("Q", "W", 3, E)}}
                \cup {One(With(PlanCore(t), "transfers", Contradiction)) : t \in PlanTimes}

Text(exact, prefix, like, coordinate, place) ==
  [exact |-> exact, prefix |-> prefix, like |-> like, coordinate |-> coordinate, place |-> place, street |-> place # None]

Station == Text({"S"}, {}, {}, None, None)
Alike == Text({}, {}, {"Q", "W"}, None, None)
Point == Text({}, {}, {}, 6, None)
Place == Text({}, {}, {}, None, 0)
Street == Text({}, {}, {"X"}, None, 0)
Bare == Text({"T"}, {"Q"}, {"Q"}, None, 0)
Unknown == Text({}, {"Z"}, {}, None, None)

Request(at, latest, from, to, freshness, disruptions) ==
  [at |-> at, latest |-> latest, from |-> from, to |-> to, freshness |-> freshness,
   disruptions |-> disruptions, conditional |-> FALSE]

CommandArchives == BoardArchives \cup PlanArchives

PlanRequests ==
  {Request(x[1], x[2], a, b, FALSE, FALSE) :
     a \in {Station, Alike, Point}, b \in {Station, Alike, Place, Street, Unknown},
     x \in {<<143, FALSE>>, <<149, FALSE>>, <<168, FALSE>>, <<217, FALSE>>,
            <<149, TRUE>>, <<190, TRUE>>, <<245, TRUE>>}}
    \cup {Request(143, FALSE, a, Alike, f, d) : a \in {Station, Place}, f, d \in BOOLEAN}
    \cup {Request(143, FALSE, x[1], x[2], FALSE, FALSE) :
            x \in {<<Station, Point>>, <<Station, Bare>>, <<Bare, Alike>>}}

MCHorizons == <<2, 6, 36>>

(***************************************************************************)
(* One command each; the board on its own archives only, as a bound.       *)
(***************************************************************************)
CommandsInit == WindowInit /\ BoardInit /\ PlanInit

CommandsNext ==
  \/ CompilerNext /\ UNCHANGED <<windowVars, boardVars, planVars>>
  \/ /\ planStep = "idle" /\ archive \in BoardArchives
     /\ BoardNext /\ UNCHANGED <<compilerVars, windowVars, planVars>>
  \/ boardStep = "idle" /\ PlanNext /\ UNCHANGED <<compilerVars, boardVars>>

commandsVars == <<compilerVars, windowVars, boardVars, planVars>>

CommandsSpec == CommandsInit /\ [][CommandsNext]_commandsVars /\ PlanFairness
=============================================================================
