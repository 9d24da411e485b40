-------------------------- MODULE MCConnectionScan --------------------------
(***************************************************************************)
(* Queries small enough to enumerate: four stops, three trips, a source at *)
(* A and a target at D, and around that core every combination of a few    *)
(* times, walks, policies, transfer rules and continuations.               *)
(***************************************************************************)
EXTENDS ConnectionScan

CONSTANTS A, B, C, D, t1, t2, t3, red, blue

MCRouteOf == [t \in Trips |-> IF t = t3 THEN blue ELSE red]

Row(t, from, to, dep, arr) ==
  [trip |-> t, from |-> from, to |-> to, depTime |-> dep, arrTime |-> arr,
   pickup |-> "regular", dropOff |-> "regular"]

\* A trip along `stops` with its departure and arrival times in turn.
Line(t, stops, times) ==
  [i \in 1 .. Len(stops) - 1 |-> Row(t, stops[i], stops[i+1], times[2*i-1], times[2*i])]

Edge(a, b, n) == [from |-> a, to |-> b, secs |-> n]
At(s, n) == [stop |-> s, walk |-> n]

Rule(fs, ts, fr, tr, ft, tot, type, min) ==
  [fromStop |-> fs, toStop |-> ts, fromRoute |-> fr, toRoute |-> tr, fromTrip |-> ft,
   toTrip |-> tot, type |-> type, min |-> min]

Link(type, fs, ts) ==
  [type |-> type, fromTrip |-> t1, toTrip |-> t2, fromStop |-> fs, toStop |-> ts]

Query(rows, walk, rules, links, sources, targets, at, latest) ==
  [rows |-> rows, walk |-> walk, rules |-> rules, links |-> links, sources |-> sources,
   targets |-> targets, at |-> at, latest |-> latest, conditional |-> FALSE]

\* Either direction, from the first departure or until the last arrival but
\* one or so.
Both(rows, walk, rules, links, sources, targets) ==
  {Query(rows, walk, rules, links, sources, targets, 0, FALSE),
   Query(rows, walk, rules, links, sources, targets, 4, TRUE)}

\* t1 runs A-B-C, t2 goes on from B or C, t3 competes with them.
T1 == {Line(t1, <<A, B, C>>, x) : x \in {<<0, 1, 1, 2>>, <<1, 1, 1, 2>>, <<0, 1, 2, 2>>}}
T2 == {Line(t2, <<B, D>>, <<d, 3>>) : d \in {1, 2, 3}}
      \cup {Line(t2, <<C, B, D>>, x) : x \in {<<1, 1, 1, 3>>, <<2, 2, 2, 3>>, <<2, 3, 3, 4>>}}
T3 == {Line(t3, <<C, D>>, <<2, 2>>), Line(t3, <<B, C>>, <<1, 1>>), Line(t3, <<A, C>>, <<0, 1>>),
       Line(t3, <<C, A, D>>, <<1, 2, 3, 4>>)}

Networks == {a \o b \o c : a \in T1, b \in T2, c \in T3}
Few == {a \o b \o c : a \in {x \in T1 : x[1].depTime = 0}, b \in {x \in T2 : x[1].depTime < 3},
                      c \in {x \in T3 : Len(x) = 1}}

WalkSets == {{}, {Edge(B, C, 1)}, {Edge(C, B, 1), Edge(A, C, 2)}, {Edge(B, C, 1), Edge(C, D, 1)}}

\* Timetables and walks, with one endpoint at each end or with several.
Plain == UNION {Both(n, w, <<>>, {}, {At(A, 0)}, {At(D, 0)}) : n \in Networks, w \in WalkSets}
         \cup UNION {Both(n, w, <<>>, {}, {At(A, 1), At(B, 2)}, {At(D, 1), At(C, 2)}) :
                       n \in Few, w \in WalkSets}

\* One action of one row restricted.
Restricted(rows, p) == {[rows EXCEPT ![i].pickup = p] : i \in DOMAIN rows}
                       \cup {[rows EXCEPT ![i].dropOff = p] : i \in DOMAIN rows}

WithPolicy(p, conditional) ==
  {[q EXCEPT !.conditional = conditional] :
     q \in UNION {Both(r, {Edge(B, C, 1)}, <<>>, {}, {At(A, 0)}, {At(D, 0)}) :
                    r \in UNION {Restricted(n, p) : n \in {m \in Few : Len(m) = 5}}}}

Policies == WithPolicy("none", TRUE) \cup WithPolicy("request", TRUE) \cup WithPolicy("request", FALSE)

\* A minimum change at B, and something more specific, in either order.
MinimumAtB == Rule(B, B, Any, Any, Any, Any, "minimum", 1)
Specific == {Rule(Any, Any, Any, Any, t1, t2, "forbidden", 0),
             Rule(Any, Any, Any, blue, t1, Any, "forbidden", 0),
             Rule(Any, C, red, blue, Any, Any, "minimum", 1),
             Rule(B, B, Any, Any, Any, Any, "recommended", 0)}

RuleSets == {<<MinimumAtB>>} \cup {<<r>> : r \in Specific}
            \cup UNION {{<<MinimumAtB, r>>, <<r, MinimumAtB>>} : r \in Specific}

Ruled == UNION {Both(n, w, r, {}, {At(A, 0)}, {At(D, 0)}) :
                  n \in Few, w \in {{}, {Edge(B, C, 1)}}, r \in RuleSets}

\* t1 may continue as t2, at C or, with a permission that names no stop,
\* anywhere the feed leaves open.
LinkSets == {{Link("stay", C, C)}, {Link("stay", Any, Any)}, {Link("stay", C, B)},
             {Link("stay", Any, Any), Link("leave", C, Any)}}

Linked == UNION {Both(n, {}, r, l, {At(A, 0)}, {At(D, 0)}) :
                   n \in Networks, l \in LinkSets,
                   r \in {<<>>, <<Rule(C, C, Any, Any, Any, Any, "forbidden", 0)>>}}

\* The trip that is continued comes after the one that continues it.
Backward == UNION {Both(b \o a \o c, {}, <<>>, l, {At(A, 0)}, {At(D, 0)}) :
                     a \in T1, b \in T2, c \in {Line(t3, <<B, C>>, <<1, 1>>)}, l \in LinkSets}

\* A trip that is back at A, or at B, at the instant it left.
Looped == UNION {Both(Line(t1, s, <<1, 1, 1, 1, 2, 3>>), {}, r, {}, {At(x, 0)}, {At(D, 0)}) :
                   s \in {<<A, B, A, D>>, <<B, A, B, D>>}, x \in {A, B}, r \in {<<>>, <<MinimumAtB>>}}

\* A segment left out because it arrived before it left.
Gapped == UNION {Both(<<n[1]>> \o Tail(Tail(n)), {}, <<>>, {}, {At(A, 0)}, {At(D, 0)}) : n \in
                   {Line(t1, <<A, B, C, D>>, <<0, 1, 2, 1, 2, 3>>) \o b \o c : b \in T2, c \in T3}}

MCTimetables == Plain \cup Policies \cup Ruled \cup Linked \cup Gapped \cup Backward \cup Looped
MCGapped == Gapped
=============================================================================
