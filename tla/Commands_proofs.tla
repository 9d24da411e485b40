-------------------------- MODULE Commands_proofs --------------------------
(***************************************************************************)
(* Theorems about the commands that read a compiled timetable, for any     *)
(* archive, calendar, answer and clock.  The board of `ptv next` holds     *)
(* every run of its window, and what it says of a run is what the feed     *)
(* says of that run.  `ptv plan` gives up only where nothing was missed,   *)
(* and need not widen its horizon for a journey that is over within it.    *)
(***************************************************************************)
EXTENDS NextDepartures, PlanCommand, FeedTimetable_proofs

(***************************************************************************)
(* Positions.                                                              *)
(***************************************************************************)
\* Relation L orders the members of R, one after the other.
Orders(L, R) ==
  /\ \A a \in R : <<a, a>> \notin L
  /\ \A a, b \in R : a # b => <<a, b>> \in L \/ <<b, a>> \in L
  /\ \A a, b, c \in R : <<a, b>> \in L /\ <<b, c>> \in L => <<a, c>> \in L

\* The members of R that come before r, and how many they are.
Preceding(L, R, r) == {o \in R : <<o, r>> \in L}
Rank(L, R, r) == Cardinality(Preceding(L, R, r))

\* Every rank is that of one member, and of no other.
Ranked(L, R) == /\ \A a, b \in R : Rank(L, R, a) = Rank(L, R, b) => a = b
                /\ \A k \in 0 .. Cardinality(R) - 1 : \E r \in R : Rank(L, R, r) = k

\* Who comes later has a higher rank.
LEMMA RankGrows ==
  ASSUME NEW R, IsFiniteSet(R), NEW L, Orders(L, R)
  PROVE  /\ Cardinality(R) \in Nat
         /\ \A r \in R : Rank(L, R, r) \in 0 .. Cardinality(R) - 1
         /\ \A a, b \in R : <<a, b>> \in L => Rank(L, R, a) < Rank(L, R, b)
<1>1. Cardinality(R) \in Nat BY FS_CardinalityType
<1>2. ASSUME NEW r \in R
      PROVE  /\ IsFiniteSet(Preceding(L, R, r)) /\ Rank(L, R, r) \in Nat
             /\ Cardinality(Preceding(L, R, r) \cup {r}) = Rank(L, R, r) + 1
             /\ Rank(L, R, r) + 1 <= Cardinality(R)
  <2>1. /\ Preceding(L, R, r) \subseteq R /\ r \notin Preceding(L, R, r)
        /\ Preceding(L, R, r) \cup {r} \subseteq R
    BY DEF Orders, Preceding
  <2>2. IsFiniteSet(Preceding(L, R, r)) /\ Rank(L, R, r) \in Nat
    BY <2>1, FS_Subset, FS_CardinalityType DEF Rank
  <2>3. Cardinality(Preceding(L, R, r) \cup {r}) = Rank(L, R, r) + 1
    BY <2>1, <2>2, FS_AddElement DEF Rank
  <2>4. Cardinality(Preceding(L, R, r) \cup {r}) <= Cardinality(R) BY <2>1, FS_Subset
  <2> QED BY <2>2, <2>3, <2>4
<1>3. ASSUME NEW a \in R, NEW b \in R, <<a, b>> \in L
      PROVE  Rank(L, R, a) < Rank(L, R, b)
  <2>1. Preceding(L, R, a) \cup {a} \subseteq Preceding(L, R, b) BY <1>3 DEF Orders, Preceding
  <2>2. IsFiniteSet(Preceding(L, R, b)) BY <1>2
  <2>3. Cardinality(Preceding(L, R, a) \cup {a}) <= Cardinality(Preceding(L, R, b)) BY <2>1, <2>2, FS_Subset
  <2>4. /\ Cardinality(Preceding(L, R, a) \cup {a}) = Rank(L, R, a) + 1
        /\ Rank(L, R, a) \in Nat /\ Rank(L, R, b) \in Nat
    BY <1>2
  <2>5. Rank(L, R, a) + 1 <= Rank(L, R, b) BY <2>3, <2>4 DEF Rank
  <2> QED BY <2>4, <2>5
<1>4. ASSUME NEW r \in R PROVE Rank(L, R, r) \in 0 .. Cardinality(R) - 1
  <2>1. Rank(L, R, r) \in Nat /\ Rank(L, R, r) + 1 <= Cardinality(R) BY <1>2
  <2> QED BY <1>1, <2>1
<1> QED BY <1>1, <1>3, <1>4

\* The members of an ordered finite set are ranked.
LEMMA RankReached ==
  ASSUME NEW R, IsFiniteSet(R), NEW L, Orders(L, R)
  PROVE  Ranked(L, R)
<1> DEFINE n == Cardinality(R)
           f == [r \in R |-> Rank(L, R, r)]
<1>1. /\ n \in Nat /\ \A r \in R : Rank(L, R, r) \in 0 .. n - 1
      /\ \A a, b \in R : <<a, b>> \in L => Rank(L, R, a) < Rank(L, R, b)
  BY RankGrows
<1>2. ASSUME NEW a \in R, NEW b \in R, Rank(L, R, a) = Rank(L, R, b) PROVE a = b
  <2>1. SUFFICES ASSUME a # b PROVE FALSE OBVIOUS
  <2>2. Rank(L, R, a) < Rank(L, R, b) \/ Rank(L, R, b) < Rank(L, R, a) BY <1>1, <2>1 DEF Orders
  <2>3. Rank(L, R, a) \in Int BY <1>1
  <2> QED BY <1>2, <2>2, <2>3
<1>3. f \in Injection(R, 0 .. n - 1) BY <1>1, <1>2 DEF Injection, IsInjective
<1>4. IsFiniteSet(0 .. n - 1) /\ Cardinality(0 .. n - 1) = n
  <2> HIDE DEF n
  <2>1. n - 1 \in Int BY <1>1
  <2> QED BY <1>1, <2>1, FS_Interval
<1>5. f \in Surjection(R, 0 .. n - 1) BY <1>3, <1>4, FS_Injection
<1>6. \A k \in 0 .. n - 1 : \E r \in R : f[r] = k BY <1>5 DEF Surjection
<1> QED BY <1>2, <1>6 DEF Ranked

\* The sequence `a` holds what s has at the positions in S, in order.
Lists(a, s, S, p) ==
  /\ Cardinality(S) \in Nat
  /\ a = [k \in 1 .. Cardinality(S) |-> s[p[k]]]
  /\ \A k \in 1 .. Cardinality(S) : p[k] \in S
  /\ \A i \in S : \E k \in 1 .. Cardinality(S) : p[k] = i
  /\ \A k, l \in 1 .. Cardinality(S) : k < l => p[k] < p[l]

\* At(s, S) is such a sequence.
LEMMA AtFacts ==
  ASSUME NEW s, NEW n \in Nat, NEW S \in SUBSET (1 .. n)
  PROVE  \E p : Lists(Realtime!At(s, S), s, S, p)
<1> DEFINE L == {x \in S \X S : x[1] < x[2]}
           N == Cardinality(S)
           c(k) == CHOOSE i \in S : Cardinality(S \cap 1 .. i - 1) = k - 1
           p == [k \in 1 .. N |-> c(k)]
<1>1. \A i \in S : i \in Int /\ 1 <= i OBVIOUS
<1>2. Orders(L, S) BY <1>1 DEF Orders
<1>3. IsFiniteSet(S) /\ N \in Nat
  <2>1. IsFiniteSet(1 .. n) BY FS_Interval
  <2> QED BY <2>1, FS_Subset, FS_CardinalityType
<1>4. \A i \in S : Cardinality(S \cap 1 .. i - 1) = Rank(L, S, i)
  <2>1. TAKE i \in S
  <2>2. \A o \in S : <<o, i>> \in L <=> o \in 1 .. i - 1 BY <1>1
  <2> HIDE DEF L
  <2>3. S \cap 1 .. i - 1 = Preceding(L, S, i) BY <2>2 DEF Preceding
  <2> QED BY <2>3 DEF Rank
<1>5. \A a, b \in S : <<a, b>> \in L <=> a < b OBVIOUS
<1> HIDE DEF L
<1>6. \A k \in 0 .. N - 1 : \E r \in S : Rank(L, S, r) = k
  <2>1. Ranked(L, S) BY <1>2, <1>3, RankReached
  <2> HIDE DEF p, c
  <2> QED BY <2>1 DEF Ranked
<1>7. \A k \in 1 .. N : p[k] \in S /\ Rank(L, S, p[k]) = k - 1
  <2>1. TAKE k \in 1 .. N
  <2>2. \E i \in S : Rank(L, S, i) = k - 1
    <3>1. k - 1 \in 0 .. N - 1 BY <1>3
    <3> HIDE DEF c, p, N
    <3> QED BY <1>6, <3>1
  <2>3. \E i \in S : Cardinality(S \cap 1 .. i - 1) = k - 1
    <3>1. PICK i \in S : Rank(L, S, i) = k - 1 BY <2>2
    <3>2. Cardinality(S \cap 1 .. i - 1) = k - 1 BY <1>4, <3>1
    <3> QED BY <3>2
  <2>4. c(k) \in S /\ Cardinality(S \cap 1 .. c(k) - 1) = k - 1 BY <2>3
  <2> HIDE DEF c
  <2>5. p[k] \in S /\ Cardinality(S \cap 1 .. p[k] - 1) = k - 1 BY <2>4
  <2> HIDE DEF p
  <2> QED BY <1>4, <2>5
<1>8. Realtime!At(s, S) = [k \in 1 .. N |-> s[p[k]]]
  <2>1. Realtime!At(s, S) = [k \in 1 .. N |-> s[c(k)]] BY DEF Realtime!At, Realtime!Cardinality, Cardinality
  <2> HIDE DEF c, N
  <2> QED BY <2>1
<1> HIDE DEF p
<1>9. ASSUME NEW i \in S PROVE \E k \in 1 .. N : p[k] = i
  <2>1. Rank(L, S, i) \in 0 .. N - 1 BY <1>2, <1>3, RankGrows
  <2> DEFINE k == Rank(L, S, i) + 1
  <2>2. k \in 1 .. N /\ k - 1 = Rank(L, S, i) BY <1>3, <2>1
  <2> HIDE DEF k
  <2>3. Ranked(L, S) BY <1>2, <1>3, RankReached
  <2>4. p[k] = i BY <1>7, <2>2, <2>3 DEF Ranked
  <2> QED BY <2>2, <2>4
<1>10. ASSUME NEW k \in 1 .. N, NEW l \in 1 .. N, k < l PROVE p[k] < p[l]
  <2>1. p[k] \in S /\ p[l] \in S /\ Rank(L, S, p[k]) = k - 1 /\ Rank(L, S, p[l]) = l - 1 BY <1>7
  <2>2. k - 1 < l - 1 /\ ~(l - 1 < k - 1) BY <1>3, <1>10
  <2>3. p[k] # p[l] BY <2>1, <2>2
  <2>4. ~(<<p[l], p[k]>> \in L) BY <1>2, <1>3, <2>1, <2>2, RankGrows
  <2>5. <<p[k], p[l]>> \in L BY <1>2, <2>1, <2>3, <2>4 DEF Orders
  <2> QED BY <1>5, <2>1, <2>5
<1>11. Lists(Realtime!At(s, S), s, S, p) BY <1>3, <1>7, <1>8, <1>9, <1>10 DEF Lists
<1> QED BY <1>11

\* The rows of `a` are those of `rows` that are the last with their key, one for
\* every key.
HoldsLasts(a, rows, keys, n) ==
  /\ \A x \in DOMAIN a : \E i \in 1 .. n : /\ a[x] = rows[i]
                                           /\ \A j \in 1 .. n : keys[j] = keys[i] => j <= i
  /\ \A j \in 1 .. n : \E x \in DOMAIN a : \E i \in 1 .. n : a[x] = rows[i] /\ keys[i] = keys[j]

\* An index is such a sequence.
LEMMA IndexedFacts ==
  ASSUME NEW n \in Nat, NEW rows, NEW keys, DOMAIN rows = 1 .. n, keys = [i \in 1 .. n |-> keys[i]]
  PROVE  HoldsLasts(Realtime!Indexed(rows, keys), rows, keys, n)
<1> DEFINE IsLast(i, k) == keys[i] = k /\ \A j \in i + 1 .. Len(keys) : keys[j] # k
           last(k) == CHOOSE i \in DOMAIN keys : IsLast(i, k)
           F == Realtime!Firsts(keys)
           heads == [i \in 1 .. n |-> rows[last(keys[i])]]
           a == Realtime!Indexed(rows, keys)
<1>1. DOMAIN keys = 1 .. n /\ Len(keys) = n
  <2> DEFINE k == [i \in 1 .. n |-> keys[i]]
  <2>1. DOMAIN k = 1 .. n /\ Len(k) = n OBVIOUS
  <2> HIDE DEF k
  <2>2. keys = k BY DEF k
  <2> QED BY <2>1, <2>2
<1>2. ASSUME NEW i \in 1 .. n
      PROVE  /\ last(keys[i]) \in 1 .. n /\ keys[last(keys[i])] = keys[i]
             /\ \A j \in 1 .. n : keys[j] = keys[i] => j <= last(keys[i])
  <2> DEFINE T == {d \in Nat : \E j \in 1 .. n : keys[j] = keys[i] /\ d = n - j}
  <2>1. n - i \in T OBVIOUS
  <2>2. PICK d \in T : \A c \in T : d <= c
    <3>1. T \subseteq Nat /\ T # {} BY <2>1
    <3> HIDE DEF T
    <3> QED BY <3>1, LeastNatural
  <2>3. PICK h \in 1 .. n : keys[h] = keys[i] /\ d = n - h OBVIOUS
  <2>4. \A j \in 1 .. n : keys[j] = keys[i] => j <= h
    <3>1. SUFFICES ASSUME NEW j \in 1 .. n, keys[j] = keys[i] PROVE j <= h OBVIOUS
    <3>2. n - j \in T BY <3>1
    <3>3. d <= n - j BY <2>2, <3>2
    <3> QED BY <2>3, <3>3
  <2>5. IsLast(h, keys[i])
    <3>1. \A j \in h + 1 .. n : j \in 1 .. n /\ ~(j <= h) OBVIOUS
    <3> QED BY <1>1, <2>3, <2>4, <3>1
  <2> DEFINE l == last(keys[i])
  <2>6. l \in 1 .. n /\ IsLast(l, keys[i]) BY <1>1, <2>5
  <2> HIDE DEF last
  <2>7. \A j \in 1 .. n : keys[j] = keys[i] => j <= l
    <3>1. SUFFICES ASSUME NEW j \in 1 .. n, keys[j] = keys[i], ~(j <= l) PROVE FALSE OBVIOUS
    <3>2. l \in Nat /\ l \in 1 .. n BY <2>6
    <3> HIDE DEF l
    <3>3. j \in l + 1 .. n BY <3>1, <3>2
    <3> QED BY <1>1, <2>6, <3>1, <3>3
  <2> QED BY <2>6, <2>7
<1>3. F \in SUBSET (1 .. n) /\ F = {i \in 1 .. n : \A j \in 1 .. i - 1 : keys[j] # keys[i]}
  BY <1>1 DEF Realtime!Firsts
<1>4. a = Realtime!At(heads, F)
  <2>1. a = Realtime!At([i \in DOMAIN rows |-> rows[last(keys[i])]], F) BY DEF Realtime!Indexed
  <2> HIDE DEF F, last
  <2> QED BY <2>1
<1> DEFINE N == Cardinality(F)
<1> HIDE DEF F, last, a
<1> HIDE DEF heads
<1>5. PICK p : Lists(a, heads, F, p) BY <1>3, <1>4, AtFacts
<1>6. /\ N \in Nat /\ DOMAIN a = 1 .. N
      /\ \A k \in 1 .. N : a[k] = heads[p[k]] /\ p[k] \in F
      /\ \A i \in F : \E k \in 1 .. N : p[k] = i
  BY <1>5 DEF Lists, N
<1> HIDE DEF N
<1>7. ASSUME NEW x \in 1 .. N
      PROVE  LET i == last(keys[p[x]])
             IN  /\ i \in 1 .. n /\ a[x] = rows[i] /\ keys[i] = keys[p[x]]
                 /\ \A j \in 1 .. n : keys[j] = keys[i] => j <= i
  <2>1. p[x] \in 1 .. n BY <1>3, <1>6
  <2>2. a[x] = heads[p[x]] /\ heads[p[x]] = rows[last(keys[p[x]])] BY <1>6, <2>1 DEF heads
  <2> QED BY <1>2, <2>1, <2>2
<1>8. ASSUME NEW j \in 1 .. n
      PROVE  \E x \in DOMAIN a : \E i \in 1 .. n : a[x] = rows[i] /\ keys[i] = keys[j]
  <2> DEFINE T == {i \in 1 .. n : keys[i] = keys[j]}
  <2>1. T \subseteq Nat /\ T # {} OBVIOUS
  <2>2. PICK i \in T : \A k \in T : i <= k
    <3> HIDE DEF T
    <3> QED BY <2>1, LeastNatural
  <2>3. i \in 1 .. n /\ keys[i] = keys[j] OBVIOUS
  <2>4. \A k \in 1 .. i - 1 : keys[k] # keys[i]
    <3>1. SUFFICES ASSUME NEW k \in 1 .. i - 1, keys[k] = keys[i] PROVE FALSE OBVIOUS
    <3>2. k \in T /\ ~(i <= k) BY <2>3, <3>1
    <3> QED BY <2>2, <3>2
  <2>5. i \in F BY <1>3, <2>3, <2>4
  <2>6. PICK x \in 1 .. N : p[x] = i BY <1>6, <2>5
  <2> QED BY <1>6, <1>7, <2>3, <2>6
<1>9. ASSUME NEW x \in DOMAIN a
      PROVE  \E i \in 1 .. n : a[x] = rows[i] /\ \A j \in 1 .. n : keys[j] = keys[i] => j <= i
  BY <1>6, <1>7, <1>9
<1>10. HoldsLasts(a, rows, keys, n) BY <1>8, <1>9 DEF HoldsLasts
<1> QED BY <1>10 DEF a

(***************************************************************************)
(* Trip updates.                                                           *)
(***************************************************************************)
\* The entities of a message that update a trip, and those about one run.
Updating(m) == {i \in DOMAIN m.entities : ~m.entities[i].deleted /\ m.entities[i].update # None}
UpdatingRun(m, trip, day) ==
  {i \in Updating(m) : m.entities[i].update.trip = trip /\ m.entities[i].update.date = day}

\* Update v is that of entity i, but for how fresh it is.
OfEntity(v, m, i) == /\ v # None /\ Realtime!TripKeyOf(v) = Realtime!TripKeyOf(m.entities[i].update)
                     /\ v.rel = m.entities[i].update.rel /\ v.stops = m.entities[i].update.stops

\* How fresh an observation is, is one of four.
LEMMA FourStates == \A a, b : Realtime!CombineFreshness(a, b) \in {"current", "stale", "unknown", "future"}
BY DEF Realtime!CombineFreshness

\* The updates of a snapshot: of the entities about one run the last.
LEMMA SnapshotUpdates ==
  ASSUME NEW m \in Feeds, NEW t
  PROVE  LET u == Realtime!NormalizeSnapshot(m, t).updates
         IN  /\ \A x \in DOMAIN u : \E i \in Updating(m) :
                  /\ OfEntity(u[x], m, i)
                  /\ \A j \in Updating(m) : Realtime!TripKeyOf(m.entities[j].update) = Realtime!TripKeyOf(u[x]) => j <= i
             /\ \A j \in Updating(m) : \E x \in DOMAIN u :
                  Realtime!TripKeyOf(u[x]) = Realtime!TripKeyOf(m.entities[j].update)
<1> DEFINE e == m.entities
           S == Updating(m)
           age == Realtime!ClassifyTimestamp(m.stamp, t)
           updated == Realtime!At(e, S)
           carried == [k \in DOMAIN updated |-> updated[k].update]
           rows == Realtime!Observations(carried, age, t)
           keys == [k \in DOMAIN rows |-> Realtime!TripKeyOf(rows[k])]
           u == Realtime!NormalizeSnapshot(m, t).updates
<1>1. u = Realtime!Indexed(rows, keys) BY DEF Realtime!NormalizeSnapshot, Updating
<1>2. /\ Len(e) \in Nat /\ DOMAIN e = 1 .. Len(e)
      /\ \A i \in DOMAIN e : e[i].update # None => Decoded(e[i].update)
  <2> DEFINE R == {m.entities[i] : i \in DOMAIN m.entities}
  <2>1. e \in Seq(R) /\ \A i \in DOMAIN e : e[i].update # None => Decoded(e[i].update) BY FeedsAssumption
  <2> HIDE DEF e, R
  <2> QED BY <2>1
<1>3. S \in SUBSET (1 .. Len(e)) /\ \A i \in S : Decoded(e[i].update) BY <1>2 DEF Updating
<1> HIDE DEF e, S
<1>4. PICK p : Lists(updated, e, S, p) BY <1>2, <1>3, AtFacts
<1> DEFINE n == Cardinality(S)
<1>5. /\ n \in Nat /\ DOMAIN updated = 1 .. n
      /\ \A k \in 1 .. n : p[k] \in S /\ updated[k] = e[p[k]]
      /\ \A i \in S : \E k \in 1 .. n : p[k] = i
      /\ \A k, l \in 1 .. n : k < l => p[k] < p[l]
  BY <1>4 DEF Lists
<1> HIDE DEF n, updated
<1>6. ASSUME NEW k \in 1 .. n
      PROVE  OfEntity(rows[k], m, p[k]) /\ keys[k] = Realtime!TripKeyOf(e[p[k]].update)
  <2> DEFINE w == e[p[k]].update
             s == Realtime!CombineFreshness(age, Realtime!ClassifyTimestamp(w.stamp, t))
  <2>1. k \in DOMAIN carried /\ carried[k] = w BY <1>5
  <2>2. rows[k] = [w EXCEPT !.state = s] /\ DOMAIN rows = 1 .. n
    BY <1>5, <2>1 DEF Realtime!Observations
  <2>3. s \in {"current", "stale", "unknown", "future"} BY FourStates
  <2>4. Decoded(w) BY <1>3, <1>5
  <2>5. keys[k] = Realtime!TripKeyOf(rows[k]) BY <2>2
  <2> HIDE DEF rows, keys, w, s
  <2>6. /\ rows[k] # None /\ rows[k].trip = w.trip /\ rows[k].date = w.date
        /\ rows[k].rel = w.rel /\ rows[k].stops = w.stops
    BY <2>2, <2>3, <2>4 DEF Decoded
  <2>7. Realtime!TripKeyOf(rows[k]) = Realtime!TripKeyOf(w) BY <2>6 DEF Realtime!TripKeyOf
  <2> QED BY <2>5, <2>6, <2>7 DEF OfEntity, w, e
<1>7. DOMAIN rows = 1 .. n /\ keys = [k \in 1 .. n |-> keys[k]] BY <1>5 DEF Realtime!Observations
<1> HIDE DEF rows, keys
<1>8. HoldsLasts(u, rows, keys, n) BY <1>1, <1>5, <1>7, IndexedFacts
<1> HIDE DEF u
<1>9. ASSUME NEW x \in DOMAIN u
      PROVE  \E i \in S : /\ OfEntity(u[x], m, i)
                          /\ \A j \in S : Realtime!TripKeyOf(e[j].update) = Realtime!TripKeyOf(u[x]) => j <= i
  <2>1. PICK k \in 1 .. n : u[x] = rows[k] /\ \A l \in 1 .. n : keys[l] = keys[k] => l <= k
    BY <1>8 DEF HoldsLasts
  <2>2. OfEntity(u[x], m, p[k]) /\ keys[k] = Realtime!TripKeyOf(u[x]) /\ p[k] \in S
    BY <1>5, <1>6, <2>1 DEF OfEntity, e
  <2>3. ASSUME NEW j \in S, Realtime!TripKeyOf(e[j].update) = Realtime!TripKeyOf(u[x]) PROVE j <= p[k]
    <3>1. PICK l \in 1 .. n : p[l] = j BY <1>5
    <3>2. l <= k BY <1>6, <2>1, <2>2, <2>3, <3>1
    <3>3. l = k \/ l < k BY <1>5, <3>2
    <3>4. p[l] \in Int /\ p[k] \in Int
      <4>1. p[l] \in S /\ p[k] \in S BY <1>5
      <4>2. p[l] \in 1 .. Len(e) /\ p[k] \in 1 .. Len(e) BY <1>3, <4>1
      <4> QED BY <4>2
    <3> QED BY <1>5, <3>1, <3>3, <3>4
  <2> QED BY <2>2, <2>3
<1>10. ASSUME NEW j \in S
       PROVE  \E x \in DOMAIN u : Realtime!TripKeyOf(u[x]) = Realtime!TripKeyOf(e[j].update)
  <2>1. PICK l \in 1 .. n : p[l] = j BY <1>5
  <2>2. PICK x \in DOMAIN u : \E k \in 1 .. n : u[x] = rows[k] /\ keys[k] = keys[l]
    BY <1>8 DEF HoldsLasts
  <2>3. PICK k \in 1 .. n : u[x] = rows[k] /\ keys[k] = keys[l] BY <2>2
  <2>4. Realtime!TripKeyOf(u[x]) = keys[k] BY <1>6, <2>3 DEF OfEntity, e
  <2> QED BY <1>6, <2>1, <2>3, <2>4
<1> QED BY <1>9, <1>10 DEF u, S, e

\* What is found for a run is the last of what the message says of it.
LEMMA UpdateFound ==
  ASSUME NEW m \in Feeds, NEW t, NEW trip, NEW day
  PROVE  LET u == Realtime!FindTripUpdate(Realtime!NormalizeSnapshot(m, t), trip, day)
             says == UpdatingRun(m, trip, day)
         IN  \/ u = None /\ says = {}
             \/ u # None /\ \E i \in says : OfEntity(u, m, i) /\ \A j \in says : j <= i
<1> DEFINE rows == Realtime!NormalizeSnapshot(m, t).updates
           key == [trip |-> trip, date |-> day]
           found == {x \in DOMAIN rows : Realtime!TripKeyOf(rows[x]) = key}
           u == Realtime!FindTripUpdate(Realtime!NormalizeSnapshot(m, t), trip, day)
           says == UpdatingRun(m, trip, day)
<1>1. u = IF found = {} THEN None ELSE rows[CHOOSE x \in found : TRUE] BY DEF Realtime!FindTripUpdate
<1>2. /\ \A x \in DOMAIN rows : \E i \in Updating(m) :
           /\ OfEntity(rows[x], m, i)
           /\ \A j \in Updating(m) : Realtime!TripKeyOf(m.entities[j].update) = Realtime!TripKeyOf(rows[x]) => j <= i
      /\ \A j \in Updating(m) : \E x \in DOMAIN rows :
           Realtime!TripKeyOf(rows[x]) = Realtime!TripKeyOf(m.entities[j].update)
  BY SnapshotUpdates
<1> HIDE DEF u, rows
<1>3. says = {j \in Updating(m) : Realtime!TripKeyOf(m.entities[j].update) = key}
  BY DEF UpdatingRun, Realtime!TripKeyOf
<1> HIDE DEF key, says
<1>4. CASE found = {}
  <2>1. says = {} BY <1>2, <1>3, <1>4
  <2> QED BY <1>1, <1>4, <2>1 DEF u, says
<1>5. CASE found # {}
  <2>1. PICK x \in found : u = rows[x] BY <1>1, <1>5
  <2>2. x \in DOMAIN rows /\ Realtime!TripKeyOf(u) = key BY <2>1
  <2>3. PICK i \in Updating(m) :
          /\ OfEntity(u, m, i)
          /\ \A j \in Updating(m) : Realtime!TripKeyOf(m.entities[j].update) = Realtime!TripKeyOf(u) => j <= i
    BY <1>2, <2>1, <2>2
  <2>4. i \in says BY <1>3, <2>2, <2>3 DEF OfEntity
  <2>5. \A j \in says : j <= i BY <1>3, <2>2, <2>3
  <2>6. u # None BY <2>3 DEF OfEntity
  <2> QED BY <2>3, <2>4, <2>5, <2>6 DEF u, says
<1> QED BY <1>4, <1>5

(***************************************************************************)
(* The departures.                                                         *)
(***************************************************************************)
\* The generation is a compiled one.
Committed == outcome = "compiled" /\ IInv /\ RowsInv

\* The command has read the clock twice, on days that the model has.
ClockRead == /\ date \in Int /\ 1 <= date /\ date < LastDay
             /\ now \in Int /\ Midnight[date] <= now /\ now <= Midnight[date + 1]

\* The tables of a compiled generation.
LEMMA CommittedTables ==
  ASSUME Committed
  PROVE  /\ TimedRows(store) /\ Linked(store) /\ KeyedTrips(store.trips)
         /\ \A s \in store.stops : ValidStop(store, s)
BY DEF Committed, RowsInv, IInv, CompiledIsPublishable, ValidateResolvedDataset

\* The day before the date read and the day after it are days of the model.
LEMMA ServiceDates == ASSUME ClockRead PROVE \A d \in NextServiceDates : d \in Days /\ d \in Int
<1>1. LastDay \in Nat BY DaysAssumption
<1>2. NextServiceDates = {date - 1, date, date + 1} BY DEF NextServiceDates
<1>3. date - 1 \in Days /\ date \in Days /\ date + 1 \in Days BY <1>1 DEF ClockRead, Days
<1> QED BY <1>2, <1>3 DEF Days

\* A departure is a connection of a day, at an instant of its own.
LEMMA DepartureFacts ==
  ASSUME Committed, NEW c \in store.connections, NEW d \in Days
  PROVE  LET r == Departure(d, c)
         IN  /\ r.day = d /\ r.trip = c.trip /\ r.seq = c.fromSeq /\ r.stop = c.from
             /\ r.time = ServiceDayAnchor(d) + c.dep /\ r.time \in Int /\ r.seq \in Int
             /\ c.dep \in Int /\ 0 <= c.dep /\ ServiceDayAnchor(d) \in Int
             /\ r.trip[1] \in Int /\ r.trip[2] \in Int /\ r.trip = <<r.trip[1], r.trip[2]>>
<1>1. /\ c.trip \in DOMAIN store.trips /\ c.fromSeq \in Int /\ c.dep \in 0 .. MaxSeconds
      /\ KeyedTrips(store.trips)
  BY CommittedTables, ConnectionTimes
<1>2. c.trip \in Int \X Nat BY <1>1 DEF KeyedTrips
<1>3. ServiceDayAnchor(d) \in Int BY AnchorNearMidnight
<1>4. c.dep \in Int /\ 0 <= c.dep BY <1>1, RangeAssumption
<1> DEFINE r == Departure(d, c)
<1>5. /\ r.day = d /\ r.trip = c.trip /\ r.seq = c.fromSeq /\ r.stop = c.from
      /\ r.time = ServiceDayAnchor(d) + c.dep
  BY DEF Departure
<1> HIDE DEF r
<1>6. r.time \in Int BY <1>3, <1>4, <1>5
<1> QED BY <1>1, <1>2, <1>3, <1>4, <1>5, <1>6 DEF r

\* What is upcoming is a connection of one of the three dates.
LEMMA UpcomingFacts ==
  ASSUME NEW r
  PROVE  r \in Upcoming <=>
           /\ \E d \in NextServiceDates, c \in store.connections :
                /\ r = Departure(d, c) /\ c.service \in ServicesOn(store, d) /\ c.from \in BoardStops
                /\ route \in {None, store.trips[c.trip].route}
           /\ now <= r.time /\ r.time <= now + NextHours
BY DEF Upcoming, StopDepartures

\* There are finitely many connections, so finitely many departures.
LEMMA UpcomingFinite == ASSUME Committed, ClockRead PROVE IsFiniteSet(Upcoming)
<1> DEFINE rows == DOMAIN store.times
           pairs == rows \X rows
           seg == [p \in pairs |-> Segment(store.trips[store.times[p[1]].trip], store.times[p[1]], store.times[p[2]])]
           runs == NextServiceDates \X store.connections
           dep == [x \in runs |-> Departure(x[1], x[2])]
<1>1. IsFiniteSet(rows) BY CommittedTables DEF TimedRows
<1>2. IsFiniteSet(pairs) BY <1>1, FS_Product
<1>3. \A c \in store.connections : \E p \in pairs : seg[p] = c
  <2>1. TAKE c \in store.connections
  <2>2. PICK i, j \in rows : c = Segment(store.trips[store.times[i].trip], store.times[i], store.times[j])
    BY CommittedTables, ConnectionRows
  <2>3. <<i, j>> \in pairs /\ seg[<<i, j>>] = c BY <2>2
  <2> QED BY <2>3
<1>4. IsFiniteSet(store.connections)
  <2>1. DOMAIN seg = pairs OBVIOUS
  <2> HIDE DEF seg, pairs
  <2> QED BY <1>2, <1>3, <2>1, FiniteImage
<1>5. IsFiniteSet(NextServiceDates)
  <2>1. NextServiceDates = ({date - 1} \cup {date}) \cup {date + 1} BY DEF NextServiceDates
  <2>2. IsFiniteSet({date - 1}) /\ IsFiniteSet({date}) /\ IsFiniteSet({date + 1}) BY FS_Singleton
  <2> QED BY <2>1, <2>2, FS_Union
<1>6. IsFiniteSet(runs) BY <1>4, <1>5, FS_Product
<1>7. \A r \in Upcoming : \E x \in runs : dep[x] = r
  <2>1. TAKE r \in Upcoming
  <2>2. PICK d \in NextServiceDates, c \in store.connections : r = Departure(d, c) BY UpcomingFacts
  <2>3. <<d, c>> \in runs /\ dep[<<d, c>>] = r BY <2>2
  <2> QED BY <2>3
<1>8. DOMAIN dep = runs OBVIOUS
<1> HIDE DEF dep, runs
<1> QED BY <1>6, <1>7, <1>8, FiniteImage

\* No two departures come at one place of the order.
LEMMA UpcomingOrdered ==
  ASSUME Committed, ClockRead
  PROVE  Orders({x \in Upcoming \X Upcoming : Before(x[1], x[2])}, Upcoming)
<1> DEFINE U == Upcoming
           L == {x \in U \X U : Before(x[1], x[2])}
           Placed5(r) == /\ r.time \in Int /\ r.day \in Int /\ r.seq \in Int
                         /\ r.trip[1] \in Int /\ r.trip[2] \in Int /\ r.trip = <<r.trip[1], r.trip[2]>>
<1>1. ASSUME NEW r \in U PROVE Placed5(r)
  <2>1. PICK d \in NextServiceDates, c \in store.connections : r = Departure(d, c) BY UpcomingFacts
  <2>2. d \in Days /\ d \in Int BY ServiceDates
  <2> QED BY <2>1, <2>2, DepartureFacts
<1>2. ASSUME NEW a \in U, NEW b \in U, a.day = b.day, a.trip = b.trip, a.seq = b.seq PROVE a = b
  <2>1. PICK d \in NextServiceDates, c \in store.connections : a = Departure(d, c) BY UpcomingFacts
  <2>2. PICK e \in NextServiceDates, f \in store.connections : b = Departure(e, f) BY UpcomingFacts
  <2>3. d \in Days /\ e \in Days BY ServiceDates
  <2>4. a.day = d /\ b.day = e /\ a.trip = c.trip /\ b.trip = f.trip /\ a.seq = c.fromSeq /\ b.seq = f.fromSeq
    BY <2>1, <2>2, <2>3, DepartureFacts
  <2>5. c = f BY <1>2, <2>4, CommittedTables, OneConnection
  <2> QED BY <1>2, <2>1, <2>2, <2>4, <2>5
<1>3. \A a, b \in U : <<a, b>> \in L <=> Before(a, b) OBVIOUS
<1> HIDE DEF L, U
<1>4. ASSUME NEW a \in U PROVE ~Before(a, a)
  <2>1. Placed5(a) BY <1>1
  <2> QED BY <2>1 DEF Before, RowBefore
<1>5. ASSUME NEW a \in U, NEW b \in U, a # b PROVE Before(a, b) \/ Before(b, a)
  <2>1. Placed5(a) /\ Placed5(b) BY <1>1
  <2>2. ~(a.day = b.day /\ a.trip = b.trip /\ a.seq = b.seq) BY <1>2, <1>5
  <2>3. a.trip = b.trip <=> a.trip[1] = b.trip[1] /\ a.trip[2] = b.trip[2] BY <2>1
  <2> QED BY <2>1, <2>2, <2>3 DEF Before, RowBefore
<1>6. ASSUME NEW a \in U, NEW b \in U, NEW c \in U, Before(a, b), Before(b, c) PROVE Before(a, c)
  <2>1. Placed5(a) /\ Placed5(b) /\ Placed5(c) BY <1>1
  <2>2. /\ a.trip = b.trip <=> a.trip[1] = b.trip[1] /\ a.trip[2] = b.trip[2]
        /\ b.trip = c.trip <=> b.trip[1] = c.trip[1] /\ b.trip[2] = c.trip[2]
        /\ a.trip = c.trip <=> a.trip[1] = c.trip[1] /\ a.trip[2] = c.trip[2]
    BY <2>1
  <2> QED BY <1>6, <2>1, <2>2 DEF Before, RowBefore
<1>7. Orders(L, U) BY <1>3, <1>4, <1>5, <1>6 DEF Orders
<1> QED BY <1>7 DEF L, U

\* Sorting neither loses a departure nor adds one.
LEMMA SortedFacts ==
  ASSUME Committed, ClockRead
  PROVE  /\ Cardinality(Upcoming) \in Nat
         /\ DOMAIN Sorted(Upcoming) = 1 .. Cardinality(Upcoming)
         /\ {Sorted(Upcoming)[k] : k \in DOMAIN Sorted(Upcoming)} = Upcoming
<1> DEFINE U == Upcoming
           n == Cardinality(U)
           L == {x \in U \X U : Before(x[1], x[2])}
           at(k) == CHOOSE r \in U : Cardinality({o \in U : Before(o, r)}) = k - 1
<1>1. IsFiniteSet(U) /\ n \in Nat BY UpcomingFinite, FS_CardinalityType
<1>2. Orders(L, U) BY UpcomingOrdered
<1>3. \A r \in U : {o \in U : Before(o, r)} = Preceding(L, U, r) BY DEF Preceding
<1>4. Sorted(U) = [k \in 1 .. n |-> at(k)] BY DEF Sorted
<1> HIDE DEF L, U
<1>5. Ranked(L, U) BY <1>1, <1>2, RankReached
<1>6. \A r \in U : Rank(L, U, r) \in 0 .. n - 1 BY <1>1, <1>2, RankGrows
<1>7. \A r \in U : Cardinality({o \in U : Before(o, r)}) = Rank(L, U, r) BY <1>3 DEF Rank
<1>8. ASSUME NEW k \in 1 .. n PROVE at(k) \in U /\ Rank(L, U, at(k)) = k - 1
  <2>1. k - 1 \in 0 .. n - 1
    <3> HIDE DEF n, at
    <3> QED BY <1>1
  <2>2. PICK r \in U : Rank(L, U, r) = k - 1
    <3> HIDE DEF at
    <3> QED BY <1>5, <2>1 DEF Ranked
  <2>3. Cardinality({o \in U : Before(o, r)}) = k - 1 BY <1>7, <2>2
  <2>4. at(k) \in U /\ Cardinality({o \in U : Before(o, at(k))}) = k - 1 BY <2>3
  <2> HIDE DEF at
  <2> QED BY <1>7, <2>4
<1>9. ASSUME NEW r \in U PROVE \E k \in 1 .. n : at(k) = r
  <2> DEFINE k == Rank(L, U, r) + 1
  <2>1. Rank(L, U, r) \in 0 .. n - 1 BY <1>6
  <2> HIDE DEF at, n
  <2>2. k \in 1 .. n /\ k - 1 = Rank(L, U, r) BY <1>1, <2>1
  <2> HIDE DEF k
  <2>3. at(k) \in U /\ Rank(L, U, at(k)) = Rank(L, U, r) BY <1>8, <2>2 DEF n
  <2>4. at(k) = r BY <1>5, <2>3 DEF Ranked
  <2> QED BY <2>2, <2>4 DEF n
<1> HIDE DEF n, at
<1>10. DOMAIN Sorted(U) = 1 .. n /\ \A k \in 1 .. n : Sorted(U)[k] = at(k) BY <1>4
<1>11. {Sorted(U)[k] : k \in DOMAIN Sorted(U)} = U BY <1>8, <1>9, <1>10 DEF n
<1> QED BY <1>1, <1>10, <1>11 DEF n, U

\* The stop asked for is one of the generation.
LEMMA StopThere ==
  ASSUME NEW id, id \in IdsOf(store.stops)
  PROVE  StopRow(id) \in store.stops /\ StopRow(id).id = id
<1>1. \E x \in store.stops : x.id = id BY DEF IdsOf
<1> QED BY <1>1 DEF StopRow

\* The parent of a stop is a stop.
LEMMA CanonicalThere ==
  ASSUME Committed, NEW x \in store.stops
  PROVE  x.id \in IdsOf(store.stops) /\ CanonicalStop(x) \in IdsOf(store.stops)
<1>1. x.parent # None => \E y \in store.stops : y.id = x.parent BY CommittedTables DEF ValidStop
<1> QED BY <1>1 DEF CanonicalStop, IdsOf

\* The stops whose departures are asked for are the stop and its family.
LEMMA FamilyAsked == ASSUME Committed, stop \in IdsOf(store.stops) PROVE BoardStops = Family
<1> DEFINE x == StopRow(stop)
           y == PlaceOf(x)
<1>1. x \in store.stops /\ x.id = stop BY StopThere
<1>2. CanonicalStop(x) \in IdsOf(store.stops) BY <1>1, CanonicalThere
<1>3. StopRow(CanonicalStop(x)) \in store.stops /\ StopRow(CanonicalStop(x)).id = CanonicalStop(x)
  BY <1>2, StopThere
<1>4. y = StopRow(CanonicalStop(x)) BY <1>1 DEF PlaceOf, CanonicalStop
<1>5. y \in store.stops /\ y.id = CanonicalStop(x) BY <1>3, <1>4
<1>6. Family = {s.id : s \in {z \in store.stops : z.id = y.id \/ (y.kind = 1 /\ z.parent = y.id)}}
  BY DEF Family
<1>7. BoardStops = IF y.kind = 1 THEN {y.id} \cup Children(y.id) ELSE {y.id}
  BY <1>4, <1>5 DEF BoardStops
<1> HIDE DEF x, y
<1>8. CASE y.kind = 1 BY <1>5, <1>6, <1>7, <1>8 DEF Children
<1>9. CASE y.kind # 1 BY <1>5, <1>6, <1>7, <1>9
<1> QED BY <1>8, <1>9

\* A run that leaves within the window, less than two days after its own day
\* began, is of one of the three dates.
LEMMA DateReached ==
  ASSUME ClockRead, NEW d \in Days, NEW dep \in Int, 0 <= dep, dep < 47,
         now <= ServiceDayAnchor(d) + dep, ServiceDayAnchor(d) + dep <= now + NextHours
  PROVE  d \in NextServiceDates
<1>1. /\ LastDay \in Nat /\ d \in Nat /\ d <= LastDay /\ DayLength[d] \in 23 .. 25
      /\ \A e \in Days : DayLength[e] \in 23 .. 25
  BY DaysAssumption DEF Days
<1>2. date \in Nat /\ date \in Days /\ date + 1 \in Days /\ d \in 0 .. LastDay + 1 /\ d + 1 \in 0 .. LastDay + 1
      /\ date \in 0 .. LastDay + 1 /\ date + 1 \in 0 .. LastDay + 1
  BY <1>1 DEF ClockRead, Days
<1>3. /\ Midnight[d] \in Int /\ Midnight[d + 1] \in Int /\ Midnight[date] \in Int /\ Midnight[date + 1] \in Int
  BY <1>2, MidnightsRise
<1>4. ServiceDayAnchor(d) = Midnight[d + 1] - 24
  <2>1. Midnight[d + 1] = Midnight[d] + DayLength[d] BY MidnightSteps
  <2> QED BY <1>1, <1>3, <2>1 DEF ServiceDayAnchor, Noon
<1>5. NextHours \in Nat /\ NextHours <= 21 BY BoardAssumption
<1>6. d >= date - 1
  <2>1. SUFFICES ASSUME d + 1 < date PROVE FALSE BY <1>1, <1>2
  <2>2. d + 1 \in Days BY <1>1, <1>2, <2>1 DEF Days
  <2>3. Midnight[d + 1 + 1] <= Midnight[date] BY <1>2, <2>1, <2>2, MidnightsRise
  <2>4. Midnight[d + 1 + 1] = Midnight[d + 1] + DayLength[d + 1] /\ DayLength[d + 1] \in 23 .. 25
    BY <1>1, <2>2, MidnightSteps
  <2> QED BY <1>3, <1>4, <2>3, <2>4 DEF ClockRead
<1>7. d <= date + 1
  <2>1. SUFFICES ASSUME date + 1 < d PROVE FALSE BY <1>1, <1>2
  <2>2. Midnight[date + 1 + 1] <= Midnight[d] BY <1>2, <2>1, MidnightsRise
  <2>3. Midnight[date + 1 + 1] = Midnight[date + 1] + DayLength[date + 1] /\ DayLength[date + 1] \in 23 .. 25
    BY <1>1, <1>2, MidnightSteps
  <2>4. Midnight[d + 1] = Midnight[d] + DayLength[d] BY MidnightSteps
  <2> QED BY <1>1, <1>3, <1>4, <1>5, <2>2, <2>3, <2>4 DEF ClockRead
<1> QED BY <1>1, <1>2, <1>6, <1>7 DEF NextServiceDates

\* What is upcoming is all that BoardIsComplete asks for, and no more.
LEMMA UpcomingComplete ==
  ASSUME Committed, ClockRead, stop \in IdsOf(store.stops)
  PROVE  Upcoming =
           {r \in UNION {{Departure(d, c) : c \in {x \in store.connections :
                            x.service \in ServicesOn(store, d) /\ x.dep < 47}} : d \in Days} :
              /\ r.stop \in Family /\ now <= r.time /\ r.time <= now + NextHours
              /\ route \in {None, store.trips[r.trip].route}}
           \cup {r \in Upcoming : r.time - ServiceDayAnchor(r.day) >= 47}
<1> DEFINE All == UNION {{Departure(d, c) : c \in {x \in store.connections :
                            x.service \in ServicesOn(store, d) /\ x.dep < 47}} : d \in Days}
           Asked(r) == /\ r.stop \in Family /\ now <= r.time /\ r.time <= now + NextHours
                       /\ route \in {None, store.trips[r.trip].route}
           Late(r) == r.time - ServiceDayAnchor(r.day) >= 47
<1>1. BoardStops = Family BY FamilyAsked
<1>2. ASSUME NEW r \in Upcoming PROVE (r \in All /\ Asked(r)) \/ Late(r)
  <2>1. PICK d \in NextServiceDates, c \in store.connections :
          /\ r = Departure(d, c) /\ c.service \in ServicesOn(store, d) /\ c.from \in BoardStops
          /\ route \in {None, store.trips[c.trip].route}
    BY UpcomingFacts
  <2>2. d \in Days BY ServiceDates
  <2>3. /\ r.day = d /\ r.trip = c.trip /\ r.stop = c.from /\ r.time = ServiceDayAnchor(d) + c.dep
        /\ c.dep \in Int /\ ServiceDayAnchor(d) \in Int
    BY <2>1, <2>2, DepartureFacts
  <2>4. now <= r.time /\ r.time <= now + NextHours BY UpcomingFacts
  <2>5. Asked(r) BY <1>1, <2>1, <2>3, <2>4
  <2>6. CASE c.dep < 47 BY <2>1, <2>2, <2>5, <2>6
  <2>7. CASE ~(c.dep < 47) BY <2>3, <2>7
  <2> QED BY <2>6, <2>7
<1>3. ASSUME NEW r \in All, Asked(r) PROVE r \in Upcoming
  <2>1. PICK d \in Days : r \in {Departure(d, c) : c \in {x \in store.connections :
                                   x.service \in ServicesOn(store, d) /\ x.dep < 47}}
    OBVIOUS
  <2>2. PICK c \in store.connections :
          r = Departure(d, c) /\ c.service \in ServicesOn(store, d) /\ c.dep < 47
    BY <2>1
  <2>3. /\ r.trip = c.trip /\ r.stop = c.from /\ r.time = ServiceDayAnchor(d) + c.dep
        /\ c.dep \in Int /\ 0 <= c.dep
    BY <2>2, DepartureFacts
  <2>4. d \in NextServiceDates BY <1>3, <2>2, <2>3, DateReached
  <2>5. c.from \in BoardStops /\ route \in {None, store.trips[c.trip].route} BY <1>1, <1>3, <2>3
  <2> QED BY <1>3, <2>2, <2>4, <2>5, UpcomingFacts
<1> HIDE DEF All, Asked, Late
<1>4. Upcoming = {r \in All : Asked(r)} \cup {r \in Upcoming : Late(r)} BY <1>2, <1>3
<1> QED BY <1>4 DEF All, Asked, Late

(***************************************************************************)
(* The invariant.                                                          *)
(***************************************************************************)
\* What a row of the board holds.
IsRow(b) == b = [departure |-> b.departure, label |-> b.label, estimate |-> b.estimate,
                 status |-> b.status, platform |-> b.platform]

\* What JoinIsExact says of one row, of the message and the trips it came from.
RowExact(b, m, trips) ==
  LET r == b.departure
      says == UpdatingRun(m, SourceId(trips[r.trip].id), r.day)
      Timed(u) == /\ u.stop \in {None, SourceId(r.stop)}
                  /\ b.estimate \in {u.dep} \cup IF u.delay = None THEN {} ELSE {r.time + u.delay}
  IN  /\ b.estimate # None => m # None /\ says # {}
      /\ m # None /\ says # {} =>
           \E i \in says : /\ \A j \in says : j <= i
                           /\ m.entities[i].update.rel # "canceled"
                           /\ b.estimate # None => \E k \in DOMAIN m.entities[i].update.stops :
                                                     Timed(m.entities[i].update.stops[k])

\* The tables are sound, and from the first step of the command on they stay.
TablesInv == /\ IInv /\ RowsInv
             /\ boardStep # "idle" => outcome = "compiled"

\* The stop asked for is one of the generation.
StopInv == boardStep \in {"stop", "date", "now", "planned"} => stop \in IdsOf(store.stops)

\* The dates of the two readings are the same, or midnight came between them.
ClockInv ==
  /\ boardStep = "stop" => clock \in Int /\ Midnight[1] <= clock /\ clock < Midnight[LastDay]
  /\ boardStep = "date" => /\ date \in Int /\ 1 <= date /\ date < LastDay
                           /\ clock \in Int /\ Midnight[date] <= clock /\ clock <= Midnight[date + 1]
  /\ boardStep \in {"now", "planned"} => ClockRead

\* What was found is what is upcoming.
PlannedInv == /\ \E n \in Nat : DOMAIN planned = 1 .. n
              /\ boardStep = "planned" /\ limit = 0 => {planned[i] : i \in DOMAIN planned} = Upcoming

\* What is shown is what the feed says.
ShownInv == /\ message \in Feeds \cup {None}
            /\ \E n \in Nat : DOMAIN board = 1 .. n
            /\ \A i \in DOMAIN board : IsRow(board[i])
            /\ boardStep \in {"joined", "merged", "printed"} =>
                 \A i \in DOMAIN board : RowExact(board[i], message, store.trips)

BoardInv == TablesInv /\ StopInv /\ ClockInv /\ limit \in Nat /\ PlannedInv /\ ShownInv

\* At first nothing is compiled and nothing shown.
LEMMA InitBoardInv == WindowInit /\ BoardInit => BoardInv
<1> SUFFICES ASSUME WindowInit, BoardInit PROVE BoardInv
  OBVIOUS
<1>1. /\ boardStep = "idle" /\ planned = <<>> /\ board = <<>> /\ limit = 0 BY DEF BoardInit
<1>2. TablesInv BY <1>1, InitIInv, InitRowsInv DEF WindowInit, TablesInv
<1>3. PlannedInv /\ ShownInv
  <2>1. DOMAIN planned = 1 .. 0 /\ DOMAIN board = 1 .. 0 /\ DOMAIN board = {} BY <1>1
  <2> QED BY <1>1, <2>1 DEF PlannedInv, ShownInv, BoardInit
<1> QED BY <1>1, <1>2, <1>3 DEF BoardInv, StopInv, ClockInv

\* What is upcoming depends on the tables and on what is asked for alone.
LEMMA SameUpcoming ==
  ASSUME UNCHANGED <<store, stop, route, date, now>>
  PROVE  Upcoming' = Upcoming
<1>1. BoardStops' = BoardStops BY DEF BoardStops, CanonicalStop, StopRow, Children
<1>2. ASSUME NEW d PROVE StopDepartures(d)' = StopDepartures(d) BY <1>1 DEF StopDepartures
<1>3. NextServiceDates' = NextServiceDates BY DEF NextServiceDates
<1> QED BY <1>2, <1>3 DEF Upcoming

\* A step of the compiler comes before the command, or changes nothing.
LEMMA CompilingKeepsBoard ==
  ASSUME BoardInv, [CompilerNext]_compilerVars, UNCHANGED boardVars
  PROVE  BoardInv'
<1>1. IInv' /\ RowsInv' BY StepIInv, StepRowsInv DEF BoardInv, TablesInv
<1>2. CASE outcome = "compiled"
  <2>1. UNCHANGED compilerVars BY <1>2, CompiledStays
  <2>2. UNCHANGED <<store, outcome>> /\ UNCHANGED boardVars BY <2>1 DEF compilerVars
  <2>3. TablesInv' BY <1>1, <2>2 DEF BoardInv, TablesInv, boardVars
  <2>4. StopInv' /\ ClockInv' /\ ShownInv' /\ limit' \in Nat
    BY <2>2 DEF BoardInv, StopInv, ClockInv, ClockRead, ShownInv, boardVars
  <2>5. PlannedInv' BY <2>2, SameUpcoming DEF BoardInv, PlannedInv, boardVars
  <2> QED BY <2>3, <2>4, <2>5 DEF BoardInv
<1>3. CASE outcome # "compiled"
  <2>1. boardStep = "idle" BY <1>3 DEF BoardInv, TablesInv
  <2> QED BY <1>1, <2>1 DEF BoardInv, TablesInv, StopInv, ClockInv, PlannedInv, ShownInv, boardVars
<1> QED BY <1>2, <1>3

\* The first steps of the command: the stop, the date, the time.
LEMMA StopResolved == ASSUME BoardInv, ResolveStop, UNCHANGED compilerVars PROVE BoardInv'
<1>1. /\ outcome = "compiled" /\ boardStep' \in {"stop", "failed"} /\ UNCHANGED <<date, now, planned, message, board>>
      /\ clock' \in Starts /\ limit' \in Limits
      /\ boardStep' = "stop" => \E s \in store.stops : stop' \in {s.id, CanonicalStop(s)}
  BY DEF ResolveStop
<1>2. UNCHANGED <<store, outcome>> /\ TablesInv'
  BY <1>1, StepIInv, StepRowsInv DEF compilerVars, BoardInv, TablesInv
<1>3. Committed BY <1>1 DEF Committed, BoardInv, TablesInv
<1>4. StopInv'
  <2>1. boardStep' = "stop" => stop' \in IdsOf(store.stops) BY <1>1, <1>3, CanonicalThere
  <2> QED BY <1>1, <1>2, <2>1 DEF StopInv
<1>5. ClockInv' BY <1>1, BoardAssumption DEF ClockInv
<1>6. limit' \in Nat BY <1>1, BoardAssumption
<1>7. PlannedInv' /\ ShownInv' BY <1>1 DEF BoardInv, PlannedInv, ShownInv
<1> QED BY <1>1, <1>2, <1>4, <1>5, <1>6, <1>7 DEF BoardInv

\* The date is read: the clock is within it.
LEMMA DateWasRead == ASSUME BoardInv, ReadDate, UNCHANGED compilerVars PROVE BoardInv'
<1>1. /\ boardStep = "stop" /\ boardStep' = "date" /\ date' = LocalDate(clock)
      /\ UNCHANGED <<clock, stop, route, limit, now, planned, message, board>>
  BY DEF ReadDate
<1>2. UNCHANGED <<store, outcome>> /\ TablesInv'
  BY <1>1, StepIInv, StepRowsInv DEF compilerVars, BoardInv, TablesInv
<1>3. StopInv' /\ PlannedInv' /\ ShownInv' /\ limit' \in Nat BY <1>1, <1>2 DEF BoardInv, StopInv, PlannedInv, ShownInv
<1>4. clock \in Int /\ Midnight[1] <= clock /\ clock < Midnight[LastDay] BY <1>1 DEF BoardInv, ClockInv
<1>5. LastDay \in Nat BY DaysAssumption
<1>6. Midnight[LastDay] \in Nat /\ Midnight[LastDay + 1] \in Nat BY <1>5, MidnightsRise
<1>7. LastDay \in Days /\ Midnight[LastDay + 1] = Midnight[LastDay] + DayLength[LastDay] /\ DayLength[LastDay] \in 23 .. 25
  BY <1>5, MidnightSteps, DaysAssumption DEF Days
<1>8. LastDay # 0
  <2>1. SUFFICES ASSUME LastDay = 0 PROVE FALSE OBVIOUS
  <2>2. Midnight[LastDay] = 0 /\ Midnight[1] = Midnight[LastDay + 1] BY <2>1, MidnightSteps
  <2> QED BY <1>4, <1>6, <1>7, <2>2
<1>9. 1 \in Days /\ 1 \in 0 .. LastDay + 1 BY <1>5, <1>8 DEF Days
<1>10. Midnight[1] \in Nat BY <1>9, MidnightsRise
<1>11. 0 <= clock /\ clock < Midnight[LastDay + 1] BY <1>4, <1>6, <1>7, <1>10
<1>12. LocalDate(clock) \in Days /\ Midnight[LocalDate(clock)] <= clock /\ clock < Midnight[LocalDate(clock) + 1]
  BY <1>4, <1>11, LocalDateHolds
<1>13. 1 <= LocalDate(clock) BY <1>4, <1>9, <1>11, DatesInOrder
<1>14. ~(LastDay <= LocalDate(clock)) BY <1>4, <1>6, <1>7, <1>11, DatesInOrder
<1>15. ClockInv'
  <2> DEFINE e == LocalDate(clock)
  <2>1. e \in Nat /\ e + 1 \in 0 .. LastDay + 1 BY <1>5, <1>12 DEF Days
  <2>2. Midnight[e + 1] \in Nat BY <2>1, MidnightsRise
  <2> HIDE DEF e
  <2>3. date' = e /\ 1 <= e /\ e < LastDay /\ Midnight[e] <= clock /\ clock <= Midnight[e + 1]
    BY <1>1, <1>4, <1>5, <1>12, <1>13, <1>14, <2>1, <2>2 DEF e
  <2> QED BY <1>1, <1>4, <2>1, <2>3 DEF ClockInv
<1> QED BY <1>2, <1>3, <1>15 DEF BoardInv

\* Time passes, at most until the next midnight.
LEMMA TimePassed == ASSUME BoardInv, TimePasses, UNCHANGED compilerVars PROVE BoardInv'
<1>1. /\ boardStep = "date" /\ clock' = clock + 1 /\ clock < Midnight[date + 1]
      /\ UNCHANGED <<boardStep, stop, route, limit, date, now, planned, message, board>>
  BY DEF TimePasses
<1>2. UNCHANGED <<store, outcome>> /\ TablesInv'
  BY <1>1, StepIInv, StepRowsInv DEF compilerVars, BoardInv, TablesInv
<1>3. StopInv' /\ PlannedInv' /\ ShownInv' /\ limit' \in Nat BY <1>1, <1>2 DEF BoardInv, StopInv, PlannedInv, ShownInv
<1>4. /\ date \in Int /\ 1 <= date /\ date < LastDay
      /\ clock \in Int /\ Midnight[date] <= clock
  BY <1>1 DEF BoardInv, ClockInv
<1>5. LastDay \in Nat BY DaysAssumption
<1>6. date \in 0 .. LastDay + 1 /\ date + 1 \in 0 .. LastDay + 1 BY <1>4, <1>5
<1>7. Midnight[date + 1] \in Nat /\ Midnight[date] \in Nat BY <1>6, MidnightsRise
<1>8. clock + 1 \in Int /\ Midnight[date] <= clock + 1 /\ clock + 1 <= Midnight[date + 1] BY <1>1, <1>4, <1>7
<1>9. ClockInv' BY <1>1, <1>4, <1>8 DEF ClockInv
<1> QED BY <1>2, <1>3, <1>9 DEF BoardInv

\* The clock is read again: on the same date, or at the midnight that ends it.
LEMMA NowWasRead == ASSUME BoardInv, ReadNow, UNCHANGED compilerVars PROVE BoardInv'
<1>1. /\ boardStep = "date" /\ now' = clock /\ boardStep' \in {"now", "failed"}
      /\ UNCHANGED <<clock, stop, route, limit, date, planned, message, board>>
  BY DEF ReadNow
<1>2. UNCHANGED <<store, outcome>> /\ TablesInv'
  BY <1>1, StepIInv, StepRowsInv DEF compilerVars, BoardInv, TablesInv
<1>3. StopInv' /\ PlannedInv' /\ ShownInv' /\ limit' \in Nat BY <1>1, <1>2 DEF BoardInv, StopInv, PlannedInv, ShownInv
<1>4. ClockInv' BY <1>1 DEF BoardInv, ClockInv, ClockRead
<1> QED BY <1>2, <1>3, <1>4 DEF BoardInv

(***************************************************************************)
(* The board.                                                              *)
(***************************************************************************)
\* The departures asked for are those of the window.
LEMMA DeparturesQueried == ASSUME BoardInv, QueryDepartures, UNCHANGED compilerVars PROVE BoardInv'
<1>1. /\ boardStep = "now" /\ boardStep' = "planned" /\ planned' = Cut(Sorted(Upcoming))
      /\ UNCHANGED <<clock, stop, route, limit, date, now, message, board>>
  BY DEF QueryDepartures
<1>2. UNCHANGED <<store, outcome>> /\ TablesInv'
  BY <1>1, StepIInv, StepRowsInv DEF compilerVars, BoardInv, TablesInv
<1>3. /\ Committed /\ ClockRead /\ stop \in IdsOf(store.stops) /\ limit \in Nat
  BY <1>1 DEF Committed, BoardInv, TablesInv, ClockInv, StopInv
<1> DEFINE sorted == Sorted(Upcoming)
           n == Cardinality(Upcoming)
<1>4. n \in Nat /\ DOMAIN sorted = 1 .. n /\ {sorted[k] : k \in DOMAIN sorted} = Upcoming BY <1>3, SortedFacts
<1>5. \E l \in Nat : DOMAIN planned' = 1 .. l
  <2>1. sorted = [k \in 1 .. n |-> sorted[k]] BY <1>4 DEF Sorted
  <2> HIDE DEF sorted, n
  <2>2. Len(sorted) = n
    <3> DEFINE k == [i \in 1 .. n |-> sorted[i]]
    <3>1. Len(k) = n BY <1>4
    <3> HIDE DEF k
    <3> QED BY <2>1, <3>1 DEF k
  <2>3. CASE limit > 0 /\ n > limit
    <3>1. planned' = SubSeq(sorted, 1, limit) BY <1>1, <2>2, <2>3 DEF Cut, sorted
    <3>2. SubSeq(sorted, 1, limit) = [k \in 1 .. limit |-> sorted[k]] BY <1>3, <2>3
    <3> QED BY <1>3, <3>1, <3>2
  <2>4. CASE ~(limit > 0 /\ n > limit) BY <1>1, <1>4, <2>2, <2>4 DEF Cut, sorted
  <2> QED BY <2>3, <2>4
<1>6. PlannedInv'
  <2>1. limit = 0 => {planned'[i] : i \in DOMAIN planned'} = Upcoming BY <1>1, <1>4 DEF Cut
  <2>2. Upcoming' = Upcoming BY <1>1, <1>2, SameUpcoming
  <2> QED BY <1>1, <1>5, <2>1, <2>2 DEF PlannedInv
<1>7. StopInv' /\ ClockInv' /\ ShownInv' BY <1>1, <1>2, <1>3 DEF BoardInv, StopInv, ClockInv, ClockRead, ShownInv
<1> QED BY <1>1, <1>2, <1>3, <1>6, <1>7 DEF BoardInv

\* The best stop update of a trip update for a call: one that names no other.
LEMMA StopUpdateFacts ==
  ASSUME NEW r, NEW update, NEW n \in Nat, DOMAIN update.stops = 1 .. n
  PROVE  LET u == StopUpdateOf(r, update)
         IN  u # None => \E k \in DOMAIN update.stops : u = update.stops[k] /\ u.stop \in {None, SourceId(r.stop)}
<1> DEFINE Meant(u) == u.seq \in {None, r.seq} /\ u.stop \in {None, SourceId(r.stop)}
           matching == {k \in DOMAIN update.stops : Meant(update.stops[k])}
           first == CHOOSE k \in matching : \A j \in matching : k <= j
<1>1. StopUpdateOf(r, update) = IF matching = {} THEN None ELSE update.stops[first] BY DEF StopUpdateOf
<1>2. matching # {} => first \in matching
  <2>1. SUFFICES ASSUME matching # {} PROVE first \in matching OBVIOUS
  <2>2. matching \subseteq Nat OBVIOUS
  <2> HIDE DEF matching
  <2>3. \E k \in matching : \A j \in matching : k <= j BY <2>1, <2>2, LeastNatural
  <2> QED BY <2>3
<1> HIDE DEF first
<1> QED BY <1>1, <1>2

\* A row that was joined says what the feed says, unless it is canceled.
LEMMA JoinedExact ==
  ASSUME NEW m \in Feeds, NEW t, NEW r
  PROVE  LET b == Joined(r, Realtime!NormalizeSnapshot(m, t))
         IN  IsRow(b) /\ (b.status # "canceled" => RowExact(b, m, store.trips))
<1> DEFINE s == Realtime!NormalizeSnapshot(m, t)
           trip == SourceId(store.trips[r.trip].id)
           update == Realtime!FindTripUpdate(s, trip, r.day)
           says == UpdatingRun(m, trip, r.day)
           u == StopUpdateOf(r, update)
           b == Joined(r, s)
           status == IF update.rel = "canceled" THEN "canceled" ELSE IF u # None /\ u.skipped THEN "skipped" ELSE "scheduled"
<1>1. /\ update = None => b = Row(r, None, "scheduled")
      /\ update # None => b = Row(r, Estimate(r, u), status)
  BY DEF Joined, TripUpdateOf
<1>2. \/ update = None /\ says = {}
      \/ update # None /\ \E i \in says : OfEntity(update, m, i) /\ \A j \in says : j <= i
  BY UpdateFound
<1>3. m # None BY FeedsAssumption
<1> HIDE DEF b, update, u
<1>4. ASSUME NEW x, NEW y
      PROVE  IsRow(Row(r, x, y)) /\ Row(r, x, y).departure = r /\ Row(r, x, y).estimate = x /\ Row(r, x, y).status = y
  BY DEF IsRow, Row
<1>5. CASE update = None
  <2>1. b = Row(r, None, "scheduled") /\ says = {} BY <1>1, <1>2, <1>5
  <2>2. b.departure = r /\ b.estimate = None /\ IsRow(b) BY <1>4, <2>1
  <2>3. RowExact(b, m, store.trips) BY <2>1, <2>2 DEF RowExact
  <2> QED BY <2>2, <2>3 DEF b
<1>6. CASE update # None
  <2>1. b.departure = r /\ b.estimate = Estimate(r, u) /\ b.status = status /\ IsRow(b) BY <1>1, <1>4, <1>6
  <2>2. PICK i \in says : OfEntity(update, m, i) /\ \A j \in says : j <= i BY <1>2, <1>6
  <2> DEFINE last == m.entities[i].update
  <2>3. update.rel = last.rel /\ update.stops = last.stops BY <2>2 DEF OfEntity
  <2>4. Decoded(last) BY <2>2, FeedsAssumption DEF UpdatingRun, Updating
  <2>5. \E n \in Nat : DOMAIN update.stops = 1 .. n
    <3> DEFINE q == last.stops
               R == {q[k] : k \in DOMAIN q}
    <3>1. q \in Seq(R) BY <2>4 DEF Decoded
    <3>2. q = update.stops BY <2>3
    <3> HIDE DEF q, R
    <3> QED BY <3>1, <3>2
  <2>6. u # None => \E k \in DOMAIN update.stops : u = update.stops[k] /\ u.stop \in {None, SourceId(r.stop)}
    BY <2>5, StopUpdateFacts DEF u
  <2>7. b.estimate # None => /\ u # None
                             /\ b.estimate \in {u.dep} \cup IF u.delay = None THEN {} ELSE {r.time + u.delay}
    BY <2>1 DEF Estimate
  <2>8. SUFFICES ASSUME b.status # "canceled" PROVE RowExact(b, m, store.trips) BY <2>1 DEF b
  <2>9. last.rel # "canceled" BY <2>1, <2>3, <2>8
  <2>10. b.estimate # None => \E k \in DOMAIN last.stops :
           /\ last.stops[k].stop \in {None, SourceId(r.stop)}
           /\ b.estimate \in {last.stops[k].dep} \cup IF last.stops[k].delay = None THEN {} ELSE {r.time + last.stops[k].delay}
    BY <2>3, <2>6, <2>7
  <2> QED BY <1>3, <2>1, <2>2, <2>9, <2>10 DEF RowExact
<1> QED BY <1>5, <1>6

\* The sequence `a` consists of members of `rows` at positions in S.
PartOf(a, rows, S) == /\ \E l \in Nat : DOMAIN a = 1 .. l
                      /\ \A x \in DOMAIN a : \E i \in S : a[x] = rows[i]

\* Part of a board is a board.
LEMMA PartOfBoard ==
  ASSUME NEW rows, NEW n \in Nat, DOMAIN rows = 1 .. n, NEW S \in SUBSET (1 .. n)
  PROVE  PartOf(Realtime!At(rows, S), rows, S)
<1> DEFINE a == Realtime!At(rows, S)
           l == Cardinality(S)
<1>1. PICK p : Lists(a, rows, S, p) BY AtFacts
<1> HIDE DEF a
<1>2. l \in Nat /\ DOMAIN a = 1 .. l /\ \A k \in 1 .. l : p[k] \in S /\ a[k] = rows[p[k]] BY <1>1 DEF Lists
<1> HIDE DEF l
<1>3. \A x \in DOMAIN a : \E i \in S : a[x] = rows[i] BY <1>2
<1> QED BY <1>2, <1>3 DEF PartOf, a

\* What is joined says what the feed says.
LEMMA UpdatesJoined == ASSUME BoardInv, JoinTripUpdates, UNCHANGED compilerVars PROVE BoardInv'
<1>1. /\ boardStep = "planned" /\ boardStep' = "joined"
      /\ UNCHANGED <<clock, stop, route, limit, date, now, planned>>
  BY DEF JoinTripUpdates
<1>2. UNCHANGED <<store, outcome>> /\ TablesInv'
  BY <1>1, StepIInv, StepRowsInv DEF compilerVars, BoardInv, TablesInv
<1>3. StopInv' /\ ClockInv' /\ PlannedInv' /\ limit' \in Nat
  BY <1>1 DEF BoardInv, StopInv, ClockInv, PlannedInv
<1>4. PICK n \in Nat : DOMAIN planned = 1 .. n BY DEF BoardInv, PlannedInv
<1>5. ASSUME message' = None, board' = [i \in DOMAIN planned |-> Row(planned[i], None, "scheduled")]
      PROVE  ShownInv'
  <2>1. DOMAIN board' = 1 .. n BY <1>4, <1>5
  <2>2. ASSUME NEW i \in DOMAIN board' PROVE IsRow(board'[i]) /\ board'[i].estimate = None
    <3>1. board'[i] = Row(planned[i], None, "scheduled") BY <1>5, <2>1
    <3> QED BY <3>1 DEF Row, IsRow
  <2>3. \A i \in DOMAIN board' : RowExact(board'[i], message', store'.trips) BY <1>5, <2>2 DEF RowExact
  <2> QED BY <1>5, <2>1, <2>2, <2>3 DEF ShownInv
<1>6. ASSUME NEW m \in Feeds,
             LET snapshot == Realtime!NormalizeSnapshot(m, clock)
                 rows == [i \in DOMAIN planned |-> Joined(planned[i], snapshot)]
             IN  message' = m /\ board' = Realtime!At(rows, {i \in DOMAIN rows : rows[i].status # "canceled"})
      PROVE  ShownInv'
  <2> DEFINE snapshot == Realtime!NormalizeSnapshot(m, clock)
             rows == [i \in DOMAIN planned |-> Joined(planned[i], snapshot)]
             S == {i \in DOMAIN rows : rows[i].status # "canceled"}
  <2>1. message' = m /\ board' = Realtime!At(rows, S) BY <1>6
  <2>2. DOMAIN rows = 1 .. n BY <1>4
  <2>3. S \in SUBSET (1 .. n) /\ \A i \in S : rows[i].status # "canceled" BY <2>2
  <2>4. \A i \in 1 .. n : IsRow(rows[i]) /\ (rows[i].status # "canceled" => RowExact(rows[i], m, store.trips))
    <3>1. TAKE i \in 1 .. n
    <3>2. rows[i] = Joined(planned[i], snapshot) BY <1>4
    <3> HIDE DEF rows
    <3> QED BY <3>2, JoinedExact
  <2> HIDE DEF S, rows
  <2>5. /\ \E l \in Nat : DOMAIN board' = 1 .. l
        /\ \A x \in DOMAIN board' : \E i \in S : board'[x] = rows[i]
    <3>1. PartOf(board', rows, S) BY <2>1, <2>2, <2>3, PartOfBoard
    <3> QED BY <3>1 DEF PartOf
  <2>6. \A x \in DOMAIN board' : IsRow(board'[x]) /\ RowExact(board'[x], m, store.trips)
    BY <2>3, <2>4, <2>5
  <2>7. store'.trips = store.trips BY <1>2
  <2> QED BY <2>1, <2>5, <2>6, <2>7 DEF ShownInv
<1>7. ShownInv' BY <1>5, <1>6 DEF JoinTripUpdates
<1> QED BY <1>2, <1>3, <1>7 DEF BoardInv

\* A platform changes nothing else of a row.
LEMMA PlatformsMerged == ASSUME BoardInv, MergePlatforms, UNCHANGED compilerVars PROVE BoardInv'
<1>1. /\ boardStep = "joined" /\ boardStep' = "merged"
      /\ UNCHANGED <<clock, stop, route, limit, date, now, planned, message>>
  BY DEF MergePlatforms
<1>2. UNCHANGED <<store, outcome>> /\ TablesInv'
  BY <1>1, StepIInv, StepRowsInv DEF compilerVars, BoardInv, TablesInv
<1>3. StopInv' /\ ClockInv' /\ PlannedInv' /\ limit' \in Nat
  BY <1>1 DEF BoardInv, StopInv, ClockInv, PlannedInv
<1>4. /\ DOMAIN board' = DOMAIN board
      /\ \A i \in DOMAIN board : board'[i] = board[i] \/ \E p : board'[i] = [board[i] EXCEPT !.platform = p]
  BY DEF MergePlatforms
<1>5. ASSUME NEW i \in DOMAIN board
      PROVE  IsRow(board'[i]) /\ RowExact(board'[i], message', store'.trips)
  <2>1. IsRow(board[i]) /\ RowExact(board[i], message, store.trips) BY <1>1 DEF BoardInv, ShownInv
  <2>2. IsRow(board'[i]) /\ board'[i].departure = board[i].departure /\ board'[i].estimate = board[i].estimate
    BY <1>4, <2>1 DEF IsRow
  <2>3. message' = message /\ store'.trips = store.trips BY <1>1, <1>2
  <2> QED BY <2>1, <2>2, <2>3 DEF RowExact
<1>6. ShownInv' BY <1>1, <1>4, <1>5 DEF BoardInv, ShownInv
<1> QED BY <1>2, <1>3, <1>6 DEF BoardInv

\* A platform is asked for: the rows of it stay as they are.
LEMMA PlatformFiltered == ASSUME BoardInv, FilterPlatform, UNCHANGED compilerVars PROVE BoardInv'
<1>1. /\ boardStep = "merged" /\ boardStep' = "printed"
      /\ UNCHANGED <<clock, stop, route, limit, date, now, planned, message>>
  BY DEF FilterPlatform
<1>2. UNCHANGED <<store, outcome>> /\ TablesInv'
  BY <1>1, StepIInv, StepRowsInv DEF compilerVars, BoardInv, TablesInv
<1>3. StopInv' /\ ClockInv' /\ PlannedInv' /\ limit' \in Nat
  BY <1>1 DEF BoardInv, StopInv, ClockInv, PlannedInv
<1>4. PICK n \in Nat : DOMAIN board = 1 .. n BY DEF BoardInv, ShownInv
<1>5. /\ \E l \in Nat : DOMAIN board' = 1 .. l
      /\ \A x \in DOMAIN board' : \E i \in DOMAIN board : board'[x] = board[i]
  <2>1. CASE board' = board BY <1>4, <2>1
  <2>2. ASSUME NEW p, board' = Realtime!At(board, {i \in DOMAIN board : board[i].platform = p})
        PROVE  <1>5!:
    <3> DEFINE S == {i \in DOMAIN board : board[i].platform = p}
    <3>1. S \in SUBSET (1 .. n) BY <1>4
    <3>2. board' = Realtime!At(board, S) BY <2>2
    <3> HIDE DEF S
    <3>3. PartOf(board', board, S) BY <1>4, <3>1, <3>2, PartOfBoard
    <3>4. S \subseteq DOMAIN board BY <1>4, <3>1
    <3> QED BY <3>3, <3>4 DEF PartOf
  <2> QED BY <2>1, <2>2 DEF FilterPlatform
<1>6. ShownInv'
  <2>1. \A i \in DOMAIN board : IsRow(board[i]) /\ RowExact(board[i], message', store'.trips)
    BY <1>1, <1>2 DEF BoardInv, ShownInv
  <2>2. \A x \in DOMAIN board' : IsRow(board'[x]) /\ RowExact(board'[x], message', store'.trips) BY <1>5, <2>1
  <2> QED BY <1>1, <1>5, <2>2 DEF BoardInv, ShownInv
<1> QED BY <1>2, <1>3, <1>6 DEF BoardInv

(***************************************************************************)
(* The theorems.                                                           *)
(***************************************************************************)
\* The command, and what it shows, stay as described.
THEOREM BoardInvIsInvariant == BoardSpec => []BoardInv
<1>1. ASSUME BoardInv,
             [\/ CompilerNext /\ UNCHANGED <<windowVars, boardVars>>
              \/ BoardNext /\ UNCHANGED <<compilerVars, windowVars>>]_<<compilerVars, windowVars, boardVars>>
      PROVE  BoardInv'
  <2>1. CASE BoardNext /\ UNCHANGED compilerVars
    BY <1>1, <2>1, StopResolved, DateWasRead, TimePassed, NowWasRead, DeparturesQueried, UpdatesJoined,
       PlatformsMerged, PlatformFiltered DEF BoardNext
  <2>2. CASE [CompilerNext]_compilerVars /\ UNCHANGED boardVars BY <1>1, <2>2, CompilingKeepsBoard
  <2> QED BY <1>1, <2>1, <2>2
<1> QED BY <1>1, InitBoardInv, PTL DEF BoardSpec

\* The board misses no run of its window: whatever the calendar, also when
\* midnight comes between the two readings of the clock or clocks change.
THEOREM BoardsAreComplete == BoardSpec => []BoardIsComplete
<1>1. BoardInv => BoardIsComplete
  <2> SUFFICES ASSUME BoardInv, boardStep = "planned", limit = 0 PROVE BoardIsComplete
    BY DEF BoardIsComplete
  <2>1. Committed /\ ClockRead /\ stop \in IdsOf(store.stops)
    BY DEF Committed, BoardInv, TablesInv, ClockInv, StopInv
  <2>2. {planned[i] : i \in DOMAIN planned} = Upcoming BY DEF BoardInv, PlannedInv
  <2> HIDE DEF Upcoming
  <2>3. BoardIsComplete <=>
          Upcoming =
           {r \in UNION {{Departure(d, c) : c \in {x \in store.connections :
                            x.service \in ServicesOn(store, d) /\ x.dep < 47}} : d \in Days} :
              /\ r.stop \in Family /\ now <= r.time /\ r.time <= now + NextHours
              /\ route \in {None, store.trips[r.trip].route}}
           \cup {r \in Upcoming : r.time - ServiceDayAnchor(r.day) >= 47}
    BY <2>2 DEF BoardIsComplete
  <2> QED BY <2>1, <2>3, UpcomingComplete
<1> QED BY <1>1, BoardInvIsInvariant, PTL

\* An estimate is of the run it is shown for, from the last that the feed says
\* of it; a run that the feed cancels is not shown.
THEOREM JoinsAreExact == BoardSpec => []JoinIsExact
<1>1. BoardInv => JoinIsExact
  <2> SUFFICES ASSUME BoardInv, boardStep \in {"joined", "merged", "printed"}, NEW i \in DOMAIN board
               PROVE  LET r == board[i].departure
                      IN  /\ board[i].estimate # None => message # None /\ Says(r) # {}
                          /\ message # None /\ Says(r) # {} =>
                               LET last == message.entities[CHOOSE k \in Says(r) : \A j \in Says(r) : j <= k].update
                               IN  /\ last.rel # "canceled"
                                   /\ board[i].estimate # None =>
                                        \E u \in {last.stops[k] : k \in DOMAIN last.stops} :
                                          /\ u.stop \in {None, SourceId(r.stop)}
                                          /\ board[i].estimate \in {u.dep} \cup IF u.delay = None THEN {} ELSE {r.time + u.delay}
    BY DEF JoinIsExact
  <2> DEFINE b == board[i]
             r == b.departure
             says == UpdatingRun(message, SourceId(store.trips[r.trip].id), r.day)
             Timed(u) == /\ u.stop \in {None, SourceId(r.stop)}
                         /\ b.estimate \in {u.dep} \cup IF u.delay = None THEN {} ELSE {r.time + u.delay}
  <2>1. Says(r) = says BY DEF Says, UpdatingRun, Updating
  <2>2. RowExact(b, message, store.trips) BY DEF BoardInv, ShownInv
  <2>3. /\ b.estimate # None => message # None /\ says # {}
        /\ message # None /\ says # {} =>
             \E k \in says : /\ \A j \in says : j <= k
                             /\ message.entities[k].update.rel # "canceled"
                             /\ b.estimate # None => \E l \in DOMAIN message.entities[k].update.stops :
                                                       Timed(message.entities[k].update.stops[l])
    BY <2>2 DEF RowExact
  <2>4. message # None => \A k \in says : k \in Int
    <3>1. SUFFICES ASSUME message # None, NEW k \in says PROVE k \in Int OBVIOUS
    <3>2. message \in Feeds BY <3>1 DEF BoardInv, ShownInv
    <3> DEFINE e == message.entities
               R == {message.entities[x] : x \in DOMAIN message.entities}
    <3>3. e \in Seq(R) BY <3>2, FeedsAssumption
    <3>4. k \in DOMAIN e BY DEF UpdatingRun, Updating
    <3> HIDE DEF e, R, says
    <3> QED BY <3>3, <3>4
  <2> HIDE DEF says
  <2> DEFINE last == CHOOSE k \in says : \A j \in says : j <= k
  <2>5. ASSUME message # None, says # {}
        PROVE  /\ message.entities[last].update.rel # "canceled"
               /\ b.estimate # None => \E l \in DOMAIN message.entities[last].update.stops :
                                         Timed(message.entities[last].update.stops[l])
    <3> HIDE DEF Timed
    <3>1. PICK k \in says :
             /\ \A j \in says : j <= k
             /\ message.entities[k].update.rel # "canceled"
             /\ b.estimate # None => \E l \in DOMAIN message.entities[k].update.stops :
                                       Timed(message.entities[k].update.stops[l])
      BY <2>3, <2>5
    <3>2. last \in says /\ \A j \in says : j <= last BY <3>1
    <3> HIDE DEF last
    <3>3. last <= k /\ k <= last /\ last \in Int /\ k \in Int BY <2>4, <2>5, <3>1, <3>2
    <3>4. last = k BY <3>3
    <3> QED BY <3>1, <3>4
  <2> HIDE DEF last
  <2>6. last = CHOOSE k \in Says(r) : \A j \in Says(r) : j <= k BY <2>1 DEF last
  <2>7. b.estimate # None => message # None /\ Says(r) # {} BY <2>1, <2>3
  <2>8. message # None /\ Says(r) # {} =>
          /\ message.entities[last].update.rel # "canceled"
          /\ b.estimate # None =>
               \E u \in {message.entities[last].update.stops[k] : k \in DOMAIN message.entities[last].update.stops} : Timed(u)
    <3> HIDE DEF Timed
    <3> QED BY <2>1, <2>5
  <2> QED BY <2>6, <2>7, <2>8, Zenon
<1> QED BY <1>1, BoardInvIsInvariant, PTL

(***************************************************************************)
(* The planner.                                                            *)
(***************************************************************************)
\* What is loaded depends on the tables alone.
LEMMA SameLoad ==
  ASSUME store' = store, NEW q
  PROVE  Load(q)' = Load(q) /\ LoadedConnections(q)' = LoadedConnections(q)
<1>1. /\ LoadedConnections(q)' = LoadedConnections(q)
      /\ LoadContinuations(LoadedConnections(q))' = LoadContinuations(LoadedConnections(q))
  BY SameTablesSameWindow
<1>2. LoadWalking' = LoadWalking
  <2>1. PathwayEdges' = PathwayEdges BY DEF PathwayEdges
  <2>2. TransferEdges' = TransferEdges BY DEF TransferEdges, WalkRules, RuleStops
  <2> QED BY <2>1, <2>2 DEF LoadWalking
<1>3. ASSUME NEW conns PROVE LoadRules(conns)' = LoadRules(conns)
  BY DEF LoadRules, WalkRules, RuleStops, RuleInstances
<1> QED BY <1>1, <1>2, <1>3 DEF Load

\* The answer of the router depends on the tables, the request and its ends alone.
LEMMA SameAnswer ==
  ASSUME UNCHANGED <<store, asked, sources, targets>>, NEW tt, NEW q
  PROVE  Answer(tt, q)' = Answer(tt, q)
<1>1. RouterQuery(tt)' = RouterQuery(tt) BY DEF RouterQuery
<1> QED BY <1>1 DEF Answer

\* The timetable that was loaded is that of the horizon the command is at.
LoadedInv ==
  planStep \in {"check", "origin", "destination", "plan", "planned", "none"} =>
    /\ horizon \in DOMAIN Horizons
    /\ query = Reach(horizon) /\ window = Load(query) /\ window # NoWindow

\* What was found is the answer of the router over it.
FoundInv ==
  /\ planStep \in {"planned", "none"} => best = IF asked.from = asked.to THEN asked.at ELSE Answer(window, query)
  /\ planStep = "none" => ~SomeWay(best) /\ horizon = Len(Horizons)
  /\ planStep = "uncovered" => LoadedConnections(Widest) = {}

\* The inductive invariant of the command.
PlanInv == /\ IInv /\ RowsInv
           /\ planStep # "idle" => outcome = "compiled" /\ asked \in Requests
           /\ LoadedInv /\ FoundInv

\* The horizons are windows that the dates of the model hold.
LEMMA ReachHeld ==
  ASSUME asked \in Requests
  PROVE  /\ \A k \in DOMAIN Horizons : Held(Reach(k))
         /\ Len(Horizons) \in Nat /\ DOMAIN Horizons = 1 .. Len(Horizons) /\ 1 <= Len(Horizons)
         /\ \A k \in DOMAIN Horizons : /\ Horizons[k] \in Nat
                                       /\ Reach(k).at = asked.at /\ Reach(k).latest = asked.latest
                                       /\ Reach(k).horizon = Horizons[k]
<1>1. Horizons \in Seq(Nat) /\ Horizons # <<>> BY RequestsAssumption
<1>2. Len(Horizons) \in Nat /\ DOMAIN Horizons = 1 .. Len(Horizons) /\ 1 <= Len(Horizons) BY <1>1
<1>3. \A k \in DOMAIN Horizons : Horizons[k] \in Nat BY <1>1
<1>4. \A k \in DOMAIN Horizons : Held(Reach(k)) BY RequestsAssumption DEF Reach
<1> QED BY <1>2, <1>3, <1>4 DEF Reach

\* A timetable is refused only where nothing runs, and otherwise holds what is loaded.
LEMMA LoadIs ==
  ASSUME NEW q
  PROVE  /\ Load(q) = NoWindow <=> /\ LocalDate(q.at) \notin store.coverage.start .. store.coverage.end
                                   /\ LoadedConnections(q) = {}
         /\ Load(q) # NoWindow => Load(q) = [connections |-> LoadedConnections(q), walk |-> LoadWalking,
                                             rules |-> LoadRules(LoadedConnections(q)),
                                             continuations |-> LoadContinuations(LoadedConnections(q))]
<1> DEFINE outside == LocalDate(q.at) \notin store.coverage.start .. store.coverage.end
           conns == LoadedConnections(q)
           loaded == [connections |-> conns, walk |-> LoadWalking, rules |-> LoadRules(conns),
                      continuations |-> LoadContinuations(conns)]
<1>1. Load(q) = IF outside /\ conns = {} THEN NoWindow ELSE loaded BY DEF Load
<1>2. loaded # NoWindow
  <2>1. "walk" \in DOMAIN loaded /\ "walk" \notin DOMAIN NoWindow BY DEF NoWindow
  <2> HIDE DEF loaded
  <2> QED BY <2>1
<1> HIDE DEF outside, loaded, conns
<1>3. (Load(q) = NoWindow <=> outside /\ conns = {}) /\ (Load(q) # NoWindow => Load(q) = loaded) BY <1>1, <1>2
<1> QED BY <1>3 DEF outside, loaded, conns

\* A wider horizon is not refused when a narrower one is not.
LEMMA WiderIsLoaded ==
  ASSUME Committed, asked \in Requests, NEW k \in DOMAIN Horizons, NEW l \in DOMAIN Horizons, k <= l,
         Load(Reach(k)) # NoWindow
  PROVE  Load(Reach(l)) # NoWindow
<1>1. Tabled(store) BY DEF Committed, RowsInv, Tabled
<1>2. Held(Reach(k)) /\ Held(Reach(l)) /\ Reach(k).at = Reach(l).at /\ Reach(k).latest = Reach(l).latest
  BY ReachHeld
<1>3. Reach(l).horizon >= Reach(k).horizon
  <2>1. Horizons[k] <= Horizons[l] BY RequestsAssumption
  <2> QED BY <2>1, ReachHeld
<1>4. LoadedConnections(Reach(k)) \subseteq LoadedConnections(Reach(l)) BY <1>1, <1>2, <1>3, WiderHoldsMore
<1> QED BY <1>2, <1>4, LoadIs

\* What the properties call the whole timetable is what the widest horizon loads.
LEMMA WholeIsLoaded ==
  ASSUME Committed, asked \in Requests
  PROVE  WholeTimetable = [connections |-> LoadedConnections(Widest), walk |-> LoadWalking,
                           rules |-> LoadRules(LoadedConnections(Widest)),
                           continuations |-> LoadContinuations(LoadedConnections(Widest))]
<1> DEFINE conns == UNION {Runs(Widest, d) : d \in {x \in Days : x <= LocalDate(WindowEnd(Widest))}}
<1>1. Held(Widest) BY ReachHeld DEF Widest
<1>2. ASSUME NEW i PROVE i \in conns <=> \E d, c : i = Instance(d, c) /\ Running(d, c, Widest)
  <2>1. i \in conns <=> \E d \in Days : d <= LocalDate(WindowEnd(Widest)) /\ i \in Runs(Widest, d) OBVIOUS
  <2>2. \A d : i \in Runs(Widest, d) <=>
                 \E c \in store.connections :
                   /\ c.service \in ServicesOn(store, d) /\ i = Instance(d, c)
                   /\ WindowStart(Widest) <= Moment(Widest, i) /\ Moment(Widest, i) <= WindowEnd(Widest)
    BY DEF Runs
  <2> HIDE DEF conns
  <2> QED BY <2>1, <2>2 DEF Running
<1>3. \A i : i \in conns <=> i \in LoadedConnections(Widest)
  BY <1>1, <1>2, CommittedTables, LoadedAreRunning
<1> HIDE DEF conns
<1>4. conns = LoadedConnections(Widest) BY <1>3
<1>5. WholeTimetable = [connections |-> conns, walk |-> LoadWalking, rules |-> LoadRules(conns),
                        continuations |-> LoadContinuations(conns)]
  BY DEF WholeTimetable, conns
<1> QED BY <1>4, <1>5

\* What the invariant speaks of.
LEMMA SamePlan ==
  ASSUME PlanInv, UNCHANGED <<compilerVars, windowVars, asked, horizon, ends, best>>,
         planStep' = planStep \/ planStep' \notin {"check", "origin", "destination", "plan", "planned", "none", "uncovered"},
         planStep # "idle"
  PROVE  PlanInv'
<1>1. IInv' /\ RowsInv' BY StepIInv, StepRowsInv DEF PlanInv
<1>2. /\ UNCHANGED <<store, outcome, query, window, sources, targets>>
      /\ UNCHANGED <<asked, horizon, best>>
  BY DEF compilerVars, windowVars, ends
<1>3. \A q : Load(q)' = Load(q) /\ LoadedConnections(q)' = LoadedConnections(q) BY <1>2, SameLoad
<1>4. \A k : Reach(k)' = Reach(k) BY <1>2 DEF Reach
<1>5. \A tt, q : Answer(tt, q)' = Answer(tt, q) BY <1>2, SameAnswer
<1>6. planStep' # "idle" => outcome' = "compiled" /\ asked' \in Requests BY <1>2 DEF PlanInv
<1>7. LoadedInv'
  <2>1. Load(query)' = Load(query) /\ Reach(horizon)' = Reach(horizon) BY <1>2, <1>3, <1>4
  <2> QED BY <1>2, <2>1 DEF PlanInv, LoadedInv
<1>8. FoundInv'
  <2>1. LoadedConnections(Widest)' = LoadedConnections(Widest) BY <1>2, <1>3, <1>4 DEF Widest
  <2>2. Answer(window, query)' = Answer(window, query) BY <1>2, <1>5
  <2> QED BY <1>2, <2>1, <2>2 DEF PlanInv, FoundInv, SomeWay
<1> QED BY <1>1, <1>6, <1>7, <1>8 DEF PlanInv

\* At first nothing is compiled and nothing asked.
LEMMA InitPlanInv == WindowInit /\ PlanInit => PlanInv
<1> SUFFICES ASSUME WindowInit, PlanInit PROVE PlanInv
  OBVIOUS
<1>1. planStep = "idle" BY DEF PlanInit
<1> QED BY <1>1, InitIInv, InitRowsInv DEF WindowInit, PlanInv, LoadedInv, FoundInv

\* A step of the compiler comes before the command, or changes nothing.
LEMMA CompilingKeepsPlan ==
  ASSUME PlanInv, [CompilerNext]_compilerVars, UNCHANGED <<windowVars, planVars>>
  PROVE  PlanInv'
<1>1. IInv' /\ RowsInv' BY StepIInv, StepRowsInv DEF PlanInv
<1>2. UNCHANGED <<planStep, asked, horizon, ends, best>> BY DEF planVars
<1>3. CASE planStep = "idle" BY <1>1, <1>2, <1>3 DEF PlanInv, LoadedInv, FoundInv
<1>4. CASE planStep # "idle"
  <2>1. UNCHANGED compilerVars BY <1>4, CompiledStays DEF PlanInv
  <2> QED BY <1>2, <1>4, <2>1, SamePlan
<1> QED BY <1>3, <1>4

\* The request is one that can be made.
LEMMA PlanAsked == ASSUME PlanInv, AskToPlan, UNCHANGED compilerVars PROVE PlanInv'
<1>1. planStep' = "start" /\ outcome = "compiled" /\ asked' \in Requests BY DEF AskToPlan
<1>2. outcome' = outcome /\ IInv' /\ RowsInv' BY StepIInv, StepRowsInv DEF PlanInv, compilerVars
<1> QED BY <1>1, <1>2 DEF PlanInv, LoadedInv, FoundInv

\* The shortest horizon is loaded; outside the coverage the widest, before giving up.
LEMMA FirstLoaded == ASSUME PlanInv, LoadTimetable, UNCHANGED compilerVars PROVE PlanInv'
<1> DEFINE k == IF Load(Reach(1)) = NoWindow THEN Len(Horizons) ELSE 1
<1>1. /\ planStep = "load" /\ UNCHANGED <<asked, store, outcome>>
      /\ horizon' = k /\ query' = Reach(k) /\ window' = Load(Reach(k))
      /\ planStep' = IF window' = NoWindow THEN "uncovered" ELSE "check"
  BY DEF LoadTimetable, LoadHorizon, At, Go, GoAfterStop, compilerVars
<1>2. outcome = "compiled" /\ asked \in Requests BY <1>1 DEF PlanInv
<1>3. IInv' /\ RowsInv' BY StepIInv, StepRowsInv DEF PlanInv
<1>4. \A q : Load(q)' = Load(q) /\ LoadedConnections(q)' = LoadedConnections(q) BY <1>1, SameLoad
<1>5. \A j : Reach(j)' = Reach(j) BY <1>1 DEF Reach
<1>6. k \in DOMAIN Horizons BY <1>2, ReachHeld
<1>7. window' = NoWindow => LoadedConnections(Widest)' = {}
  <2>1. window' = NoWindow => k = Len(Horizons) /\ Load(Reach(Len(Horizons))) = NoWindow BY <1>1
  <2>2. LoadedConnections(Widest)' = LoadedConnections(Reach(Len(Horizons))) BY <1>4, <1>5 DEF Widest
  <2> QED BY <2>1, <2>2, LoadIs
<1> HIDE DEF k
<1>8. LoadedInv'
  <2>1. Reach(horizon)' = Reach(k) /\ Load(query)' = Load(Reach(k)) BY <1>1, <1>4, <1>5
  <2> QED BY <1>1, <1>6, <2>1 DEF LoadedInv
<1>9. FoundInv' BY <1>1, <1>7 DEF FoundInv
<1> QED BY <1>1, <1>2, <1>3, <1>8, <1>9 DEF PlanInv

\* The ends are looked up in what was loaded.
LEMMA EndResolved ==
  ASSUME PlanInv, ResolveOrigin \/ ResolveDestination \/ StartCheck, UNCHANGED compilerVars
  PROVE  PlanInv'
<1>1. /\ planStep \in {"check", "origin", "destination"} /\ planStep' \in {"origin", "destination", "plan", "nowhere"}
      /\ UNCHANGED <<store, outcome, asked, query, window, horizon>>
  BY DEF ResolveOrigin, ResolveDestination, Resolve, StartCheck, At, Go, GoAfterStop, compilerVars, windowVars
<1>2. IInv' /\ RowsInv' BY StepIInv, StepRowsInv DEF PlanInv
<1>3. Load(query)' = Load(query)
  <2>1. \A q : Load(q)' = Load(q) BY <1>1, SameLoad
  <2> QED BY <1>1, <2>1
<1>4. Reach(horizon)' = Reach(horizon) BY <1>1 DEF Reach
<1>5. LoadedInv' BY <1>1, <1>3, <1>4 DEF PlanInv, LoadedInv
<1>6. FoundInv' BY <1>1 DEF FoundInv
<1> QED BY <1>1, <1>2, <1>5, <1>6 DEF PlanInv

\* The router answers over what was loaded.
LEMMA JourneyPlanned == ASSUME PlanInv, PlanJourney, UNCHANGED compilerVars PROVE PlanInv'
<1>1. /\ planStep = "plan" /\ planStep' = "planned"
      /\ UNCHANGED <<store, outcome, asked, query, window, horizon, sources, targets>>
      /\ best' = IF asked.from = asked.to THEN asked.at ELSE Answer(window, query)
  BY DEF PlanJourney, At, Go, compilerVars, windowVars, ends
<1>2. IInv' /\ RowsInv' BY StepIInv, StepRowsInv DEF PlanInv
<1>3. Load(query)' = Load(query)
  <2>1. \A q : Load(q)' = Load(q) BY <1>1, SameLoad
  <2> QED BY <1>1, <2>1
<1>4. Reach(horizon)' = Reach(horizon) BY <1>1 DEF Reach
<1>5. Answer(window, query)' = Answer(window, query)
  <2>1. \A tt, q : Answer(tt, q)' = Answer(tt, q) BY <1>1, SameAnswer
  <2> QED BY <1>1, <2>1
<1>6. LoadedInv' BY <1>1, <1>3, <1>4 DEF PlanInv, LoadedInv
<1>7. FoundInv' BY <1>1, <1>5 DEF FoundInv
<1> QED BY <1>1, <1>2, <1>6, <1>7 DEF PlanInv

\* A wider horizon is loaded, and never refused.
LEMMA HorizonWidened == ASSUME PlanInv, Widen, UNCHANGED compilerVars PROVE PlanInv'
<1> DEFINE k == horizon + 1
<1>1. /\ planStep = "planned" /\ UNCHANGED <<asked, store, outcome>> /\ horizon < Len(Horizons)
      /\ horizon' = k /\ query' = Reach(k) /\ window' = Load(Reach(k))
      /\ planStep' = IF window' = NoWindow THEN "uncovered" ELSE "plan"
  BY DEF Widen, CanWiden, LoadHorizon, At, Go, GoAfterStop, compilerVars
<1>2. outcome = "compiled" /\ asked \in Requests BY <1>1 DEF PlanInv
<1>3. IInv' /\ RowsInv' BY StepIInv, StepRowsInv DEF PlanInv
<1>4. horizon \in DOMAIN Horizons /\ Load(Reach(horizon)) # NoWindow BY <1>1 DEF PlanInv, LoadedInv
<1>5. k \in DOMAIN Horizons /\ horizon <= k
  <2>1. Len(Horizons) \in Nat /\ DOMAIN Horizons = 1 .. Len(Horizons) BY <1>2, ReachHeld
  <2> QED BY <1>1, <1>4, <2>1
<1> HIDE DEF k
<1>6. window' # NoWindow
  <2>1. Committed BY <1>2 DEF Committed, PlanInv
  <2> QED BY <1>1, <1>2, <1>4, <1>5, <2>1, WiderIsLoaded
<1>7. LoadedInv'
  <2>1. \A q : Load(q)' = Load(q) BY <1>1, SameLoad
  <2>2. \A j : Reach(j)' = Reach(j) BY <1>1 DEF Reach
  <2>3. Reach(horizon)' = Reach(k) /\ Load(query)' = Load(Reach(k)) BY <1>1, <2>1, <2>2
  <2> QED BY <1>1, <1>5, <1>6, <2>3 DEF LoadedInv
<1>8. FoundInv' BY <1>1, <1>6 DEF FoundInv
<1> QED BY <1>1, <1>2, <1>3, <1>7, <1>8 DEF PlanInv

\* Nothing was found at the widest horizon.
LEMMA GaveUp == ASSUME PlanInv, GiveUp, UNCHANGED compilerVars PROVE PlanInv'
<1>1. /\ planStep = "planned" /\ planStep' = "none" /\ ~SomeWay(best) /\ ~(horizon < Len(Horizons))
      /\ UNCHANGED <<store, outcome, asked, query, window, horizon, sources, targets, best>>
  BY DEF GiveUp, CanWiden, At, GoAfterStop, compilerVars, windowVars, ends
<1>2. IInv' /\ RowsInv' BY StepIInv, StepRowsInv DEF PlanInv
<1>3. Load(query)' = Load(query)
  <2>1. \A q : Load(q)' = Load(q) BY <1>1, SameLoad
  <2> QED BY <1>1, <2>1
<1>4. Reach(horizon)' = Reach(horizon) BY <1>1 DEF Reach
<1>5. Answer(window, query)' = Answer(window, query)
  <2>1. \A tt, q : Answer(tt, q)' = Answer(tt, q) BY <1>1, SameAnswer
  <2> QED BY <1>1, <2>1
<1>6. horizon = Len(Horizons)
  <2>1. asked \in Requests /\ horizon \in DOMAIN Horizons BY <1>1 DEF PlanInv, LoadedInv
  <2>2. Len(Horizons) \in Nat /\ DOMAIN Horizons = 1 .. Len(Horizons) BY <2>1, ReachHeld
  <2> QED BY <1>1, <2>1, <2>2
<1>7. LoadedInv' BY <1>1, <1>3, <1>4 DEF PlanInv, LoadedInv
<1>8. FoundInv' BY <1>1, <1>5, <1>6 DEF PlanInv, FoundInv, SomeWay
<1> QED BY <1>1, <1>2, <1>7, <1>8 DEF PlanInv

\* The other steps go on to where nothing is said of what was loaded, or are
\* steps of what runs on the side.
LEMMA PlanGoesOn ==
  ASSUME PlanInv, UNCHANGED compilerVars,
         \/ StartSpinner \/ RouterFails \/ KeepJourney \/ Overlay \/ DisruptionsAnswer \/ Report \/ Write \/ Cancelled
         \/ SpinnerEnds \/ CheckAnswers \/ BudgetEnds \/ Interrupt
  PROVE  PlanInv'
<1>1. CASE StartSpinner \/ RouterFails \/ KeepJourney \/ Overlay \/ DisruptionsAnswer \/ Report \/ Write \/ Cancelled
  <2>1. /\ planStep # "idle" /\ UNCHANGED <<windowVars, asked, horizon, ends, best>>
        /\ planStep' \notin {"check", "origin", "destination", "plan", "planned", "none", "uncovered"}
    BY <1>1 DEF StartSpinner, RouterFails, KeepJourney, Overlay, DisruptionsAnswer, Report, Write, Cancelled,
                Interruptible, At, Go, GoAfterStop
  <2> QED BY <2>1, SamePlan
<1>2. CASE SpinnerEnds \/ CheckAnswers \/ BudgetEnds \/ Interrupt
  <2>1. UNCHANGED <<windowVars, planStep, asked, horizon, ends, best>>
    BY <1>2 DEF SpinnerEnds, CheckAnswers, BudgetEnds, Interrupt, Aside
  <2>2. CASE planStep # "idle" BY <2>1, <2>2, SamePlan
  <2>3. CASE planStep = "idle"
    <3>1. IInv' /\ RowsInv' BY StepIInv, StepRowsInv DEF PlanInv
    <3> QED BY <2>1, <2>3, <3>1 DEF PlanInv, LoadedInv, FoundInv
  <2> QED BY <2>2, <2>3
<1> QED BY <1>1, <1>2

\* The timetable, the horizon and what was found stay as described.
THEOREM PlanInvIsInvariant == PlanSpec => []PlanInv
<1>1. ASSUME PlanInv,
             [\/ CompilerNext /\ UNCHANGED <<windowVars, planVars>>
              \/ PlanNext /\ UNCHANGED compilerVars]_<<compilerVars, windowVars, planVars>>
      PROVE  PlanInv'
  <2>1. CASE PlanNext /\ UNCHANGED compilerVars
    BY <1>1, <2>1, PlanAsked, FirstLoaded, EndResolved, JourneyPlanned, HorizonWidened, GaveUp, PlanGoesOn
       DEF PlanNext
  <2>2. CASE [CompilerNext]_compilerVars /\ UNCHANGED <<windowVars, planVars>>
    BY <1>1, <2>2, CompilingKeepsPlan
  <2> QED BY <1>1, <2>1, <2>2
<1> QED BY <1>1, InitPlanInv, PTL DEF PlanSpec

\* The planner says that there is no journey only when the whole of the widest
\* horizon has none, and that the data does not reach only when nothing runs.
THEOREM GivesUpRightly == PlanSpec => []NoWayMissed
<1>1. PlanInv => NoWayMissed
  <2> SUFFICES ASSUME PlanInv, planStep \in {"none", "uncovered"} PROVE NoWayMissed
    BY DEF NoWayMissed
  <2>1. Committed /\ asked \in Requests BY DEF Committed, PlanInv
  <2>2. CASE planStep = "uncovered"
    <3>1. LoadedConnections(Widest) = {} BY <2>2 DEF PlanInv, FoundInv
    <3>2. WholeTimetable.connections = {} BY <2>1, <3>1, WholeIsLoaded
    <3> QED BY <2>2, <3>2 DEF NoWayMissed
  <2>3. CASE planStep = "none"
    <3>1. /\ best = IF asked.from = asked.to THEN asked.at ELSE Answer(window, query)
          /\ ~SomeWay(best) /\ horizon = Len(Horizons)
          /\ query = Reach(horizon) /\ window = Load(query) /\ window # NoWindow
      BY <2>3 DEF PlanInv, LoadedInv, FoundInv
    <3>2. asked.at \notin {Far, -Far} BY <2>1, RequestsAssumption
    <3>3. asked.from # asked.to BY <3>1, <3>2 DEF SomeWay
    <3>4. query = Widest /\ window = WholeTimetable BY <2>1, <3>1, LoadIs, WholeIsLoaded DEF Widest
    <3>5. ~SomeWay(Answer(WholeTimetable, Widest)) BY <3>1, <3>3, <3>4
    <3> QED BY <2>3, <3>5 DEF NoWayMissed
  <2> QED BY <2>2, <2>3
<1> QED BY <1>1, PlanInvIsInvariant, PTL


(***************************************************************************)
(* What is compiled about walking.                                         *)
(***************************************************************************)
\* There are finitely many stops and transfers, and times to walk are numbers.
Sized(t) == /\ IsFiniteSet(t.stops) /\ IsFiniteSet(t.transfers)
            /\ \A r \in t.transfers : r.min \in Nat
            /\ \A p \in t.pathways : p.secs \in Nat \cup {None}

SizedInv == /\ outcome = "running" => Sized(tx)
            /\ outcome = "compiled" => Sized(store) /\ Placed(store.stops)

\* The rows made of a file are finitely many.
LEMMA FinitelyMade ==
  ASSUME IInv, outcome = "running", step # "open", NEW file, NEW T, NEW f,
         DOMAIN f = DOMAIN RowsOrNone(file),
         \A y \in T : \E i \in DOMAIN RowsOrNone(file) : f[i] = y
  PROVE  IsFiniteSet(T)
<1>1. IsFiniteSet(DOMAIN RowsOrNone(file)) BY RowsOfFile
<1> QED BY <1>1, FiniteImage

\* A file fills one table.
LEMMA FileSized ==
  ASSUME IInv, SizedInv, NEW file, NEW valid, NEW name \in Names, NEW table,
         CompileFile(file, valid, [tx EXCEPT ![name] = table]),
         valid /\ outcome = "running" =>
            /\ name = "stops" => IsFiniteSet(table)
            /\ name = "transfers" => IsFiniteSet(table) /\ \A r \in table : r.min \in Nat
            /\ name = "pathways" => \A p \in table : p.secs \in Nat \cup {None}
  PROVE  SizedInv'
<1> DEFINE new == [tx EXCEPT ![name] = table]
<1>1. outcome = "running" /\ Sized(tx) BY DEF CompileFile, Stage, SizedInv
<1>2. new[name] = table /\ \A n \in Names \ {name} : new[n] = tx[n] BY OneTable
<1>3. {"stops", "transfers", "pathways"} \subseteq Names BY DEF Names
<1>4. valid => Sized(new)
  <2> SUFFICES ASSUME valid PROVE Sized(new) OBVIOUS
  <2>1. new["stops"] = tx["stops"] \/ (name = "stops" /\ new["stops"] = table) BY <1>2, <1>3
  <2>2. new["transfers"] = tx["transfers"] \/ (name = "transfers" /\ new["transfers"] = table) BY <1>2, <1>3
  <2>3. new["pathways"] = tx["pathways"] \/ (name = "pathways" /\ new["pathways"] = table) BY <1>2, <1>3
  <2> HIDE DEF new
  <2> QED BY <1>1, <2>1, <2>2, <2>3 DEF Sized
<1>5. Rolled \/ Advance(FileAfter(file), tx) \/ (valid /\ Advance(FileAfter(file), new)) BY DEF CompileFile
<1> HIDE DEF new
<1> QED BY <1>1, <1>4, <1>5 DEF Rolled, Advance, SizedInv

\* Stops, transfers and pathways are made of rows that are sound.
LEMMA FilesSized ==
  ASSUME IInv, SizedInv,
         CompileLevels \/ CompileStops \/ CompileRoutes \/ CompileTransfers \/ CompilePathways
  PROVE  SizedInv'
<1>1. {"levels", "stops", "routes", "transfers", "pathways"} \subseteq Names BY DEF Names
<1>2. CASE CompileLevels
  <2> DEFINE table == tx.levels \cup {Own(RowsOrNone("levels")[i].id) : i \in DOMAIN RowsOrNone("levels")}
             valid == AllOK(RowsOrNone("levels")) /\ NoneRepeats(RowsOrNone("levels"))
  <2>1. CompileFile("levels", valid, [tx EXCEPT !["levels"] = table]) BY <1>2 DEF CompileLevels
  <2> HIDE DEF table, valid
  <2> QED BY <1>1, <2>1, FileSized
<1>3. CASE CompileRoutes
  <2> DEFINE table == tx.routes \cup {[id |-> Own(RowsOrNone("routes")[i].id)] : i \in DOMAIN RowsOrNone("routes")}
             valid == AllOK(RowsOrNone("routes")) /\ NoneRepeats(RowsOrNone("routes"))
  <2>1. CompileFile("routes", valid, [tx EXCEPT !["routes"] = table]) BY <1>3 DEF CompileRoutes
  <2> HIDE DEF table, valid
  <2> QED BY <1>1, <2>1, FileSized
<1>4. CASE CompileStops
  <2> DEFINE rows == RowsOrNone("stops")
             made == Each(rows, StopOf)
             table == tx.stops \cup made
             valid == StopsOK(rows, made, tx.levels)
             f == [i \in DOMAIN rows |-> StopOf(rows[i])]
  <2>1. CompileFile("stops", valid, [tx EXCEPT !["stops"] = table]) BY <1>4 DEF CompileStops
  <2>2. outcome = "running" /\ step # "open" /\ IsFiniteSet(tx.stops)
    BY <1>4 DEF CompileStops, CompileFile, Stage, SizedInv, Sized
  <2>3. \A y \in made : \E i \in DOMAIN rows : f[i] = y BY DEF Each
  <2>4. IsFiniteSet(made)
    <3>1. DOMAIN f = DOMAIN rows OBVIOUS
    <3> HIDE DEF made, f
    <3> QED BY <2>2, <2>3, <3>1, FinitelyMade
  <2> HIDE DEF made, valid
  <2>5. IsFiniteSet(table) BY <2>2, <2>4, FS_Union
  <2> HIDE DEF table
  <2> QED BY <1>1, <2>1, <2>5, FileSized
<1>5. CASE CompileTransfers
  <2> DEFINE rows == RowsOrNone("transfers")
             made == Each(rows, TransferOf)
             table == tx.transfers \cup made
             valid == TransfersOK(rows)
             f == [i \in DOMAIN rows |-> TransferOf(rows[i])]
  <2>1. CompileFile("transfers", valid, [tx EXCEPT !["transfers"] = table]) BY <1>5 DEF CompileTransfers
  <2>2. outcome = "running" /\ step # "open" /\ IsFiniteSet(tx.transfers) /\ \A r \in tx.transfers : r.min \in Nat
    BY <1>5 DEF CompileTransfers, CompileFile, Stage, SizedInv, Sized
  <2>3. \A y \in made : \E i \in DOMAIN rows : f[i] = y BY DEF Each
  <2>4. IsFiniteSet(made)
    <3>1. DOMAIN f = DOMAIN rows OBVIOUS
    <3> HIDE DEF made, f
    <3> QED BY <2>2, <2>3, <3>1, FinitelyMade
  <2>5. ASSUME valid, NEW y \in made PROVE y.min \in Nat
    <3>1. PICK i \in DOMAIN rows : y = TransferOf(rows[i]) BY DEF Each
    <3>2. rows[i].ok BY <2>5 DEF TransfersOK, AllOK
    <3>3. rows[i].min \in Nat \cup {None} BY <2>2, <3>2, RowsOfFile DEF RowIsSound
    <3> QED BY <3>1, <3>3 DEF TransferOf
  <2> HIDE DEF made, valid
  <2>6. IsFiniteSet(table) BY <2>2, <2>4, FS_Union
  <2>7. valid => \A r \in table : r.min \in Nat BY <2>2, <2>5
  <2> HIDE DEF table
  <2> QED BY <1>1, <2>1, <2>6, <2>7, FileSized
<1>6. CASE CompilePathways
  <2> DEFINE rows == RowsOrNone("pathways")
             made == Each(rows, PathwayOf)
             table == tx.pathways \cup made
             valid == PathwaysOK(rows)
  <2>1. CompileFile("pathways", valid, [tx EXCEPT !["pathways"] = table]) BY <1>6 DEF CompilePathways
  <2>2. outcome = "running" /\ step # "open" /\ \A p \in tx.pathways : p.secs \in Nat \cup {None}
    BY <1>6 DEF CompilePathways, CompileFile, Stage, SizedInv, Sized
  <2>3. ASSUME valid, NEW y \in made PROVE y.secs \in Nat \cup {None}
    <3>1. PICK i \in DOMAIN rows : y = PathwayOf(rows[i]) BY DEF Each
    <3>2. rows[i].ok BY <2>3 DEF PathwaysOK, AllOK
    <3>3. rows[i].secs \in Nat \cup {None} BY <2>2, <3>2, RowsOfFile DEF RowIsSound
    <3> QED BY <3>1, <3>3 DEF PathwayOf
  <2> HIDE DEF made, valid
  <2>4. valid => \A p \in table : p.secs \in Nat \cup {None} BY <2>2, <2>3
  <2> HIDE DEF table
  <2> QED BY <1>1, <2>1, <2>4, FileSized
<1> QED BY <1>2, <1>3, <1>4, <1>5, <1>6

\* Files about time fill other tables.
LEMMA TimedFilesSized ==
  ASSUME IInv, SizedInv, CompileCalendar \/ CompileCalendarDates \/ CompileTrips \/ CompileStopTimes
  PROVE  SizedInv'
<1>1. {"services", "exceptions", "trips", "times"} \subseteq Names BY DEF Names
<1>2. CASE CompileCalendar
  <2> DEFINE table == tx.services \cup Each(RowsOrNone("calendar"), ServiceOf)
             valid == CalendarOK(RowsOrNone("calendar"))
  <2>1. CompileFile("calendar", valid, [tx EXCEPT !["services"] = table]) BY <1>2 DEF CompileCalendar
  <2> HIDE DEF table, valid
  <2> QED BY <1>1, <2>1, FileSized
<1>3. CASE CompileTrips
  <2> DEFINE table == AddRows(tx.trips, CompiledTrips(RowsOrNone("trips")))
             valid == TripsOK(RowsOrNone("trips"))
  <2>1. CompileFile("trips", valid, [tx EXCEPT !["trips"] = table]) BY <1>3 DEF CompileTrips
  <2> HIDE DEF table, valid
  <2> QED BY <1>1, <2>1, FileSized
<1>4. CASE CompileStopTimes
  <2> DEFINE table == AddRows(tx.times, CompiledTimes(RowsOrNone("times")))
             valid == TimesOK(RowsOrNone("times"))
  <2>1. CompileFile("times", valid, [tx EXCEPT !["times"] = table]) BY <1>4 DEF CompileStopTimes
  <2> HIDE DEF table, valid
  <2> QED BY <1>1, <2>1, FileSized
<1>5. CASE CompileCalendarDates
  <2> DEFINE made == Each(RowsOrNone("dates"), ExceptionOf)
             exceptions == tx.exceptions \cup made
             services == tx.services \cup DateOnlyServices(made, tx.services)
             valid == DatesOK(RowsOrNone("dates"), tx.services)
             new == [tx EXCEPT !["exceptions"] = exceptions, !["services"] = services]
  <2>1. CompileFile("dates", valid, new) BY <1>5 DEF CompileCalendarDates
  <2> HIDE DEF exceptions, services, valid, made
  <2>2. outcome = "running" /\ Sized(tx) BY <2>1 DEF CompileFile, Stage, SizedInv
  <2>3. new.stops = tx.stops /\ new.transfers = tx.transfers /\ new.pathways = tx.pathways
    BY DEF IInv, Tables, Names
  <2> HIDE DEF new
  <2>4. Sized(new) BY <2>2, <2>3 DEF Sized
  <2> QED BY <2>1, <2>2, <2>4 DEF CompileFile, Rolled, Advance, SizedInv
<1> QED BY <1>2, <1>3, <1>4, <1>5

\* Walks are between finitely many stops, and take the time of their distance.
LEMMA WalksSized ==
  ASSUME IInv, SizedInv, GenerateProximityTransfers
  PROVE  SizedInv'
<1> DEFINE near == {x \in Near(tx) : <<x[1].id, x[2].id>> \notin ExplicitPairs(tx)}
           f == [x \in near |-> Walk(x[1], x[2])]
           table == tx.transfers \cup ProximityTransfers(tx)
           new == [tx EXCEPT !["transfers"] = table]
<1>1. outcome = "running" /\ Sized(tx) /\ Advance("commit", new)
  BY DEF GenerateProximityTransfers, Stage, SizedInv
<1>2. IsFiniteSet(near)
  <2>1. Eligible(tx) \subseteq tx.stops BY DEF Eligible
  <2>2. IsFiniteSet(Eligible(tx)) BY <1>1, <2>1, FS_Subset DEF Sized
  <2>3. IsFiniteSet(Eligible(tx) \X Eligible(tx)) BY <2>2, FS_Product
  <2>4. near \subseteq Eligible(tx) \X Eligible(tx) BY DEF Near
  <2> QED BY <2>3, <2>4, FS_Subset
<1>3. \A y \in ProximityTransfers(tx) : \E x \in near : f[x] = y BY DEF ProximityTransfers
<1>4. IsFiniteSet(ProximityTransfers(tx))
  <2>1. DOMAIN f = near OBVIOUS
  <2> HIDE DEF near, f
  <2> QED BY <1>2, <1>3, <2>1, FiniteImage
<1>5. ASSUME NEW y \in ProximityTransfers(tx) PROVE y.min \in Nat
  <2>1. PICK x \in near : y = Walk(x[1], x[2]) BY DEF ProximityTransfers
  <2>2. x[1] \in tx.stops /\ x[2] \in tx.stops /\ x[1].pos # None /\ x[2].pos # None BY DEF Near, Eligible
  <2>3. x[1].pos \in Int /\ x[2].pos \in Int BY <2>2 DEF IInv, Tables, Placed
  <2>4. Distance(x[1], x[2]) \in Nat BY <2>3 DEF Distance
  <2> QED BY <2>1, <2>4 DEF Walk
<1> HIDE DEF near, f
<1>6. IsFiniteSet(table) /\ \A r \in table : r.min \in Nat BY <1>1, <1>4, <1>5, FS_Union DEF Sized
<1> HIDE DEF table
<1>7. new.transfers = table /\ new.stops = tx.stops /\ new.pathways = tx.pathways BY DEF IInv, Tables, Names
<1>8. Sized(new) BY <1>1, <1>6, <1>7 DEF Sized
<1> HIDE DEF new
<1> QED BY <1>1, <1>8 DEF Advance, SizedInv

\* The other stages fill other tables, or commit what there is.
LEMMA StagesSized ==
  ASSUME IInv, SizedInv, Open \/ CheckFiles \/ MaterializeConnections \/ MaterializeTripLinks \/ Commit \/ Abort
  PROVE  SizedInv'
<1>1. outcome = "running" /\ Sized(tx)
  BY DEF Open, CheckFiles, MaterializeConnections, MaterializeTripLinks, Commit, Abort, Stage, SizedInv
<1>2. ASSUME NEW name \in {"connections", "links", "coverage"}, NEW table PROVE Sized([tx EXCEPT ![name] = table])
  <2> DEFINE new == [tx EXCEPT ![name] = table]
  <2>1. name \in Names /\ {"stops", "transfers", "pathways"} \subseteq Names \ {name} BY DEF Names
  <2>2. \A n \in Names \ {name} : new[n] = tx[n] BY <2>1, OneTable
  <2>3. new["stops"] = tx["stops"] /\ new["transfers"] = tx["transfers"] /\ new["pathways"] = tx["pathways"]
    BY <2>1, <2>2
  <2> HIDE DEF new
  <2>4. Sized(new) BY <1>1, <2>3 DEF Sized
  <2> QED BY <2>4 DEF new
<1>3. CASE Rolled BY <1>3 DEF Rolled, SizedInv
<1>4. CASE (Open \/ CheckFiles \/ Abort) /\ ~Rolled
  BY <1>1, <1>4 DEF Open, CheckFiles, Abort, StartFeed, Advance, SizedInv
<1>5. CASE MaterializeConnections /\ ~Rolled
  <2> DEFINE new == [tx EXCEPT !["connections"] = Connections(tx.trips, tx.times)]
  <2>1. Sized(new) BY <1>2
  <2>2. Advance("links", new) \/ StartFeed(Later, new) BY <1>5 DEF MaterializeConnections
  <2> HIDE DEF new
  <2> QED BY <1>1, <2>1, <2>2 DEF Advance, StartFeed, SizedInv
<1>6. CASE MaterializeTripLinks /\ ~Rolled
  <2> DEFINE new == [tx EXCEPT !["links"] = TripLinks(tx.transfers)]
  <2>1. Sized(new) BY <1>2
  <2>2. Advance("proximity", new) BY <1>6 DEF MaterializeTripLinks
  <2> HIDE DEF new
  <2> QED BY <1>1, <2>1, <2>2 DEF Advance, SizedInv
<1>7. CASE Commit /\ ~Rolled
  <2> DEFINE new == [tx EXCEPT !["coverage"] = Coverage(tx)]
  <2>1. Sized(new) BY <1>2
  <2>2. store' = new /\ outcome' = "compiled" BY <1>7 DEF Commit
  <2>3. Placed(new.stops)
    <3>1. new.stops = tx.stops BY DEF IInv, Tables, Names
    <3> QED BY <3>1 DEF IInv, Tables
  <2> HIDE DEF new
  <2>4. Placed(store.stops)' BY <2>2, <2>3 DEF Placed
  <2> QED BY <2>1, <2>2, <2>4 DEF SizedInv
<1> QED BY <1>3, <1>4, <1>5, <1>6, <1>7

\* So it stays, from the empty tables on.
LEMMA StepSizedInv == ASSUME IInv, SizedInv, [CompilerNext]_compilerVars PROVE SizedInv'
<1>1. CASE UNCHANGED compilerVars BY <1>1 DEF compilerVars, SizedInv, Sized
<1>2. CASE CompilerNext BY <1>2, FilesSized, TimedFilesSized, WalksSized, StagesSized DEF CompilerNext
<1> QED BY <1>1, <1>2

\* It holds of the empty tables.
LEMMA InitSizedInv == Init => SizedInv
BY FS_EmptySet DEF Init, SizedInv, Sized, NoRows


(***************************************************************************)
(* The ends.                                                               *)
(***************************************************************************)
\* How far the ends are on foot is a number.
EndsInv == \A e \in sources \cup targets : e.walk \in Nat

\* The stops around a place are at distances from it.
LEMMA WeightedEnds ==
  ASSUME Placed(store.stops), NEW pos \in Int, NEW S, NEW n, S \subseteq Around(pos, n)
  PROVE  \A e \in Weighted(pos, S) : e.walk \in Nat
<1> TAKE e \in Weighted(pos, S)
<1>1. PICK s \in S : e = [stop |-> s.id, walk |-> Distance([pos |-> pos], s)] BY DEF Weighted
<1>2. s \in store.stops /\ s.pos # None BY DEF Around
<1>3. s.pos \in Int BY <1>2 DEF Placed
<1>4. Distance([pos |-> pos], s) \in Nat BY <1>3 DEF Distance
<1> QED BY <1>1, <1>4

\* A text leads to stops that it names, or that are around a place.
LEMMA TextEnds ==
  ASSUME Placed(store.stops), NEW text, {text.coordinate, text.place} \subseteq Int \cup {None}
  PROVE  /\ \A e \in LocalEnds(text) : e.walk \in Nat
         /\ text.place # None => \A e \in GeocodedEnds(text) : e.walk \in Nat
<1>1. ASSUME NEW ids PROVE \A e \in OnFoot(ids) : e.walk \in Nat BY DEF OnFoot
<1>2. \A e \in LocalEnds(text) : e.walk \in Nat
  <2>1. CASE text.coordinate # None
    <3>1. LocalEnds(text) = Weighted(text.coordinate, Around(text.coordinate, Radius)) BY <2>1 DEF LocalEnds, InNameIndex
    <3>2. text.coordinate \in Int BY <2>1
    <3> QED BY <3>1, <3>2, WeightedEnds
  <2>2. CASE text.coordinate = None
    <3> DEFINE A == Named(text.exact)
               B == MajorFirst(Named(IF Named(text.prefix) # {} THEN text.prefix ELSE text.like))
    <3>1. LocalEnds(text) = OnFoot(A) \/ LocalEnds(text) = OnFoot(B) BY <2>2 DEF LocalEnds
    <3> HIDE DEF A, B
    <3> QED BY <3>1, <1>1
  <2> QED BY <2>1, <2>2
<1>3. ASSUME text.place # None PROVE \A e \in GeocodedEnds(text) : e.walk \in Nat
  <2> DEFINE namesakes == {s \in Around(text.place, 2 * Radius) : s.id[1] \in RailModes /\ s.id[2] \in text.like}
             around == Around(text.place, Radius)
             some == IF around # {} /\ text.street /\ namesakes # {} THEN namesakes ELSE around
  <2>1. GeocodedEnds(text) = Weighted(text.place, some) BY DEF GeocodedEnds
  <2>2. some \subseteq Around(text.place, 2 * Radius) \/ some \subseteq Around(text.place, Radius) OBVIOUS
  <2>3. text.place \in Int BY <1>3
  <2> HIDE DEF some
  <2> QED BY <2>1, <2>2, <2>3, WeightedEnds
<1> QED BY <1>2, <1>3

\* The inductive invariant of the command, with what it needs of the tables and
\* the ends.
FastInv == PlanInv /\ SizedInv /\ EndsInv

\* The ends change when they are looked up, and not otherwise.
LEMMA StepEndsInv ==
  ASSUME FastInv, PlanNext, UNCHANGED compilerVars
  PROVE  EndsInv'
<1>1. CASE ResolveOrigin
  <2>1. Resolve("origin", asked.from, "destination", sources) /\ targets' = targets BY <1>1 DEF ResolveOrigin
  <2>2. planStep = "origin" BY <2>1 DEF Resolve, At
  <2>3. asked \in Requests /\ outcome = "compiled" BY <2>2 DEF FastInv, PlanInv
  <2>4. {asked.from.coordinate, asked.from.place} \subseteq Int \cup {None} BY <2>3, RequestsAssumption
  <2>5. Placed(store.stops) BY <2>3 DEF FastInv, SizedInv
  <2>6. \A e \in sources' : e.walk \in Nat BY <2>1, <2>4, <2>5, TextEnds DEF Resolve
  <2> QED BY <2>1, <2>6 DEF FastInv, EndsInv
<1>2. CASE ResolveDestination
  <2>1. Resolve("destination", asked.to, "plan", targets) /\ sources' = sources BY <1>2 DEF ResolveDestination
  <2>2. planStep = "destination" BY <2>1 DEF Resolve, At
  <2>3. asked \in Requests /\ outcome = "compiled" BY <2>2 DEF FastInv, PlanInv
  <2>4. {asked.to.coordinate, asked.to.place} \subseteq Int \cup {None} BY <2>3, RequestsAssumption
  <2>5. Placed(store.stops) BY <2>3 DEF FastInv, SizedInv
  <2>6. \A e \in targets' : e.walk \in Nat BY <2>1, <2>4, <2>5, TextEnds DEF Resolve
  <2> QED BY <2>1, <2>6 DEF FastInv, EndsInv
<1>3. CASE ~ResolveOrigin /\ ~ResolveDestination
  <2>1. UNCHANGED ends
    BY <1>3 DEF PlanNext, AskToPlan, StartSpinner, LoadTimetable, StartCheck, PlanJourney, RouterFails, KeepJourney,
                Widen, GiveUp, Overlay, DisruptionsAnswer, Report, Write, Cancelled, SpinnerEnds, CheckAnswers,
                BudgetEnds, Interrupt, Aside
  <2> QED BY <2>1 DEF ends, FastInv, EndsInv
<1> QED BY <1>1, <1>2, <1>3

\* It stays.
THEOREM FastInvIsInvariant == PlanSpec => []FastInv
<1>1. WindowInit /\ PlanInit => FastInv
  <2> SUFFICES ASSUME WindowInit, PlanInit PROVE FastInv OBVIOUS
  <2>1. EndsInv BY DEF PlanInit, EndsInv
  <2>2. SizedInv BY InitSizedInv DEF WindowInit
  <2> QED BY <2>1, <2>2, InitPlanInv DEF FastInv
<1>2. ASSUME FastInv,
             [\/ CompilerNext /\ UNCHANGED <<windowVars, planVars>>
              \/ PlanNext /\ UNCHANGED compilerVars]_<<compilerVars, windowVars, planVars>>
      PROVE  SizedInv' /\ EndsInv'
  <2>1. CASE PlanNext /\ UNCHANGED compilerVars
    <3>1. SizedInv' BY <1>2, <2>1, StepSizedInv DEF FastInv, PlanInv
    <3> QED BY <2>1, <3>1, StepEndsInv, <1>2
  <2>2. CASE [CompilerNext]_compilerVars /\ UNCHANGED <<windowVars, planVars>>
    <3>1. SizedInv' BY <2>2, <1>2, StepSizedInv DEF FastInv, PlanInv
    <3>2. UNCHANGED ends BY <2>2 DEF planVars
    <3> QED BY <3>1, <3>2, <1>2 DEF ends, FastInv, EndsInv
  <2> QED BY <1>2, <2>1, <2>2
<1>3. FastInv => PlanInv BY DEF FastInv
<1> QED BY <1>1, <1>2, <1>3, PlanInvIsInvariant, PTL DEF PlanSpec, FastInv


(***************************************************************************)
(* The rows of the router.                                                 *)
(***************************************************************************)
\* A run of a connection: when and where it is, and which of its trip.
SoundRun(c) ==
  /\ c.day \in Days /\ c.day \in Int /\ c.trip \in DOMAIN store.trips
  /\ c.trip[1] \in Int /\ c.trip[2] \in Int /\ c.trip = <<c.trip[1], c.trip[2]>>
  /\ c.fromSeq \in Int /\ c.toSeq \in Int /\ c.fromSeq < c.toSeq
  /\ c.dep \in Int /\ c.arr \in Int /\ c.dep <= c.arr

\* A finite set of them, in which a place in a trip is that of one.
SoundRuns(C) ==
  /\ IsFiniteSet(C) /\ \A c \in C : SoundRun(c)
  /\ \A a, b \in C : a.day = b.day /\ a.trip = b.trip /\ (a.fromSeq = b.fromSeq \/ a.toSeq = b.toSeq) => a = b

\* There are finitely many connections.
LEMMA FiniteConnections == ASSUME Committed PROVE IsFiniteSet(store.connections)
<1> DEFINE rows == DOMAIN store.times
           pairs == rows \X rows
           seg == [p \in pairs |-> Segment(store.trips[store.times[p[1]].trip], store.times[p[1]], store.times[p[2]])]
<1>1. IsFiniteSet(rows) BY CommittedTables DEF TimedRows
<1>2. IsFiniteSet(pairs) BY <1>1, FS_Product
<1>3. \A c \in store.connections : \E p \in pairs : seg[p] = c
  <2>1. TAKE c \in store.connections
  <2>2. PICK i, j \in rows : c = Segment(store.trips[store.times[i].trip], store.times[i], store.times[j])
    BY CommittedTables, ConnectionRows
  <2>3. <<i, j>> \in pairs /\ seg[<<i, j>>] = c BY <2>2
  <2> QED BY <2>3
<1>4. DOMAIN seg = pairs OBVIOUS
<1> HIDE DEF seg, pairs
<1> QED BY <1>2, <1>3, <1>4, FiniteImage

\* What a window holds is of such runs.
LEMMA LoadedIsSound ==
  ASSUME Committed, NEW q, Held(q)
  PROVE  SoundRuns(LoadedConnections(q))
<1> DEFINE C == LoadedConnections(q)
           all == Days \X store.connections
           run == [x \in all |-> Instance(x[1], x[2])]
<1>1. TimedRows(store) /\ Linked(store) /\ KeyedTrips(store.trips) BY CommittedTables
<1>2. ASSUME NEW i \in C
      PROVE  \E d \in Days, c \in store.connections :
               /\ i = Instance(d, c) /\ i.day = d /\ i.trip = c.trip /\ i.fromSeq = c.fromSeq /\ i.toSeq = c.toSeq
               /\ SoundRun(i)
  <2>1. PICK d, c : i = Instance(d, c) /\ Running(d, c, q) BY <1>1, LoadedAreRunning
  <2>2. d \in Days /\ c \in store.connections BY <2>1 DEF Running
  <2>3. /\ i.day = d /\ i.trip = c.trip /\ i.fromSeq = c.fromSeq /\ i.toSeq = c.toSeq
        /\ i.dep \in Int /\ i.arr \in Int /\ i.dep <= i.arr
    BY <1>1, <2>1, <2>2, InstanceFacts
  <2>4. c.trip \in DOMAIN store.trips /\ c.fromSeq \in Int /\ c.toSeq \in Int /\ c.fromSeq < c.toSeq
    BY <1>1, <2>2, ConnectionTimes
  <2>5. c.trip \in Int \X Nat BY <1>1, <2>4 DEF KeyedTrips
  <2>6. d \in Int BY <2>2, DaysAssumption DEF Days
  <2>7. SoundRun(i) BY <2>2, <2>3, <2>4, <2>5, <2>6 DEF SoundRun
  <2> QED BY <2>1, <2>2, <2>3, <2>7
<1>3. ASSUME NEW a \in C, NEW b \in C, a.day = b.day, a.trip = b.trip, a.fromSeq = b.fromSeq \/ a.toSeq = b.toSeq
      PROVE  a = b
  <2>1. PICK d \in Days, c \in store.connections :
               /\ a = Instance(d, c) /\ a.day = d /\ a.trip = c.trip /\ a.fromSeq = c.fromSeq /\ a.toSeq = c.toSeq
    BY <1>2
  <2>2. PICK e \in Days, f \in store.connections :
               /\ b = Instance(e, f) /\ b.day = e /\ b.trip = f.trip /\ b.fromSeq = f.fromSeq /\ b.toSeq = f.toSeq
    BY <1>2
  <2>3. c.trip = f.trip /\ (c.fromSeq = f.fromSeq \/ c.toSeq = f.toSeq) BY <1>3, <2>1, <2>2
  <2>4. c = f BY <1>1, <2>3, OneConnection
  <2> QED BY <1>3, <2>1, <2>2, <2>4
<1>4. IsFiniteSet(C)
  <2>1. IsFiniteSet(Days)
    <3>1. 0 \in Int /\ LastDay \in Int BY DaysAssumption
    <3> QED BY <3>1, FS_Interval DEF Days
  <2>2. IsFiniteSet(all) BY <2>1, FiniteConnections, FS_Product
  <2>3. \A y \in C : \E x \in all : run[x] = y
    <3>1. TAKE y \in C
    <3>2. PICK d \in Days, c \in store.connections : y = Instance(d, c) BY <1>2
    <3>3. <<d, c>> \in all /\ run[<<d, c>>] = y BY <3>2
    <3> QED BY <3>3
  <2>4. DOMAIN run = all OBVIOUS
  <2> HIDE DEF run, all, C
  <2> QED BY <2>2, <2>3, <2>4, FiniteImage
<1> HIDE DEF C
<1>5. \A c \in C : SoundRun(c) BY <1>2
<1> QED BY <1>3, <1>4, <1>5 DEF SoundRuns, C

\* The order of the rows, and the number that it gives a run.
InOrder(C) == {x \in C \X C : Earlier(x[1], x[2])}
RowNumber(C, c) == Rank(InOrder(C), C, c) + 1

\* It is an order: by trip, by day, and along the trip.
LEMMA EarlierOrders == ASSUME NEW C, SoundRuns(C) PROVE Orders(InOrder(C), C)
<1> DEFINE L == InOrder(C)
<1>1. \A a, b \in C : <<a, b>> \in L <=> Earlier(a, b) BY DEF InOrder
<1>2. \A c \in C : SoundRun(c) BY DEF SoundRuns
<1> HIDE DEF L
<1>3. ASSUME NEW a \in C PROVE ~Earlier(a, a) BY <1>2 DEF SoundRun, Earlier, RowBefore
<1>4. ASSUME NEW a \in C, NEW b \in C, a # b PROVE Earlier(a, b) \/ Earlier(b, a)
  <2>1. SoundRun(a) /\ SoundRun(b) BY <1>2
  <2>2. ~(a.day = b.day /\ a.trip = b.trip /\ a.fromSeq = b.fromSeq) BY <1>4 DEF SoundRuns
  <2>3. a.trip = b.trip <=> a.trip[1] = b.trip[1] /\ a.trip[2] = b.trip[2] BY <2>1 DEF SoundRun
  <2> QED BY <2>1, <2>2, <2>3 DEF SoundRun, Earlier, RowBefore
<1>5. ASSUME NEW a \in C, NEW b \in C, NEW c \in C, Earlier(a, b), Earlier(b, c) PROVE Earlier(a, c)
  <2>1. SoundRun(a) /\ SoundRun(b) /\ SoundRun(c) BY <1>2
  <2>2. /\ a.trip = b.trip <=> a.trip[1] = b.trip[1] /\ a.trip[2] = b.trip[2]
        /\ b.trip = c.trip <=> b.trip[1] = c.trip[1] /\ b.trip[2] = c.trip[2]
        /\ a.trip = c.trip <=> a.trip[1] = c.trip[1] /\ a.trip[2] = c.trip[2]
    BY <2>1 DEF SoundRun
  <2> QED BY <1>5, <2>1, <2>2 DEF SoundRun, Earlier, RowBefore
<1>6. Orders(L, C) BY <1>1, <1>3, <1>4, <1>5 DEF Orders
<1> QED BY <1>6 DEF L

\* Every run has a number, and every number is that of one run.
LEMMA RowNumbers ==
  ASSUME NEW C, SoundRuns(C)
  PROVE  /\ Cardinality(C) \in Nat
         /\ \A c \in C : RowNumber(C, c) \in 1 .. Cardinality(C)
         /\ \A k \in 1 .. Cardinality(C) : \E c \in C : RowNumber(C, c) = k
         /\ \A a, b \in C : RowNumber(C, a) = RowNumber(C, b) => a = b
         /\ \A a, b \in C : RowNumber(C, a) < RowNumber(C, b) <=> Earlier(a, b)
<1> DEFINE L == InOrder(C)
           n == Cardinality(C)
<1>1. IsFiniteSet(C) /\ Orders(L, C) BY EarlierOrders DEF SoundRuns
<1>2. \A a, b \in C : <<a, b>> \in L <=> Earlier(a, b) BY DEF InOrder
<1> HIDE DEF L
<1>3. /\ n \in Nat /\ \A r \in C : Rank(L, C, r) \in 0 .. n - 1
      /\ \A a, b \in C : <<a, b>> \in L => Rank(L, C, a) < Rank(L, C, b)
  BY <1>1, RankGrows
<1>4. Ranked(L, C) BY <1>1, RankReached
<1>5. \A c \in C : RowNumber(C, c) = Rank(L, C, c) + 1 BY DEF RowNumber, L
<1>6. \A k \in 0 .. n - 1 : \E r \in C : Rank(L, C, r) = k BY <1>4 DEF Ranked
<1> HIDE DEF n
<1>7. \A c \in C : RowNumber(C, c) \in 1 .. n
  <2>1. TAKE c \in C
  <2>2. Rank(L, C, c) \in 0 .. n - 1 BY <1>3
  <2> QED BY <1>3, <1>5, <2>2
<1>8. ASSUME NEW k \in 1 .. n PROVE \E c \in C : RowNumber(C, c) = k
  <2>1. k - 1 \in 0 .. n - 1 BY <1>3
  <2>2. PICK c \in C : Rank(L, C, c) = k - 1 BY <1>6, <2>1
  <2> QED BY <1>5, <2>2
<1>9. ASSUME NEW a \in C, NEW b \in C, RowNumber(C, a) = RowNumber(C, b) PROVE a = b
  <2>1. Rank(L, C, a) \in Int /\ Rank(L, C, b) \in Int BY <1>3
  <2>2. Rank(L, C, a) = Rank(L, C, b) BY <1>5, <1>9, <2>1
  <2> QED BY <1>4, <2>2 DEF Ranked
<1>10. ASSUME NEW a \in C, NEW b \in C PROVE RowNumber(C, a) < RowNumber(C, b) <=> Earlier(a, b)
  <2>1. Rank(L, C, a) \in Int /\ Rank(L, C, b) \in Int BY <1>3
  <2>2. RowNumber(C, a) < RowNumber(C, b) <=> Rank(L, C, a) < Rank(L, C, b) BY <1>5, <2>1
  <2>3. Earlier(a, b) => Rank(L, C, a) < Rank(L, C, b) BY <1>2, <1>3
  <2>4. Earlier(b, a) => Rank(L, C, b) < Rank(L, C, a) BY <1>2, <1>3
  <2>5. a = b => ~(Rank(L, C, a) < Rank(L, C, b)) BY <2>1
  <2>6. a # b => Earlier(a, b) \/ Earlier(b, a) BY <1>1, <1>2 DEF Orders
  <2> QED BY <2>1, <2>2, <2>3, <2>4, <2>5, <2>6
<1> QED BY <1>3, <1>7, <1>8, <1>9, <1>10 DEF n

\* The rows of the router are the runs in their order.
LEMMA RowsFacts ==
  ASSUME NEW C, SoundRuns(C)
  PROVE  LET rows == RouterRows(C)
         IN  /\ DOMAIN rows = 1 .. Cardinality(C) /\ Len(rows) = Cardinality(C)
             /\ \A c \in C : rows[RowNumber(C, c)] = RouterRow(c)
<1> DEFINE n == Cardinality(C)
           T == {RouterRow(c) : c \in C}
           Nth(k) == CHOOSE c \in C : Cardinality({o \in C : Earlier(o, c)}) = k - 1
           g == [m \in 0 .. n |-> [k \in 1 .. m |-> RouterRow(Nth(k))]]
           Def(f) == f = [m \in 0 .. n |-> IF m = 0 THEN <<>> ELSE Append(f[m - 1], RouterRow(Nth(m)))]
           f == CHOOSE h : Def(h)
<1>1. n \in Nat BY RowNumbers
<1>2. \A c \in C : Cardinality({o \in C : Earlier(o, c)}) = RowNumber(C, c) - 1
  <2>1. TAKE c \in C
  <2> DEFINE r == Rank(InOrder(C), C, c)
  <2>2. {o \in C : Earlier(o, c)} = Preceding(InOrder(C), C, c) BY DEF Preceding, InOrder
  <2>3. r \in Int BY RankGrows, EarlierOrders DEF SoundRuns
  <2>4. Cardinality({o \in C : Earlier(o, c)}) = r BY <2>2, Zenon DEF Rank
  <2>5. RowNumber(C, c) = r + 1 BY DEF RowNumber
  <2> HIDE DEF r
  <2> QED BY <2>3, <2>4, <2>5
<1>3. ASSUME NEW k \in 1 .. n PROVE Nth(k) \in C /\ RowNumber(C, Nth(k)) = k
  <2>1. PICK c \in C : RowNumber(C, c) = k BY RowNumbers
  <2>2. Cardinality({o \in C : Earlier(o, c)}) = k - 1 BY <1>2, <2>1
  <2>3. Nth(k) \in C /\ Cardinality({o \in C : Earlier(o, Nth(k))}) = k - 1 BY <2>2
  <2> HIDE DEF Nth
  <2>4. RowNumber(C, Nth(k)) - 1 = k - 1 BY <1>2, <2>3
  <2>5. RowNumber(C, Nth(k)) \in Int BY <2>3, RowNumbers
  <2> QED BY <2>3, <2>4, <2>5
<1>4. RouterRows(C) = f[n] BY DEF RouterRows
<1> HIDE DEF n, Nth
<1>5. \A k \in 1 .. n : RouterRow(Nth(k)) \in T BY <1>3
<1> DEFINE r == [k \in 1 .. n |-> RouterRow(Nth(k))]
<1>6. Def(g)
  <2>1. ASSUME NEW m \in 0 .. n PROVE g[m] = IF m = 0 THEN <<>> ELSE Append(g[m - 1], RouterRow(Nth(m)))
    <3>1. CASE m = 0
      <4>1. g[0] = [k \in 1 .. 0 |-> RouterRow(Nth(k))] BY <1>1
      <4>2. 1 .. 0 = {} OBVIOUS
      <4> QED BY <3>1, <4>1, <4>2
    <3>2. CASE m # 0
      <4>1. m - 1 \in 0 .. n /\ m \in 1 .. n /\ m - 1 \in Nat BY <1>1, <3>2
      <4> DEFINE a == [k \in 1 .. m - 1 |-> RouterRow(Nth(k))]
                 b == [k \in 1 .. m |-> RouterRow(Nth(k))]
      <4>2. g[m - 1] = a /\ g[m] = b BY <4>1
      <4>3. a \in Seq(T) /\ Len(a) = m - 1 /\ RouterRow(Nth(m)) \in T
        <5>1. \A k \in 1 .. m - 1 : k \in 1 .. n BY <1>1, <4>1
        <5>2. \A k \in 1 .. m - 1 : RouterRow(Nth(k)) \in T BY <5>1, <1>5
        <5>3. RouterRow(Nth(m)) \in T BY <4>1, <1>5
        <5> HIDE DEF T
        <5> QED BY <4>1, <5>2, <5>3
      <4>4. Append(a, RouterRow(Nth(m))) = b
        <5>1. Append(a, RouterRow(Nth(m))) = [k \in 1 .. m |-> IF k = m THEN RouterRow(Nth(m)) ELSE a[k]]
          <6> DEFINE x == RouterRow(Nth(m))
                     e == Append(a, x)
          <6> HIDE DEF T, a, x
          <6>1. e \in Seq(T) /\ Len(e) = m BY <4>1, <4>3 DEF x
          <6>2. \A k \in 1 .. m : e[k] = IF k = m THEN x ELSE a[k] BY <4>1, <4>3 DEF x
          <6> HIDE DEF e
          <6>3. e = [k \in 1 .. m |-> e[k]] BY <6>1
          <6>4. e = [k \in 1 .. m |-> IF k = m THEN x ELSE a[k]] BY <6>2, <6>3
          <6> QED BY <6>4 DEF x, e
        <5>2. \A k \in 1 .. m : k # m => k \in 1 .. m - 1 BY <4>1
        <5> QED BY <5>1, <5>2
      <4> HIDE DEF g, a, b
      <4> QED BY <3>2, <4>2, <4>4
    <3> QED BY <3>1, <3>2
  <2>2. g = [m \in 0 .. n |-> g[m]] OBVIOUS
  <2> HIDE DEF g
  <2> QED BY <2>1, <2>2, Zenon
<1>7. Def(f) BY <1>6
<1> HIDE DEF f, Def
<1>8. \A m \in 0 .. n : f[m] = IF m = 0 THEN <<>> ELSE Append(f[m - 1], RouterRow(Nth(m)))
  <2>1. f = [m \in 0 .. n |-> IF m = 0 THEN <<>> ELSE Append(f[m - 1], RouterRow(Nth(m)))] BY <1>7 DEF Def
  <2> QED BY <2>1
<1>9. \A m \in 0 .. n : g[m] = IF m = 0 THEN <<>> ELSE Append(g[m - 1], RouterRow(Nth(m)))
  <2>1. g = [m \in 0 .. n |-> IF m = 0 THEN <<>> ELSE Append(g[m - 1], RouterRow(Nth(m)))] BY <1>6 DEF Def
  <2> HIDE DEF g
  <2> QED BY <2>1
<1>10. f[n] = g[n]
  <2> HIDE DEF g
  <2> DEFINE Bad == {m \in 0 .. n : f[m] # g[m]}
  <2>1. Bad = {}
    <3> SUFFICES ASSUME Bad # {} PROVE FALSE OBVIOUS
    <3>1. PICK m \in Bad : \A y \in Bad : m <= y
      <4>1. Bad \subseteq Nat BY <1>1
      <4> HIDE DEF Bad
      <4> QED BY <4>1, LeastNatural
    <3>2. m # 0 BY <1>8, <1>9
    <3>3. m - 1 \in 0 .. n /\ ~(m <= m - 1) BY <1>1, <3>2
    <3>4. f[m - 1] = g[m - 1] BY <3>1, <3>3
    <3> QED BY <1>8, <1>9, <3>2, <3>4
  <2>2. n \in 0 .. n BY <1>1
  <2> QED BY <2>1, <2>2
<1>11. g[n] = r BY <1>1
<1>12. RouterRows(C) = r BY <1>4, <1>10, <1>11
<1>13. Len(r) = n /\ DOMAIN r = 1 .. n
  <2> HIDE DEF Nth
  <2> QED BY <1>1
<1>14. ASSUME NEW c \in C PROVE r[RowNumber(C, c)] = RouterRow(c)
  <2>1. RowNumber(C, c) \in 1 .. n BY RowNumbers DEF n
  <2>2. Nth(RowNumber(C, c)) = c BY <1>3, <2>1, RowNumbers
  <2> QED BY <2>1, <2>2
<1> HIDE DEF r
<1> QED BY <1>12, <1>13, <1>14 DEF n


(***************************************************************************)
(* Least sets.                                                             *)
(***************************************************************************)
\* f iterates G from A, n times.
Iterates(T, A, G, n, f) ==
  f \in [0 .. n -> T] /\ f[0] = A /\ \A k \in 1 .. n : f[k] = G[f[k - 1]]

\* A sequence of iterates of a function exists.
LEMMA IterationExists ==
  ASSUME NEW T, NEW A \in T, NEW G \in [T -> T], NEW N \in Nat
  PROVE  \E f : Iterates(T, A, G, N, f)
<1> DEFINE Bad == {m \in Nat : ~\E f : Iterates(T, A, G, m, f)}
<1>1. Bad = {}
  <2> SUFFICES ASSUME Bad # {} PROVE FALSE OBVIOUS
  <2>1. PICK m \in Bad : \A y \in Bad : m <= y
    <3>1. Bad \subseteq Nat OBVIOUS
    <3> HIDE DEF Bad
    <3> QED BY <3>1, LeastNatural
  <2>2. CASE m = 0
    <3>1. Iterates(T, A, G, 0, [k \in 0 .. 0 |-> A]) BY DEF Iterates
    <3> QED BY <3>1, <2>2
  <2>3. CASE m # 0
    <3>1. m \in Nat /\ m - 1 \in Nat /\ ~(m <= m - 1) BY <2>3
    <3>2. PICK g : Iterates(T, A, G, m - 1, g) BY <3>1, <2>1
    <3> DEFINE h == [k \in 0 .. m |-> IF k = m THEN G[g[m - 1]] ELSE g[k]]
    <3>3. \A k \in 0 .. m - 1 : g[k] \in T BY <3>2 DEF Iterates
    <3>4. g[0] = A /\ \A k \in 1 .. m - 1 : g[k] = G[g[k - 1]] BY <3>2 DEF Iterates
    <3>5. m - 1 \in 0 .. m - 1 /\ h[m - 1] = g[m - 1] /\ h[m] = G[g[m - 1]] /\ g[m - 1] \in T BY <3>1, <3>3
    <3>6. h \in [0 .. m -> T]
      <4>1. \A k \in 0 .. m : h[k] \in T
        <5>1. TAKE k \in 0 .. m
        <5>2. k # m => k \in 0 .. m - 1 BY <3>1
        <5> QED BY <5>2, <3>3, <3>5
      <4> QED BY <4>1
    <3>7. h[0] = A BY <3>1, <3>4, <2>3
    <3>8. \A k \in 1 .. m : h[k] = G[h[k - 1]]
      <4>1. TAKE k \in 1 .. m
      <4>2. CASE k = m BY <3>5, <4>2
      <4>3. CASE k # m
        <5>1. k \in 1 .. m - 1 /\ k \in 0 .. m /\ k - 1 \in 0 .. m /\ k - 1 # m BY <4>3, <3>1
        <5>2. h[k] = g[k] /\ h[k - 1] = g[k - 1] BY <5>1, <4>3
        <5> QED BY <5>1, <5>2, <3>4
      <4> QED BY <4>2, <4>3
    <3>9. Iterates(T, A, G, m, h)
      <4> HIDE DEF h
      <4> QED BY <3>6, <3>7, <3>8 DEF Iterates
    <3> QED BY <3>9
  <2> QED BY <2>2, <2>3
<1> QED BY <1>1

\* f is what is reached step by step, and Reachable the last of it.
Grows(V, first, steps, n, f) ==
  /\ f \in [0 .. n -> SUBSET V] /\ f[0] = first
  /\ \A k \in 1 .. n : f[k] = Router(store)!Onward(steps, f[k - 1])
  /\ Router(store)!Reachable(first, steps, n) = f[n]

\* What is reachable is the last of n steps.
LEMMA ReachableGrows ==
  ASSUME NEW V, NEW first, first \subseteq V, NEW steps, steps \subseteq V \X V, NEW n \in Nat
  PROVE  \E f : Grows(V, first, steps, n, f)
<1> DEFINE T == SUBSET V
           G == [X \in T |-> Router(store)!Onward(steps, X)]
           Def(f) == f = [k \in 0 .. n |-> IF k = 0 THEN first ELSE Router(store)!Onward(steps, f[k - 1])]
<1>1. first \in T /\ G \in [T -> T]
  <2>1. \A X \in T : Router(store)!Onward(steps, X) \in T BY DEF Router!Onward
  <2> QED BY <2>1
<1>2. PICK g : Iterates(T, first, G, n, g)
  <2> HIDE DEF T, G
  <2> QED BY <1>1, IterationExists
<1>3. g \in [0 .. n -> T] /\ g[0] = first /\ \A k \in 1 .. n : g[k] = G[g[k - 1]]
  <2> HIDE DEF T, G
  <2> QED BY <1>2 DEF Iterates
<1>4. \A k \in 1 .. n : k - 1 \in 0 .. n /\ g[k - 1] \in T /\ G[g[k - 1]] = Router(store)!Onward(steps, g[k - 1])
  <2>1. TAKE k \in 1 .. n
  <2>2. k - 1 \in 0 .. n OBVIOUS
  <2>3. g[k - 1] \in T
    <3> HIDE DEF T, G
    <3> QED BY <2>2, <1>3
  <2> QED BY <2>2, <2>3
<1>5. Def(g)
  <2>1. g = [k \in 0 .. n |-> g[k]] BY <1>3
  <2>2. \A k \in 0 .. n : g[k] = IF k = 0 THEN first ELSE Router(store)!Onward(steps, g[k - 1])
    <3>1. TAKE k \in 0 .. n
    <3>2. k # 0 => k \in 1 .. n OBVIOUS
    <3> HIDE DEF G, T
    <3> QED BY <3>2, <1>3, <1>4
  <2>3. [k \in 0 .. n |-> g[k]] = [k \in 0 .. n |-> IF k = 0 THEN first ELSE Router(store)!Onward(steps, g[k - 1])]
    BY <2>2, Zenon
  <2> QED BY <2>1, <2>3
<1> DEFINE f == CHOOSE h : Def(h)
<1>6. Def(f) BY <1>5
<1>7. Router(store)!Reachable(first, steps, n) = f[n] BY DEF Router!Reachable
<1>8. f = [k \in 0 .. n |-> IF k = 0 THEN first ELSE Router(store)!Onward(steps, f[k - 1])] BY <1>6
<1> HIDE DEF f, Def
<1>9. f[0] = first /\ \A k \in 1 .. n : f[k] = Router(store)!Onward(steps, f[k - 1])
  <2>1. f[0] = first BY <1>8
  <2>2. \A k \in 1 .. n : k \in 0 .. n /\ k # 0 OBVIOUS
  <2> QED BY <2>1, <2>2, <1>8
<1>10. \A k \in 0 .. n : f[k] \in T
  <2> DEFINE Bad == {k \in 0 .. n : f[k] \notin T}
  <2>1. Bad = {}
    <3> SUFFICES ASSUME Bad # {} PROVE FALSE OBVIOUS
    <3>1. PICK m \in Bad : \A y \in Bad : m <= y
      <4>1. Bad \subseteq Nat OBVIOUS
      <4> HIDE DEF Bad
      <4> QED BY <4>1, LeastNatural
    <3>2. m # 0 BY <1>9, <1>1
    <3>3. m \in 1 .. n /\ m - 1 \in 0 .. n /\ ~(m <= m - 1) BY <3>2
    <3>4. f[m - 1] \in T BY <3>3, <3>1
    <3>5. Router(store)!Onward(steps, f[m - 1]) \in T BY <3>4 DEF Router!Onward
    <3> QED BY <3>5, <3>3, <1>9
  <2> QED BY <2>1
<1>11. f \in [0 .. n -> T]
  <2> HIDE DEF T
  <2>1. f = [k \in 0 .. n |-> f[k]] BY <1>8
  <2> QED BY <2>1, <1>10
<1>12. Grows(V, first, steps, n, f) BY <1>11, <1>9, <1>7 DEF Grows
<1> QED BY <1>12

\* Whether a set of rows is left by no step.
Closed(steps, X) == \A p \in steps : p[1] \in X => p[2] \in X

\* After as many steps as there are rows, Reachable is the least set that
\* holds the first rows and is left by no step.
LEMMA ReachableFacts ==
  ASSUME NEW n \in Nat, NEW first, first \subseteq 1 .. n,
         NEW steps, steps \subseteq (1 .. n) \X (1 .. n)
  PROVE  LET R == Router(store)!Reachable(first, steps, n)
         IN  /\ R \subseteq 1 .. n /\ first \subseteq R /\ Closed(steps, R)
             /\ \A X : first \subseteq X /\ Closed(steps, X) => R \subseteq X
<1> DEFINE V == 1 .. n
<1>1. PICK f : Grows(V, first, steps, n, f)
  <2> HIDE DEF V
  <2>1. first \subseteq V /\ steps \subseteq V \X V BY DEF V
  <2> QED BY <2>1, ReachableGrows
<1> USE DEF Grows
<1>2. \A k \in 0 .. n : f[k] \subseteq V /\ IsFiniteSet(f[k])
  <2>1. IsFiniteSet(V) BY FS_Interval
  <2>2. TAKE k \in 0 .. n
  <2>3. f[k] \subseteq V BY <1>1
  <2> HIDE DEF V
  <2> QED BY <2>1, <2>3, FS_Subset
<1>3. \A k \in 1 .. n : /\ k - 1 \in 0 .. n /\ k \in 0 .. n /\ f[k - 1] \subseteq f[k]
                          /\ (\A p \in steps : p[1] \in f[k - 1] => p[2] \in f[k])
                          /\ (Closed(steps, f[k - 1]) => f[k] = f[k - 1])
  <2>1. TAKE k \in 1 .. n
  <2>2. f[k] = Router(store)!Onward(steps, f[k - 1]) BY <1>1
  <2> QED BY <2>2 DEF Router!Onward, Closed
<1>4. \A X : first \subseteq X /\ Closed(steps, X) => f[n] \subseteq X
  <2> SUFFICES ASSUME NEW X, first \subseteq X, Closed(steps, X) PROVE f[n] \subseteq X OBVIOUS
  <2> DEFINE Bad == {k \in 0 .. n : ~(f[k] \subseteq X)}
  <2>1. Bad = {}
    <3> SUFFICES ASSUME Bad # {} PROVE FALSE OBVIOUS
    <3>1. PICK m \in Bad : \A y \in Bad : m <= y
      <4>1. Bad \subseteq Nat OBVIOUS
      <4> HIDE DEF Bad
      <4> QED BY <4>1, LeastNatural
    <3>2. m # 0 BY <1>1
    <3>3. m \in 1 .. n /\ m - 1 \in 0 .. n /\ ~(m <= m - 1) BY <3>2
    <3>4. f[m - 1] \subseteq X BY <3>3, <3>1
    <3>5. Router(store)!Onward(steps, f[m - 1]) \subseteq X BY <3>4 DEF Router!Onward, Closed
    <3> QED BY <3>5, <3>3, <1>1
  <2> QED BY <2>1
<1>5. first \subseteq f[n]
  <2> DEFINE Bad == {k \in 0 .. n : ~(first \subseteq f[k])}
  <2>1. Bad = {}
    <3> SUFFICES ASSUME Bad # {} PROVE FALSE OBVIOUS
    <3>1. PICK m \in Bad : \A y \in Bad : m <= y
      <4>1. Bad \subseteq Nat OBVIOUS
      <4> HIDE DEF Bad
      <4> QED BY <4>1, LeastNatural
    <3>2. m # 0 BY <1>1
    <3>3. m \in 1 .. n /\ m - 1 \in 0 .. n /\ ~(m <= m - 1) BY <3>2
    <3>4. first \subseteq f[m - 1] BY <3>3, <3>1
    <3> QED BY <3>4, <3>3, <1>3
  <2> QED BY <2>1
<1>6. Closed(steps, f[n])
  <2> DEFINE Bad == {k \in 0 .. n : ~Closed(steps, f[k]) /\ ~(Cardinality(f[k]) >= k + 1)}
  <2>1. Bad = {}
    <3> SUFFICES ASSUME Bad # {} PROVE FALSE OBVIOUS
    <3>1. PICK m \in Bad : \A y \in Bad : m <= y
      <4>1. Bad \subseteq Nat OBVIOUS
      <4> HIDE DEF Bad
      <4> QED BY <4>1, LeastNatural
    <3>2. m \in 0 .. n /\ ~Closed(steps, f[m]) /\ ~(Cardinality(f[m]) >= m + 1) BY <3>1
    <3>3. m # 0
      <4> SUFFICES ASSUME m = 0 PROVE FALSE OBVIOUS
      <4>1. f[0] # {} BY <3>2 DEF Closed
      <4>2. Cardinality(f[0]) \in Nat /\ Cardinality(f[0]) # 0 BY <4>1, <1>2, FS_CardinalityType, FS_EmptySet
      <4> QED BY <4>2, <3>2
    <3>4. m \in 1 .. n /\ m - 1 \in 0 .. n /\ ~(m <= m - 1) BY <3>2, <3>3
    <3>5. ~Closed(steps, f[m - 1]) BY <3>4, <3>2, <1>3
    <3>6. Cardinality(f[m - 1]) >= m BY <3>5, <3>4, <3>1
    <3>7. f[m - 1] \subseteq f[m] /\ f[m - 1] # f[m]
      <4>1. PICK p \in steps : p[1] \in f[m - 1] /\ p[2] \notin f[m - 1] BY <3>5 DEF Closed
      <4>2. p[2] \in f[m] BY <4>1, <3>4, <1>3
      <4> QED BY <4>1, <4>2, <3>4, <1>3
    <3>8. Cardinality(f[m - 1]) \in Nat /\ Cardinality(f[m]) \in Nat BY <1>2, <3>4, FS_CardinalityType
    <3>9. Cardinality(f[m - 1]) < Cardinality(f[m])
      <4>1. IsFiniteSet(f[m]) /\ f[m - 1] \in SUBSET f[m] BY <3>7, <1>2, <3>4
      <4>2. Cardinality(f[m - 1]) <= Cardinality(f[m]) BY <4>1, FS_Subset
      <4>3. Cardinality(f[m - 1]) # Cardinality(f[m]) BY <4>1, <3>7, FS_Subset
      <4> QED BY <4>2, <4>3, <3>8
    <3> QED BY <3>2, <3>6, <3>8, <3>9
  <2>2. n \in 0 .. n OBVIOUS
  <2>3. Cardinality(f[n]) <= n /\ Cardinality(f[n]) \in Nat
    <3>1. Cardinality(V) = n /\ IsFiniteSet(V) BY FS_Interval
    <3>2. f[n] \subseteq V BY <2>2, <1>2
    <3> HIDE DEF V
    <3> QED BY <3>1, <3>2, FS_Subset, FS_CardinalityType
  <2> QED BY <2>1, <2>2, <2>3
<1> QED BY <1>1, <1>2, <1>4, <1>5, <1>6


(***************************************************************************)
(* Walks.                                                                  *)
(***************************************************************************)
\* Where one can be on foot, from where and in what time.
Hops(q) == (IdsOf(store.stops) \cup {e.to : e \in q.walk}) \X (IdsOf(store.stops) \cup {e.to : e \in q.walk}) \X Nat

\* The router counts as everybody does.
LEMMA RouterCounts == ASSUME NEW S PROVE Router(store)!Cardinality(S) = Cardinality(S)
BY DEF Router!Cardinality, Cardinality

\* A walk takes a time.
LEMMA WalksTakeTime ==
  ASSUME IsFiniteSet(store.stops), NEW q, \A e \in q.walk : e.secs \in Nat
  PROVE  \A w \in Router(store)!Walks(q) : w[3] \in Nat
<1> DEFINE n == Router(store)!Cardinality(IdsOf(store.stops))
           T == SUBSET Hops(q)
           Footpaths == {<<s, s, 0>> : s \in IdsOf(store.stops)}
           G == [X \in T |-> Router(store)!Farther(q, X)]
           Def(f) == f = [k \in 0 .. n |-> IF k = 0 THEN Footpaths ELSE Router(store)!Farther(q, f[k - 1])]
<1>0. n \in Nat
  <2> DEFINE ids == IdsOf(store.stops)
             f == [s \in store.stops |-> s.id]
  <2>1. \A y \in ids : \E s \in store.stops : f[s] = y BY DEF IdsOf
  <2>2. DOMAIN f = store.stops OBVIOUS
  <2> HIDE DEF ids, f
  <2>3. IsFiniteSet(ids) BY <2>1, <2>2, FiniteImage
  <2>4. Cardinality(ids) \in Nat BY <2>3, FS_CardinalityType
  <2> QED BY <2>4, RouterCounts DEF ids
<1> HIDE DEF n
<1>1. Footpaths \in T /\ \A X \in T : Router(store)!Farther(q, X) \in T
  <2>1. ASSUME NEW X \in T PROVE Router(store)!Farther(q, X) \in T
    <3> DEFINE Ahead == {z \in X \X q.walk : z[1][2] = z[2].from}
               Stride(z) == <<z[1][1], z[2].to, z[1][3] + z[2].secs>>
    <3>1. Router(store)!Farther(q, X) = X \cup {Stride(z) : z \in Ahead} BY DEF Router!Farther
    <3>2. \A z \in Ahead : Stride(z) \in Hops(q)
      <4>1. TAKE z \in Ahead
      <4>2. z[1] \in Hops(q) /\ z[2] \in q.walk OBVIOUS
      <4> QED BY <4>2 DEF Hops
    <3> QED BY <3>1, <3>2
  <2>2. Footpaths \in T BY DEF Hops
  <2> QED BY <2>1, <2>2
<1>2. G \in [T -> T] BY <1>1
<1>3. PICK g : Iterates(T, Footpaths, G, n, g)
  <2> HIDE DEF T, G, Footpaths
  <2> QED BY <1>0, <1>1, <1>2, IterationExists
<1>4. g \in [0 .. n -> T] /\ g[0] = Footpaths /\ \A k \in 1 .. n : g[k] = G[g[k - 1]]
  <2> HIDE DEF T, G, Footpaths
  <2> QED BY <1>3 DEF Iterates
<1>5. \A k \in 1 .. n : k - 1 \in 0 .. n /\ g[k - 1] \in T /\ G[g[k - 1]] = Router(store)!Farther(q, g[k - 1])
  <2>1. TAKE k \in 1 .. n
  <2>2. k - 1 \in 0 .. n BY <1>0
  <2>3. g[k - 1] \in T
    <3> HIDE DEF T, G, Footpaths
    <3> QED BY <2>2, <1>4
  <2> QED BY <2>2, <2>3
<1>6. Def(g)
  <2>1. g = [k \in 0 .. n |-> g[k]] BY <1>4
  <2>2. \A k \in 0 .. n : g[k] = IF k = 0 THEN Footpaths ELSE Router(store)!Farther(q, g[k - 1])
    <3>1. TAKE k \in 0 .. n
    <3>2. k # 0 => k \in 1 .. n BY <1>0
    <3> HIDE DEF G, T, Footpaths
    <3> QED BY <3>2, <1>4, <1>5
  <2>3. [k \in 0 .. n |-> g[k]] = [k \in 0 .. n |-> IF k = 0 THEN Footpaths ELSE Router(store)!Farther(q, g[k - 1])]
    BY <2>2, Zenon
  <2> QED BY <2>1, <2>3
<1> DEFINE f == CHOOSE h : Def(h)
<1>7. Def(f) BY <1>6
<1>8. Router(store)!Walks(q) = f[n] BY DEF Router!Walks, n
<1>9. f = [k \in 0 .. n |-> IF k = 0 THEN Footpaths ELSE Router(store)!Farther(q, f[k - 1])] BY <1>7
<1> HIDE DEF f, Def, Footpaths
<1>10. f[0] = Footpaths /\ \A k \in 1 .. n : f[k] = Router(store)!Farther(q, f[k - 1])
  <2>1. f[0] = Footpaths BY <1>9, <1>0
  <2>2. \A k \in 1 .. n : k \in 0 .. n /\ k # 0 BY <1>0
  <2> QED BY <2>1, <2>2, <1>9
<1>11. f[n] \in T
  <2> DEFINE Bad == {k \in 0 .. n : f[k] \notin T}
  <2>1. Bad = {}
    <3> SUFFICES ASSUME Bad # {} PROVE FALSE OBVIOUS
    <3>1. PICK m \in Bad : \A y \in Bad : m <= y
      <4>1. Bad \subseteq Nat OBVIOUS
      <4> HIDE DEF Bad
      <4> QED BY <4>1, LeastNatural
    <3>2. m # 0 BY <1>10, <1>1
    <3>3. m \in 1 .. n /\ m - 1 \in 0 .. n /\ ~(m <= m - 1) BY <3>2, <1>0
    <3>4. f[m - 1] \in T BY <3>3, <3>1
    <3>5. Router(store)!Farther(q, f[m - 1]) \in T BY <3>4, <1>1
    <3> QED BY <3>5, <3>3, <3>1, <1>10
  <2>2. n \in 0 .. n BY <1>0
  <2> QED BY <2>1, <2>2
<1> QED BY <1>8, <1>11 DEF Hops

\* The edges that are loaded take a time.
LEMMA EdgesTakeTime ==
  ASSUME Sized(store)
  PROVE  \A e \in LoadWalking : e.secs \in Nat
<1>1. ASSUME NEW n \in Nat \cup {None} PROVE SecondsOr(n, DefaultTransfer) \in Nat
  <2>1. CASE n = None BY <2>1, DefaultAssumption DEF SecondsOr
  <2>2. CASE n # None BY <2>2, DefaultAssumption DEF SecondsOr
  <2> QED BY <2>1, <2>2
<1>2. ASSUME NEW e \in PathwayEdges PROVE e.secs \in Nat
  <2>1. PICK p \in store.pathways : \/ e = Edge(p.from, p.to, SecondsOr(p.secs, DefaultTransfer), "pathway")
                                    \/ e = Edge(p.to, p.from, SecondsOr(p.secs, DefaultTransfer), "pathway")
    BY <1>2 DEF PathwayEdges
  <2>2. SecondsOr(p.secs, DefaultTransfer) \in Nat BY <1>1 DEF Sized
  <2> QED BY <2>1, <2>2 DEF Edge
<1>3. ASSUME NEW e \in TransferEdges PROVE e.secs \in Nat
  <2>1. PICK r \in {x \in WalkRules : x.type < NoTransfer} :
          \E p \in RuleStops(r.from) \X RuleStops(r.to) : e = Edge(p[1], p[2], PhysicalSeconds(r), r.source)
    BY <1>3 DEF TransferEdges
  <2>2. r.min \in Nat BY <2>1 DEF WalkRules, Sized
  <2>3. PhysicalSeconds(r) \in Nat BY <1>1, <2>2, DefaultAssumption DEF PhysicalSeconds
  <2> QED BY <2>1, <2>3 DEF Edge
<1> QED BY <1>2, <1>3 DEF LoadWalking


(***************************************************************************)
(* Transfer rules.                                                         *)
(***************************************************************************)
\* A rule's specificity is one of finitely many naturals.
LEMMA SpecificityIsNatural == ASSUME NEW r PROVE Router(store)!Specificity(r) \in 0 .. 700
<1> DEFINE Told(x) == IF x = None THEN 0 ELSE 1
           stops == Told(r.fromStop) + Told(r.toStop)
           trips == Told(r.fromTrip) + Told(r.toTrip)
           routes == Told(r.fromRoute) + Told(r.toRoute)
           crossed == \/ r.fromTrip # None /\ r.toRoute # None
                      \/ r.fromRoute # None /\ r.toTrip # None
           class == CASE trips = 2 -> 6
                      [] trips = 1 /\ crossed -> 5
                      [] trips = 1 /\ ~crossed -> 4
                      [] trips = 0 /\ routes > 0 -> 1 + routes
                      [] trips = 0 /\ routes = 0 -> IF stops > 0 THEN 1 ELSE 0
<1>1. stops \in 0 .. 2 /\ trips \in 0 .. 2 /\ routes \in 0 .. 2 OBVIOUS
<1>2. class \in 0 .. 6
  <2> HIDE DEF stops, trips, routes, crossed
  <2> QED BY <1>1
<1>3. Router(store)!Specificity(r) = 100 * class + stops BY DEF Router!Specificity
<1> HIDE DEF class, stops
<1> QED BY <1>1, <1>2, <1>3

\* Of two rules with the same specificity one is considered first.
LEMMA ConsideredInOrder ==
  ASSUME NEW rules, NEW i \in Int, NEW j \in Int
  PROVE  /\ i # j => Router(store)!ConsideredBefore(rules, i, j) \/ Router(store)!ConsideredBefore(rules, j, i)
         /\ ~(Router(store)!ConsideredBefore(rules, i, j) /\ Router(store)!ConsideredBefore(rules, j, i))
BY DEF Router!ConsideredBefore

\* What makes one rule stronger than another.
Outranks(rules, i, j) ==
  \/ Router(store)!Specificity(rules[j]) < Router(store)!Specificity(rules[i])
  \/ Router(store)!Specificity(rules[j]) = Router(store)!Specificity(rules[i]) /\ Router(store)!ConsideredBefore(rules, i, j)

\* A rule as specific as any.
Strongest(rules, ms, i) == i \in ms /\ \A j \in ms : Router(store)!Specificity(rules[j]) <= Router(store)!Specificity(rules[i])

\* Among rules there is one champion.
LEMMA ChampionFacts ==
  ASSUME NEW rules, NEW ms, ms \subseteq Nat, ms # {}
  PROVE  /\ Router(store)!Champion(rules, ms) \in ms
         /\ \A j \in ms \ {Router(store)!Champion(rules, ms)} : Outranks(rules, Router(store)!Champion(rules, ms), j)
         /\ Strongest(rules, ms, Router(store)!Champion(rules, ms))
<1> DEFINE V == {Router(store)!Specificity(rules[i]) : i \in ms}
<1>1. PICK v \in V : \A w \in V : v >= w
  <2>1. \A i \in ms : Router(store)!Specificity(rules[i]) \in 0 .. 700 BY SpecificityIsNatural
  <2>2. V \subseteq 0 .. 700 /\ V # {}
    <3>1. PICK i \in ms : TRUE OBVIOUS
    <3>2. Router(store)!Specificity(rules[i]) \in V BY <3>1
    <3>3. ASSUME NEW w \in V PROVE w \in 0 .. 700 BY <2>1
    <3> HIDE DEF V
    <3> QED BY <3>2, <3>3
  <2> HIDE DEF V
  <2>3. IsFiniteSet(V) /\ V \subseteq Int
    <3>1. PICK m \in Int : m = 700 OBVIOUS
    <3> DEFINE I == 0 .. m
    <3>2. IsFiniteSet(I) BY FS_Interval
    <3>3. V \subseteq I /\ I \subseteq Int BY <2>2, <3>1
    <3> HIDE DEF I
    <3> QED BY <3>2, <3>3, FS_Subset
  <2> QED BY <2>2, <2>3, Extremes
<1> DEFINE T == {i \in ms : Router(store)!Specificity(rules[i]) = v}
           N == {i \in T : rules[i].toStop # None}
           U == IF N # {} THEN N ELSE T
<1>2. U \subseteq Nat /\ U # {} OBVIOUS
<1>3. PICK c \in U : \A u \in U : c <= u
  <2> HIDE DEF U
  <2> QED BY <1>2, LeastNatural
<1>4. c \in ms /\ Router(store)!Specificity(rules[c]) = v OBVIOUS
<1>5. ASSUME NEW j \in ms \ {c} PROVE Outranks(rules, c, j)
  <2>1. Router(store)!Specificity(rules[j]) \in Nat /\ v \in Nat /\ Router(store)!Specificity(rules[j]) <= v
    BY <1>1, <1>4, SpecificityIsNatural
  <2>2. CASE Router(store)!Specificity(rules[j]) < v BY <2>2, <1>4 DEF Outranks
  <2>3. CASE Router(store)!Specificity(rules[j]) = v
    <3>1. j \in T /\ j \in Nat /\ c \in Nat /\ j # c BY <2>3, <1>2
    <3>2. CASE rules[j].toStop # None
      <4>1. j \in U /\ rules[c].toStop # None BY <3>1, <3>2
      <4> QED BY <4>1, <3>1, <3>2, <1>3, <1>4, <2>3 DEF Outranks, Router!ConsideredBefore
    <3>3. CASE rules[j].toStop = None /\ rules[c].toStop = None
      <4>1. N = {} BY <3>3
      <4>2. j \in U BY <4>1, <3>1
      <4> QED BY <4>2, <3>1, <3>3, <1>3, <1>4, <2>3 DEF Outranks, Router!ConsideredBefore
    <3>4. CASE rules[j].toStop = None /\ rules[c].toStop # None
      BY <3>4, <1>4, <2>3 DEF Outranks, Router!ConsideredBefore
    <3> QED BY <3>2, <3>3, <3>4
  <2> QED BY <2>1, <2>2, <2>3
<1>6. Router(store)!Champion(rules, ms) \in ms
      /\ \A j \in ms \ {Router(store)!Champion(rules, ms)} : Outranks(rules, Router(store)!Champion(rules, ms), j)
  <2> DEFINE P(i) == i \in ms /\ \A j \in ms \ {i} : Outranks(rules, i, j)
  <2>1. P(c) BY <1>4, <1>5
  <2>2. Router(store)!Champion(rules, ms) = CHOOSE i \in ms : \A j \in ms \ {i} : Outranks(rules, i, j)
    BY DEF Router!Champion, Outranks
  <2> QED BY <2>1, <2>2
<1>7. Strongest(rules, ms, Router(store)!Champion(rules, ms))
  <2>1. ASSUME NEW j \in ms PROVE Router(store)!Specificity(rules[j]) <= Router(store)!Specificity(rules[Router(store)!Champion(rules, ms)])
    <3>1. Router(store)!Specificity(rules[j]) \in Nat /\ Router(store)!Specificity(rules[Router(store)!Champion(rules, ms)]) \in Nat
      BY SMTT(30), SpecificityIsNatural
    <3>2. j = Router(store)!Champion(rules, ms) \/ Outranks(rules, Router(store)!Champion(rules, ms), j) BY <1>6
    <3> QED BY <3>1, <3>2 DEF Outranks
  <2> QED BY <2>1, <1>6 DEF Strongest
<1> QED BY <1>6, <1>7

\* When no two rules contradict each other, the most specific ones say the same.
LEMMA StrongestAgree ==
  ASSUME NEW rules, NEW ms, ms \subseteq Nat, ~Router(store)!Conflicting(rules, ms),
         NEW i, Strongest(rules, ms, i)
  PROVE  Router(store)!SameEffect(rules[Router(store)!Champion(rules, ms)], rules[i])
<1> DEFINE c == Router(store)!Champion(rules, ms)
           before == {x \in ms : Router(store)!ConsideredBefore(rules, x, i)}
           b == Router(store)!Champion(rules, before)
<1>1. i \in ms /\ \A j \in ms : Router(store)!Specificity(rules[j]) <= Router(store)!Specificity(rules[i]) BY DEF Strongest
<1>2. c \in ms /\ \A j \in ms \ {c} : Outranks(rules, c, j) BY <1>1, ChampionFacts
<1>3. CASE c = i BY <1>3 DEF Router!SameEffect
<1>4. CASE c # i
  <2>1. Outranks(rules, c, i) BY <1>1, <1>2, <1>4
  <2>2. Router(store)!Specificity(rules[c]) = Router(store)!Specificity(rules[i]) /\ Router(store)!ConsideredBefore(rules, c, i)
    <3>1. Router(store)!Specificity(rules[c]) \in Nat /\ Router(store)!Specificity(rules[i]) \in Nat BY SpecificityIsNatural
    <3>2. Router(store)!Specificity(rules[c]) <= Router(store)!Specificity(rules[i]) BY <1>1, <1>2
    <3> QED BY <2>1, <3>1, <3>2 DEF Outranks
  <2>3. before \subseteq Nat /\ before # {} /\ c \in before BY <1>2, <2>2
  <2>4. b \in before /\ \A j \in before \ {b} : Outranks(rules, b, j)
    <3> HIDE DEF before
    <3> QED BY <2>3, ChampionFacts
  <2>5. b = c
    <3> SUFFICES ASSUME b # c PROVE FALSE OBVIOUS
    <3>1. Outranks(rules, b, c) BY <2>3, <2>4
    <3>2. Outranks(rules, c, b) BY <1>2, <2>4
    <3>3. Router(store)!Specificity(rules[c]) \in Nat /\ Router(store)!Specificity(rules[b]) \in Nat BY SpecificityIsNatural
    <3>4. ~(Router(store)!ConsideredBefore(rules, b, c) /\ Router(store)!ConsideredBefore(rules, c, b))
      BY <1>2, <2>3, <2>4, ConsideredInOrder
    <3> HIDE DEF b, c
    <3> QED BY <3>1, <3>2, <3>3, <3>4 DEF Outranks
  <2>6. ~(Router(store)!Specificity(rules[b]) = Router(store)!Specificity(rules[i]) /\ ~Router(store)!SameEffect(rules[b], rules[i]))
    BY <1>1, <2>3 DEF Router!Conflicting
  <2> QED BY <2>2, <2>5, <2>6
<1> QED BY <1>3, <1>4

\* The same rules, in some places and in others, that do not contradict each other.
SameRules(rules, ms, others, ns) ==
  /\ ms \subseteq Nat /\ ns \subseteq Nat /\ ~Router(store)!Conflicting(others, ns)
  /\ \A i \in ms : \E j \in ns : others[j] = rules[i]
  /\ \A j \in ns : \E i \in ms : rules[i] = others[j]


\* When the rules that match are the same in two files, and do not contradict
\* each other in one of them, they say the same.
LEMMA SameReadiness ==
  ASSUME NEW rules, NEW ms, NEW others, NEW ns, SameRules(rules, ms, others, ns)
  PROVE  \A arrival, alight : Router(store)!ReadyBy(rules, ms, arrival, alight)
                                = Router(store)!ReadyBy(others, ns, arrival, alight)
<1>0. /\ ms \subseteq Nat /\ ns \subseteq Nat /\ ~Router(store)!Conflicting(others, ns)
      /\ \A i \in ms : \E j \in ns : others[j] = rules[i]
      /\ \A j \in ns : \E i \in ms : rules[i] = others[j]
  BY DEF SameRules
<1> TAKE arrival, alight
<1>1. CASE ms = {}
  <2>1. ns = {} BY <1>0, <1>1
  <2> QED BY <1>1, <2>1 DEF Router!ReadyBy
<1>2. CASE ms # {}
  <2> DEFINE c == Router(store)!Champion(rules, ms)
             e == Router(store)!Champion(others, ns)
  <2>1. c \in ms /\ Strongest(rules, ms, c) BY <1>0, <1>2, ChampionFacts
  <2>2. ns # {} BY <1>0, <1>2
  <2>3. PICK j \in ns : others[j] = rules[c] BY <1>0, <2>1
  <2>4. Strongest(others, ns, j)
    <3>1. ASSUME NEW k \in ns
          PROVE  Router(store)!Specificity(others[k]) <= Router(store)!Specificity(others[j])
      <4>1. PICK i \in ms : rules[i] = others[k] BY <1>0
      <4>2. Router(store)!Specificity(rules[i]) <= Router(store)!Specificity(rules[c]) BY <2>1 DEF Strongest
      <4> QED BY <2>3, <4>1, <4>2
    <3> QED BY <3>1 DEF Strongest
  <2>5. Router(store)!SameEffect(others[e], others[j]) BY <1>0, <2>4, StrongestAgree
  <2>6. others[e].type = rules[c].type /\ others[e].min = rules[c].min BY <2>3, <2>5 DEF Router!SameEffect
  <2>7. Router(store)!ReadyBy(rules, ms, arrival, alight) = Router(store)!ReadyUnder(rules[c], arrival, alight)
    BY <1>2 DEF Router!ReadyBy
  <2>8. Router(store)!ReadyBy(others, ns, arrival, alight) = Router(store)!ReadyUnder(others[e], arrival, alight)
    BY <2>2 DEF Router!ReadyBy
  <2> HIDE DEF c, e
  <2>9. Router(store)!ReadyUnder(rules[c], arrival, alight) = Router(store)!ReadyUnder(others[e], arrival, alight)
    BY <2>6 DEF Router!ReadyUnder
  <2> QED BY <2>7, <2>8, <2>9
<1> QED BY <1>1, <1>2


(***************************************************************************)
(* The rules of a timetable.                                               *)
(***************************************************************************)
\* The rules of the router that the timetable makes.
RuleRows(C) == {RouterRule(r) : r \in LoadRules(C)}

\* The rule that a row of the feed is for two stops and two trips.
RuleAt(r, a, b, f, t) == [fromStop |-> a, toStop |-> b, type |-> r.type, min |-> r.min,
                          fromRoute |-> r.fromRoute, toRoute |-> r.toRoute, fromTrip |-> f, toTrip |-> t]

\* The rules that one row of the feed makes.
RulesMade(r, C) == {RuleAt(r, x[1], x[2], x[3], x[4]) :
                      x \in RuleStops(r.from) \X RuleStops(r.to) \X RuleInstances(r.fromTrip, C)
                              \X RuleInstances(r.toTrip, C)}

\* A rule is loaded when a row of the feed makes it.
LEMMA RulesLoaded ==
  ASSUME NEW C, NEW r
  PROVE  r \in LoadRules(C) <=>
           \E x \in WalkRules :
             /\ x.source = "gtfs"
             /\ \E a \in RuleStops(x.from), b \in RuleStops(x.to),
                   f \in RuleInstances(x.fromTrip, C), t \in RuleInstances(x.toTrip, C) : r = RuleAt(x, a, b, f, t)
BY DEF LoadRules, RuleAt

\* There are finitely many of them.
LEMMA RulesFinite ==
  ASSUME Sized(store), NEW C, IsFiniteSet(C)
  PROVE  IsFiniteSet(RuleRows(C))
<1>1. IsFiniteSet(IdsOf(store.stops))
  <2> DEFINE ids == IdsOf(store.stops)
             f == [s \in store.stops |-> s.id]
  <2>1. \A y \in ids : \E s \in store.stops : f[s] = y BY DEF IdsOf
  <2>2. DOMAIN f = store.stops /\ IsFiniteSet(store.stops) BY DEF Sized
  <2> HIDE DEF ids, f
  <2>3. IsFiniteSet(ids) BY <2>1, <2>2, FiniteImage
  <2> QED BY <2>3 DEF ids
<1>2. ASSUME NEW id PROVE IsFiniteSet(RuleStops(id))
  <2>1. \A X : ChildrenOf(store.stops, X) \subseteq IdsOf(store.stops) BY DEF ChildrenOf, IdsOf
  <2>2. RuleStops(id) \subseteq IdsOf(store.stops) \cup {id} BY <2>1 DEF RuleStops, PlatformsBelow
  <2>3. IsFiniteSet({id}) BY FS_Singleton
  <2>4. IsFiniteSet(IdsOf(store.stops) \cup {id}) BY <1>1, <2>3, FS_Union
  <2> QED BY <2>2, <2>4, FS_Subset
<1>3. ASSUME NEW trip PROVE IsFiniteSet(RuleInstances(trip, C))
  <2>1. CASE trip = None BY <2>1, FS_Singleton DEF RuleInstances
  <2>2. CASE trip # None
    <3> DEFINE I == RuleInstances(trip, C)
               f == [c \in C |-> [day |-> c.day, trip |-> c.trip]]
    <3>1. I = InstancesOf(C, TripKey(store.trips, trip)) BY <2>2 DEF RuleInstances
    <3>2. \A y \in I : \E c \in C : f[c] = y BY <3>1 DEF InstancesOf
    <3>3. DOMAIN f = C OBVIOUS
    <3> HIDE DEF I, f
    <3>4. IsFiniteSet(I) BY <3>2, <3>3, FiniteImage
    <3> QED BY <3>4 DEF I
  <2> QED BY <2>1, <2>2
<1>4. ASSUME NEW r PROVE IsFiniteSet(RulesMade(r, C))
  <2> DEFINE A == RuleStops(r.from)
             B == RuleStops(r.to)
             F == RuleInstances(r.fromTrip, C)
             T == RuleInstances(r.toTrip, C)
             P == A \X B \X F \X T
             Q == A \X (B \X (F \X T))
             f == [x \in Q |-> RuleAt(r, x[1], x[2][1], x[2][2][1], x[2][2][2])]
  <2>1. IsFiniteSet(Q)
    <3>1. IsFiniteSet(A) /\ IsFiniteSet(B) /\ IsFiniteSet(F) /\ IsFiniteSet(T) BY <1>2, <1>3
    <3> HIDE DEF A, B, F, T
    <3>2. IsFiniteSet(F \X T) BY <3>1, FS_Product
    <3>3. IsFiniteSet(B \X (F \X T)) BY <3>1, <3>2, FS_Product
    <3> QED BY <3>1, <3>3, FS_Product
  <2>2. \A y \in RulesMade(r, C) : \E x \in Q : f[x] = y
    <3>1. TAKE y \in RulesMade(r, C)
    <3>2. PICK z \in P : y = RuleAt(r, z[1], z[2], z[3], z[4]) BY DEF RulesMade
    <3> HIDE DEF A, B, F, T
    <3>3. z[1] \in A /\ z[2] \in B /\ z[3] \in F /\ z[4] \in T BY <3>2
    <3> DEFINE x == <<z[1], <<z[2], <<z[3], z[4]>>>>>>
    <3>4. x \in Q /\ f[x] = y BY <3>2, <3>3
    <3> QED BY <3>4
  <2>3. DOMAIN f = Q OBVIOUS
  <2> HIDE DEF f, Q
  <2> QED BY <2>1, <2>2, <2>3, FiniteImage
<1> DEFINE X == store.transfers
           S == {RulesMade(r, C) : r \in X}
           g == [r \in X |-> RulesMade(r, C)]
<1>5. IsFiniteSet(S)
  <2>1. \A y \in S : \E r \in X : g[r] = y OBVIOUS
  <2>2. DOMAIN g = X /\ IsFiniteSet(X) BY DEF Sized
  <2> HIDE DEF S, g, X
  <2> QED BY <2>1, <2>2, FiniteImage
<1>6. IsFiniteSet(UNION S)
  <2>1. \A T \in S : IsFiniteSet(T) BY <1>4
  <2> HIDE DEF S
  <2> QED BY <1>5, <2>1, FS_UNION
<1>7. LoadRules(C) \subseteq UNION S
  <2>1. ASSUME NEW r \in LoadRules(C) PROVE r \in UNION S
    <3>1. PICK x \in WalkRules : \E a \in RuleStops(x.from), b \in RuleStops(x.to),
             f \in RuleInstances(x.fromTrip, C), t \in RuleInstances(x.toTrip, C) : r = RuleAt(x, a, b, f, t)
      BY <2>1, RulesLoaded
    <3>2. PICK a \in RuleStops(x.from), b \in RuleStops(x.to),
             f \in RuleInstances(x.fromTrip, C), t \in RuleInstances(x.toTrip, C) : r = RuleAt(x, a, b, f, t)
      BY <3>1
    <3> DEFINE y == <<a, b, f, t>>
    <3>3. y[1] = a /\ y[2] = b /\ y[3] = f /\ y[4] = t OBVIOUS
    <3>4. y \in RuleStops(x.from) \X RuleStops(x.to) \X RuleInstances(x.fromTrip, C) \X RuleInstances(x.toTrip, C)
      BY <3>2
    <3> HIDE DEF y
    <3>5. r \in RulesMade(x, C) BY <3>2, <3>3, <3>4 DEF RulesMade
    <3>6. RulesMade(x, C) \in S BY DEF WalkRules
    <3> QED BY <3>5, <3>6
  <2> QED BY <2>1
<1>8. IsFiniteSet(LoadRules(C)) BY <1>6, <1>7, FS_Subset
<1> DEFINE L == LoadRules(C)
           R == RuleRows(C)
           h == [r \in L |-> RouterRule(r)]
<1>9. DOMAIN h = L /\ \A y \in R : \E r \in L : h[r] = y BY DEF RuleRows
<1> HIDE DEF L, R, h, S
<1>10. IsFiniteSet(R) BY <1>8, <1>9, FiniteImage DEF L
<1> QED BY <1>10 DEF R

\* The file that the router reads holds them all, and nothing else.
LEMMA FileOfRules ==
  ASSUME NEW S, IsFiniteSet(S)
  PROVE  LET rules == Community!SetToSeq(S)
         IN  DOMAIN rules \subseteq Nat /\ {rules[i] : i \in DOMAIN rules} = S
<1> DEFINE P(f) == f \in [1 .. Community!Cardinality(S) -> S] /\ Community!IsInjective(f)
           rules == CHOOSE f : P(f)
           n == Cardinality(S)
<1>1. Community!Cardinality(S) = n BY DEF Community!Cardinality, Cardinality
<1>2. n \in Nat /\ \E f \in [1 .. n -> S] : P(f) /\ \A y \in S : \E i \in 1 .. n : f[i] = y
  <2>1. PICK m \in Nat : ExistsBijection(1 .. m, S) BY FS_NatBijection
  <2>2. n = m BY <2>1, FS_CountingElements
  <2>3. PICK f \in Bijection(1 .. m, S) : TRUE BY <2>1 DEF ExistsBijection
  <2>4. f \in [1 .. m -> S] /\ (\A a, b \in 1 .. m : f[a] = f[b] => a = b) /\ \A y \in S : \E i \in 1 .. m : f[i] = y
    BY <2>3 DEF Bijection, Injection, Surjection, IsInjective
  <2>5. Community!IsInjective(f) BY <2>4 DEF Community!IsInjective
  <2> HIDE DEF n
  <2> QED BY <1>1, <2>2, <2>4, <2>5
<1>3. P(rules) BY <1>2
<1>4. Community!SetToSeq(S) = rules BY DEF Community!SetToSeq
<1> HIDE DEF rules
<1>5. rules \in [1 .. n -> S] BY <1>1, <1>3
<1>6. \A y \in S : \E i \in 1 .. n : rules[i] = y
  <2>1. rules \in Injection(1 .. n, S) BY <1>1, <1>3 DEF Injection, IsInjective, Community!IsInjective
  <2>2. IsFiniteSet(1 .. n) /\ Cardinality(1 .. n) = n BY <1>2, FS_Interval
  <2>3. rules \in Surjection(1 .. n, S) BY <2>1, <2>2, FS_Injection
  <2> QED BY <2>3 DEF Surjection
<1> QED BY <1>2, <1>4, <1>5, <1>6


(***************************************************************************)
(* What the router is asked about some runs.                               *)
(***************************************************************************)
\* The question, when these runs are loaded.
Asked(C) == RouterQuery([connections |-> C, walk |-> LoadWalking, rules |-> LoadRules(C),
                         continuations |-> LoadContinuations(C)])

\* What it is asked, part by part.
LEMMA AskedIs ==
  ASSUME NEW C
  PROVE  /\ Asked(C).rows = RouterRows(C) /\ Asked(C).walk = LoadWalking
         /\ Asked(C).rules = Community!SetToSeq(RuleRows(C))
         /\ Asked(C).links = {RouterLink(k) : k \in LoadContinuations(C)}
         /\ Asked(C).sources = sources /\ Asked(C).targets = targets
         /\ Asked(C).at = asked.at /\ Asked(C).conditional = asked.conditional
BY DEF Asked, RouterQuery, RuleRows

\* Its row of a run.
RowOf(C, c) == Asked(C).rows[RowNumber(C, c)]

\* The row of a run says what the run does.
LEMMA RowIs ==
  ASSUME NEW C, SoundRuns(C), NEW c \in C
  PROVE  /\ RowOf(C, c).trip = RunOf(c) /\ RowOf(C, c).from = c.from /\ RowOf(C, c).to = c.to
         /\ RowOf(C, c).depTime = c.dep /\ RowOf(C, c).arrTime = c.arr
         /\ RowOf(C, c).pickup = Policy(c.pickup) /\ RowOf(C, c).dropOff = Policy(c.dropOff)
         /\ RowNumber(C, c) \in DOMAIN Asked(C).rows
<1>1. RowOf(C, c) = RouterRow(c) BY RowsFacts, AskedIs DEF RowOf
<1>2. RowNumber(C, c) \in DOMAIN Asked(C).rows BY RowsFacts, RowNumbers, AskedIs
<1> QED BY <1>1, <1>2 DEF RouterRow

\* The rules for a change between two runs.
Matched(C, a, b) == {r \in RuleRows(C) : Router(store)!RuleMatches(r, RunOf(a), a.to, RunOf(b), b.from)}

\* The places of these rules in the file.
Matching(C, a, b) == Router(store)!MatchingRules(Asked(C).rules, RunOf(a), a.to, RunOf(b), b.from)

\* The places of the rules that match hold the rules that do.
LEMMA MatchingIsMatched ==
  ASSUME Sized(store), NEW C, SoundRuns(C), NEW a, NEW b
  PROVE  /\ Matching(C, a, b) \subseteq Nat
         /\ {Asked(C).rules[i] : i \in Matching(C, a, b)} = Matched(C, a, b)
<1> DEFINE rules == Asked(C).rules
           S == RuleRows(C)
<1>1. IsFiniteSet(S) BY RulesFinite DEF SoundRuns
<1>2. rules = Community!SetToSeq(S) BY AskedIs
<1> HIDE DEF rules, S
<1>3. DOMAIN rules \subseteq Nat /\ {rules[i] : i \in DOMAIN rules} = S BY <1>1, <1>2, FileOfRules
<1> QED BY <1>3 DEF Matching, Matched, Router!MatchingRules, S, rules

\* Whether a rule is for a run does not depend on the other runs that are loaded.
LEMMA SameInstances ==
  ASSUME asked \in Requests, NEW C, SoundRuns(C), NEW D, SoundRuns(D), NEW a \in D,
         NEW trip, NEW f \in RuleInstances(trip, C), f \in {None, RunOf(a)}
  PROVE  f \in RuleInstances(trip, D)
<1>1. CASE trip = None BY <1>1 DEF RuleInstances
<1>2. CASE trip # None
  <2> DEFINE key == TripKey(store.trips, trip)
  <2>1. f \in InstancesOf(C, key) BY <1>2 DEF RuleInstances
  <2>2. PICK c \in C : c.trip = key /\ f = [day |-> c.day, trip |-> c.trip] BY <2>1 DEF InstancesOf
  <2> HIDE DEF key
  <2>3. SoundRun(c) BY DEF SoundRuns
  <2>4. c.day \in Days /\ c.trip \in Int \X Int BY <2>3 DEF SoundRun
  <2>5. f \in [day : Days, trip : Int \X Int] BY <2>2, <2>4
  <2>6. f # None BY <2>5, RequestsAssumption
  <2>7. f = [day |-> a.day, trip |-> a.trip] BY <2>6 DEF RunOf
  <2>8. a.trip = key BY <2>2, <2>7
  <2>9. f \in InstancesOf(D, key) BY <2>7, <2>8 DEF InstancesOf
  <2> QED BY <1>2, <2>9 DEF RuleInstances, key
<1> QED BY <1>1, <1>2

\* So the rules for a change between two runs are the same in both.
LEMMA SameMatched ==
  ASSUME asked \in Requests, NEW C, SoundRuns(C), NEW D, SoundRuns(D), NEW a \in C \cap D, NEW b \in C \cap D
  PROVE  Matched(C, a, b) = Matched(D, a, b)
<1>1. ASSUME NEW X, SoundRuns(X), NEW Y, SoundRuns(Y), a \in Y, b \in Y, NEW r \in Matched(X, a, b)
      PROVE  r \in Matched(Y, a, b)
  <2>1. PICK l \in LoadRules(X) : r = RouterRule(l) BY <1>1 DEF Matched, RuleRows
  <2>2. PICK x \in WalkRules :
             /\ x.source = "gtfs"
             /\ \E s \in RuleStops(x.from), t \in RuleStops(x.to),
                   f \in RuleInstances(x.fromTrip, X), g \in RuleInstances(x.toTrip, X) : l = RuleAt(x, s, t, f, g)
    BY RulesLoaded
  <2>3. PICK s \in RuleStops(x.from), t \in RuleStops(x.to),
             f \in RuleInstances(x.fromTrip, X), g \in RuleInstances(x.toTrip, X) : l = RuleAt(x, s, t, f, g)
    BY <2>2
  <2>4. r.fromTrip = f /\ r.toTrip = g BY <2>1, <2>3 DEF RouterRule, RuleAt
  <2>5. Router(store)!RuleMatches(r, RunOf(a), a.to, RunOf(b), b.from) BY <1>1 DEF Matched
  <2>6. f \in {None, RunOf(a)} /\ g \in {None, RunOf(b)} BY <2>4, <2>5 DEF Router!RuleMatches
  <2>7. f \in RuleInstances(x.fromTrip, Y) /\ g \in RuleInstances(x.toTrip, Y) BY <1>1, <2>6, SameInstances
  <2>8. l \in LoadRules(Y) BY <2>2, <2>3, <2>7, RulesLoaded
  <2> QED BY <2>1, <2>5, <2>8 DEF Matched, RuleRows
<1> QED BY <1>1

(***************************************************************************)
(* Changes.                                                                *)
(***************************************************************************)
\* Under no rule can one board before one is there.
LEMMA ReadyLater ==
  ASSUME Sized(store), NEW C, SoundRuns(C), NEW a, NEW b, NEW arrival \in Int, NEW alight \in Int, NEW t \in Int, t < Far,
         Router(store)!ReadyBy(Asked(C).rules, Matching(C, a, b), arrival, alight) <= t
  PROVE  arrival <= t
<1> DEFINE ms == Matching(C, a, b)
           rules == Asked(C).rules
<1>1. CASE ms = {} BY <1>1 DEF Router!ReadyBy
<1>2. CASE ms # {}
  <2> DEFINE c == Router(store)!Champion(rules, ms)
             r == rules[c]
  <2>1. c \in ms BY <1>2, MatchingIsMatched, ChampionFacts
  <2>2. r \in Matched(C, a, b) BY <2>1, MatchingIsMatched
  <2>3. PICK l \in LoadRules(C) : r = RouterRule(l) BY <2>2 DEF Matched, RuleRows
  <2>4. PICK x \in WalkRules :
          \E s \in RuleStops(x.from), u \in RuleStops(x.to),
             f \in RuleInstances(x.fromTrip, C), g \in RuleInstances(x.toTrip, C) : l = RuleAt(x, s, u, f, g)
    BY RulesLoaded
  <2>5. x.min \in Nat BY DEF WalkRules, Sized
  <2>6. r.min \in Nat /\ r.type \in {"forbidden", "minimum", "recommended"}
    <3>1. l.min = x.min BY <2>4 DEF RuleAt
    <3>2. r.min = l.min /\ r.type = RuleType(l.type) BY <2>3, <2>4 DEF RouterRule, RuleAt
    <3> QED BY <2>5, <3>1, <3>2 DEF RuleType
  <2>7. Router(store)!ReadyUnder(r, arrival, alight) <= t BY <1>2 DEF Router!ReadyBy
  <2> HIDE DEF r
  <2>8. CASE r.type = "recommended" BY <2>7, <2>8 DEF Router!ReadyUnder
  <2>9. CASE r.type = "forbidden" BY <2>7, <2>9, RequestsAssumption DEF Router!ReadyUnder
  <2>10. CASE r.type = "minimum"
    <3> DEFINE m == Router(store)!MaxOf({arrival, alight + r.min})
    <3>1. m <= t BY <2>7, <2>10 DEF Router!ReadyUnder
    <3>2. alight + r.min \in Int BY <2>6
    <3>3. m \in {arrival, alight + r.min} /\ \A y \in {arrival, alight + r.min} : m >= y
      <4> DEFINE S == {arrival, alight + r.min}
      <4>1. \E z \in S : \A y \in S : z >= y BY <3>2
      <4> HIDE DEF S
      <4>2. Router(store)!MaxOf(S) \in S /\ \A y \in S : Router(store)!MaxOf(S) >= y BY <4>1 DEF Router!MaxOf
      <4> QED BY <4>2 DEF S
    <3> HIDE DEF m
    <3> QED BY <3>1, <3>2, <3>3
  <2> QED BY <2>6, <2>8, <2>9, <2>10
<1> QED BY <1>1, <1>2

\* Between the rows of two runs.
LEMMA ChangesAre ==
  ASSUME NEW C, SoundRuns(C), NEW a \in C, NEW b \in C, NEW walks
  PROVE  Router(store)!MayChange(Asked(C), walks, RowNumber(C, a), RowNumber(C, b)) <=>
           /\ Router(store)!Allowed(Asked(C), Policy(a.dropOff)) /\ Router(store)!Allowed(Asked(C), Policy(b.pickup))
           /\ \E n \in Router(store)!Walking(walks, a.to, b.from) :
                Router(store)!ReadyBy(Asked(C).rules, Matching(C, a, b), a.arr + n, a.arr) <= b.dep
<1> DEFINE i == RowNumber(C, a)
           j == RowNumber(C, b)
           q == Asked(C)
<1>1. /\ q.rows[i].trip = RunOf(a) /\ q.rows[i].to = a.to /\ q.rows[i].arrTime = a.arr
      /\ q.rows[i].dropOff = Policy(a.dropOff)
  BY RowIs DEF RowOf
<1>2. /\ q.rows[j].trip = RunOf(b) /\ q.rows[j].from = b.from /\ q.rows[j].depTime = b.dep
      /\ q.rows[j].pickup = Policy(b.pickup)
  BY RowIs DEF RowOf
<1>3. Matching(C, a, b) = Router(store)!MatchingRules(q.rules, RunOf(a), a.to, RunOf(b), b.from) BY DEF Matching
<1> HIDE DEF i, j, q
<1>4. Router(store)!MayChange(q, walks, i, j) <=>
           /\ Router(store)!Allowed(q, Policy(a.dropOff)) /\ Router(store)!Allowed(q, Policy(b.pickup))
           /\ \E n \in Router(store)!Walking(walks, a.to, b.from) :
                Router(store)!ReadyBy(q.rules, Matching(C, a, b), a.arr + n, a.arr) <= b.dep
  BY <1>1, <1>2, <1>3 DEF Router!MayChange
<1> QED BY <1>4 DEF i, j, q

\* A change takes time.
LEMMA ChangeTakesTime ==
  ASSUME Sized(store), NEW C, SoundRuns(C), NEW a \in C, NEW b \in C, NEW walks, \A w \in walks : w[3] \in Nat,
         b.dep < Far, Router(store)!MayChange(Asked(C), walks, RowNumber(C, a), RowNumber(C, b))
  PROVE  a.arr <= b.dep
<1>1. PICK n \in Router(store)!Walking(walks, a.to, b.from) :
        Router(store)!ReadyBy(Asked(C).rules, Matching(C, a, b), a.arr + n, a.arr) <= b.dep
  BY ChangesAre
<1>2. n \in Nat BY DEF Router!Walking
<1>3. a.arr \in Int /\ b.dep \in Int BY DEF SoundRuns, SoundRun
<1>4. a.arr + n \in Int BY <1>2, <1>3
<1>5. a.arr + n <= b.dep BY <1>1, <1>3, <1>4, ReadyLater
<1> QED BY <1>2, <1>3, <1>5

\* It is possible whatever else is loaded, unless rules contradict each other.
LEMMA ChangesAgree ==
  ASSUME Sized(store), asked \in Requests, NEW C, SoundRuns(C), NEW D, SoundRuns(D),
         NEW a \in C \cap D, NEW b \in C \cap D, NEW walks, ~Contradicted(Asked(D))
  PROVE  Router(store)!MayChange(Asked(C), walks, RowNumber(C, a), RowNumber(C, b)) <=>
         Router(store)!MayChange(Asked(D), walks, RowNumber(D, a), RowNumber(D, b))
<1>1. ~Router(store)!Conflicting(Asked(D).rules, Matching(D, a, b))
  <2> DEFINE i == RowNumber(D, a)
             j == RowNumber(D, b)
             q == Asked(D)
  <2>1. i \in DOMAIN q.rows /\ q.rows[i].trip = RunOf(a) /\ q.rows[i].to = a.to BY RowIs DEF RowOf
  <2>2. j \in DOMAIN q.rows /\ q.rows[j].trip = RunOf(b) /\ q.rows[j].from = b.from BY RowIs DEF RowOf
  <2>3. Matching(D, a, b) = Router(store)!MatchingRules(q.rules, q.rows[i].trip, q.rows[i].to, q.rows[j].trip, q.rows[j].from)
    BY <2>1, <2>2 DEF Matching
  <2> HIDE DEF i, j, q
  <2>4. ~Router(store)!Conflicting(q.rules, Matching(D, a, b)) BY <2>1, <2>2, <2>3 DEF Contradicted, q
  <2> QED BY <2>4 DEF q
<1>2. /\ Matching(C, a, b) \subseteq Nat /\ Matching(D, a, b) \subseteq Nat
      /\ {Asked(C).rules[i] : i \in Matching(C, a, b)} = {Asked(D).rules[i] : i \in Matching(D, a, b)}
  BY MatchingIsMatched, SameMatched
<1>3. \A x, y : Router(store)!ReadyBy(Asked(C).rules, Matching(C, a, b), x, y)
                  = Router(store)!ReadyBy(Asked(D).rules, Matching(D, a, b), x, y)
  <2> DEFINE rules == Asked(C).rules
             others == Asked(D).rules
             ms == Matching(C, a, b)
             ns == Matching(D, a, b)
  <2>1. SameRules(rules, ms, others, ns)
    <3>1. /\ ms \subseteq Nat /\ ns \subseteq Nat /\ ~Router(store)!Conflicting(others, ns)
          /\ \A i \in ms : \E j \in ns : others[j] = rules[i]
          /\ \A j \in ns : \E i \in ms : rules[i] = others[j]
      BY <1>1, <1>2
    <3> HIDE DEF rules, others, ms, ns
    <3> QED BY <3>1 DEF SameRules
  <2> HIDE DEF rules, others, ms, ns
  <2>2. \A x, y : Router(store)!ReadyBy(rules, ms, x, y) = Router(store)!ReadyBy(others, ns, x, y)
    BY <2>1, SameReadiness
  <2> QED BY <2>2 DEF rules, others, ms, ns
<1>4. \A p : Router(store)!Allowed(Asked(C), p) <=> Router(store)!Allowed(Asked(D), p) BY AskedIs DEF Router!Allowed
<1>5. /\ Router(store)!MayChange(Asked(C), walks, RowNumber(C, a), RowNumber(C, b)) <=>
           /\ Router(store)!Allowed(Asked(C), Policy(a.dropOff)) /\ Router(store)!Allowed(Asked(C), Policy(b.pickup))
           /\ \E n \in Router(store)!Walking(walks, a.to, b.from) :
                Router(store)!ReadyBy(Asked(C).rules, Matching(C, a, b), a.arr + n, a.arr) <= b.dep
      /\ Router(store)!MayChange(Asked(D), walks, RowNumber(D, a), RowNumber(D, b)) <=>
           /\ Router(store)!Allowed(Asked(D), Policy(a.dropOff)) /\ Router(store)!Allowed(Asked(D), Policy(b.pickup))
           /\ \E n \in Router(store)!Walking(walks, a.to, b.from) :
                Router(store)!ReadyBy(Asked(D).rules, Matching(D, a, b), a.arr + n, a.arr) <= b.dep
  BY ChangesAre
<1> QED BY <1>3, <1>4, <1>5


(***************************************************************************)
(* Riding on.                                                              *)
(***************************************************************************)
\* A run is a trip on a day.
LEMMA RunIs == ASSUME NEW a, NEW b PROVE RunOf(a) = RunOf(b) <=> a.day = b.day /\ a.trip = b.trip
BY DEF RunOf

\* In the order of the rows only the same run is between two places of a run.
LEMMA OneRunBetween ==
  ASSUME NEW a, NEW x, NEW b, SoundRun(a), SoundRun(x), SoundRun(b),
         RunOf(a) = RunOf(b), Earlier(a, x), Earlier(x, b)
  PROVE  RunOf(x) = RunOf(a)
<1>1. a.day = b.day /\ a.trip = b.trip BY RunIs
<1>2. /\ a.trip = x.trip <=> a.trip[1] = x.trip[1] /\ a.trip[2] = x.trip[2]
      /\ x.trip = b.trip <=> x.trip[1] = b.trip[1] /\ x.trip[2] = b.trip[2]
  BY DEF SoundRun
<1>3. x.trip = a.trip BY <1>1, <1>2 DEF SoundRun, Earlier, RowBefore
<1>4. x.day = a.day BY <1>1, <1>2, <1>3 DEF SoundRun, Earlier, RowBefore
<1> QED BY <1>3, <1>4, RunIs

\* One of them is the next after another.
NextRun(C, a, b) == Earlier(a, b) /\ ~\E x \in C : Earlier(a, x) /\ Earlier(x, b)

\* The number of the next run is the next number.
LEMMA NextIs ==
  ASSUME NEW C, SoundRuns(C), NEW a \in C, NEW b \in C
  PROVE  RowNumber(C, b) = RowNumber(C, a) + 1 <=> NextRun(C, a, b)
<1> DEFINE n(c) == RowNumber(C, c)
<1>1. \A c \in C : n(c) \in 1 .. Cardinality(C) /\ n(c) \in Int
  <2>1. Cardinality(C) \in Nat /\ \A c \in C : n(c) \in 1 .. Cardinality(C) BY RowNumbers
  <2> QED BY <2>1
<1>2. \A x, y \in C : n(x) < n(y) <=> Earlier(x, y) BY RowNumbers
<1>3. \A k \in 1 .. Cardinality(C) : \E c \in C : n(c) = k BY RowNumbers
<1>4. Cardinality(C) \in Nat BY RowNumbers
<1> HIDE DEF n
<1>5. ASSUME n(b) = n(a) + 1 PROVE NextRun(C, a, b)
  <2>1. Earlier(a, b) BY <1>1, <1>2, <1>5
  <2>2. ASSUME NEW x \in C, Earlier(a, x), Earlier(x, b) PROVE FALSE
    <3>1. n(a) < n(x) /\ n(x) < n(b) /\ n(a) \in Int /\ n(x) \in Int BY <1>1, <1>2, <2>2
    <3> QED BY <1>5, <3>1
  <2> QED BY <2>1, <2>2 DEF NextRun
<1>6. ASSUME NextRun(C, a, b) PROVE n(b) = n(a) + 1
  <2>1. n(a) < n(b) BY <1>2, <1>6 DEF NextRun
  <2>2. SUFFICES ASSUME n(b) # n(a) + 1 PROVE FALSE OBVIOUS
  <2>3. n(a) + 1 \in 1 .. Cardinality(C) /\ n(a) < n(a) + 1 /\ n(a) + 1 < n(b)
    <3>1. n(a) \in 1 .. Cardinality(C) /\ n(b) \in 1 .. Cardinality(C) BY <1>1
    <3> QED BY <1>4, <2>1, <2>2, <3>1
  <2>4. PICK x \in C : n(x) = n(a) + 1 BY <1>3, <2>3
  <2>5. Earlier(a, x) /\ Earlier(x, b) BY <1>2, <2>3, <2>4
  <2> QED BY <1>6, <2>5 DEF NextRun
<1> QED BY <1>5, <1>6 DEF n

\* Two rows adjoin if their runs do.
LEMMA AdjoinIs ==
  ASSUME NEW C, SoundRuns(C), NEW a \in C, NEW b \in C
  PROVE  Router(store)!Adjoin(Asked(C), RowNumber(C, a), RowNumber(C, b)) <=>
           NextRun(C, a, b) /\ RunOf(a) = RunOf(b) /\ a.to = b.from /\ a.arr <= b.dep
<1> DEFINE i == RowNumber(C, a)
           j == RowNumber(C, b)
           q == Asked(C)
<1>1. q.rows[i].trip = RunOf(a) /\ q.rows[i].to = a.to /\ q.rows[i].arrTime = a.arr BY RowIs DEF RowOf
<1>2. q.rows[j].trip = RunOf(b) /\ q.rows[j].from = b.from /\ q.rows[j].depTime = b.dep BY RowIs DEF RowOf
<1>3. j = i + 1 <=> NextRun(C, a, b) BY NextIs
<1> HIDE DEF i, j, q
<1>4. Router(store)!Adjoin(q, i, j) <=> NextRun(C, a, b) /\ RunOf(a) = RunOf(b) /\ a.to = b.from /\ a.arr <= b.dep
  BY <1>1, <1>2, <1>3 DEF Router!Adjoin
<1> QED BY <1>4 DEF i, j, q

\* Where no trip has a gap, one is not at a later place before one has left an
\* earlier one.
LEMMA NoGapInOrder ==
  ASSUME NEW C, SoundRuns(C), ~Router(store)!HasGap(Asked(C)),
         NEW a \in C, NEW b \in C, RunOf(a) = RunOf(b), Earlier(a, b)
  PROVE  a.arr <= b.dep
<1> DEFINE n(c) == RowNumber(C, c)
           m == Cardinality(C)
           Late(x) == RunOf(x) = RunOf(a) /\ Earlier(a, x) /\ ~(a.arr <= x.dep)
           Bad == {k \in 1 .. m : \E x \in C : n(x) = k /\ Late(x)}
<1>1. \A c \in C : n(c) \in 1 .. m /\ n(c) \in Int
  <2>1. m \in Nat /\ \A c \in C : n(c) \in 1 .. m BY RowNumbers
  <2> QED BY <2>1
<1>2. (\A x, y \in C : n(x) < n(y) <=> Earlier(x, y)) /\ \A x, y \in C : n(x) = n(y) => x = y BY RowNumbers
<1>3. m \in Nat /\ \A k \in 1 .. m : \E c \in C : n(c) = k BY RowNumbers
<1>4. \A c \in C : SoundRun(c) BY DEF SoundRuns
<1>5. Bad = {}
  <2> SUFFICES ASSUME Bad # {} PROVE FALSE OBVIOUS
  <2>1. PICK k \in Bad : \A y \in Bad : k <= y
    <3>1. Bad \subseteq Nat BY <1>3
    <3> HIDE DEF Bad
    <3> QED BY <3>1, LeastNatural
  <2>2. PICK x \in C : n(x) = k /\ Late(x) BY <2>1
  <2> HIDE DEF n, m
  <2>3. n(a) < n(x) /\ n(a) \in 1 .. m /\ n(x) \in 1 .. m /\ k \in Int BY <1>1, <1>2, <2>2
  <2>4. k - 1 \in 1 .. m /\ n(a) <= k - 1 /\ k - 1 < k BY <1>3, <2>2, <2>3
  <2>5. PICK c \in C : n(c) = k - 1 BY <1>3, <2>4
  <2>6. Earlier(c, x) BY <1>2, <2>2, <2>4, <2>5
  <2>7. c = a \/ Earlier(a, c)
    <3>1. n(a) = n(c) \/ n(a) < n(c) BY <1>1, <2>4, <2>5
    <3> QED BY <1>2, <3>1
  <2>8. RunOf(c) = RunOf(a)
    <3>1. c # a => Earlier(a, c) BY <2>7
    <3> QED BY <1>4, <2>2, <2>6, <3>1, OneRunBetween
  <2>9. c.arr <= x.dep
    <3> DEFINE q == Asked(C)
    <3>1. q.rows[n(c)].trip = RunOf(c) /\ q.rows[n(x)].trip = RunOf(x) BY RowIs DEF RowOf, n
    <3>2. n(x) = n(c) + 1 BY <1>1, <2>2, <2>3, <2>5
    <3>3. n(c) \in 1 .. Len(q.rows) - 1
      <4>1. Len(q.rows) = m BY RowsFacts, AskedIs DEF m
      <4> QED BY <1>3, <2>2, <2>3, <2>4, <2>5, <4>1
    <3> HIDE DEF q
    <3>4. Router(store)!Adjoin(q, n(c), n(c) + 1)
      <4>1. ~Router(store)!HasGap(q) BY DEF q
      <4>2. q.rows[n(c)].trip = q.rows[n(c) + 1].trip BY <2>2, <2>8, <3>1, <3>2
      <4> QED BY <3>3, <4>1, <4>2 DEF Router!HasGap
    <3>5. Router(store)!Adjoin(Asked(C), RowNumber(C, c), RowNumber(C, x)) BY <3>2, <3>4 DEF q, n
    <3> QED BY <3>5, AdjoinIs
  <2>10. /\ a.arr \in Int /\ c.dep \in Int /\ c.arr \in Int /\ x.dep \in Int /\ c.dep <= c.arr
    BY <1>4 DEF SoundRun
  <2>11. c # a BY <2>2, <2>9
  <2>12. ~(a.arr <= c.dep) BY <2>2, <2>9, <2>10
  <2>13. Late(c) BY <2>7, <2>8, <2>11, <2>12
  <2>14. k - 1 \in Bad BY <2>4, <2>5, <2>13
  <2> HIDE DEF Bad
  <2> QED BY <2>1, <2>3, <2>4, <2>14
<1>6. n(b) \in 1 .. m BY <1>1
<1> HIDE DEF n, m
<1> QED BY <1>5, <1>6

\* Of a day of which runs are in C, those of W within some hours are in C.
Holds(C, W, lo, hi) ==
  /\ C \subseteq W /\ lo \in Int /\ hi \in Int
  /\ \A a \in C, x \in W : x.day = a.day /\ lo <= x.dep /\ x.arr <= hi => x \in C

\* What adjoins within these hours in a timetable without gaps does so in both.
LEMMA AdjoinAgrees ==
  ASSUME NEW C, SoundRuns(C), NEW W, SoundRuns(W), ~Router(store)!HasGap(Asked(W)),
         NEW lo, NEW hi, Holds(C, W, lo, hi),
         NEW a \in C, NEW b \in C, lo <= a.dep, b.arr <= hi
  PROVE  Router(store)!Adjoin(Asked(C), RowNumber(C, a), RowNumber(C, b)) <=>
         Router(store)!Adjoin(Asked(W), RowNumber(W, a), RowNumber(W, b))
<1>1. a \in W /\ b \in W BY DEF Holds
<1>2. NextRun(W, a, b) => NextRun(C, a, b) BY DEF NextRun, Holds
<1>3. ASSUME NextRun(C, a, b), RunOf(a) = RunOf(b) PROVE NextRun(W, a, b)
  <2>1. SUFFICES ASSUME NEW x \in W, Earlier(a, x), Earlier(x, b) PROVE FALSE BY <1>3 DEF NextRun
  <2>2. SoundRun(a) /\ SoundRun(x) /\ SoundRun(b) BY DEF SoundRuns
  <2>3. RunOf(x) = RunOf(a) BY <1>3, <2>1, <2>2, OneRunBetween
  <2>4. a.arr <= x.dep /\ x.arr <= b.dep BY <1>1, <1>3, <2>1, <2>3, NoGapInOrder
  <2>5. lo <= x.dep /\ x.arr <= hi BY <2>2, <2>4 DEF SoundRun, Holds
  <2>6. x \in C BY <2>3, <2>5, RunIs DEF Holds
  <2> QED BY <1>3, <2>1, <2>6 DEF NextRun
<1> QED BY <1>1, <1>2, <1>3, AdjoinIs


(***************************************************************************)
(* Staying on board.                                                       *)
(***************************************************************************)
\* The connections of a trip follow each other along it.
LEMMA AlongTheTrip ==
  ASSUME Committed, NEW c \in store.connections, NEW e \in store.connections,
         c.trip = e.trip, c.fromSeq < e.fromSeq
  PROVE  c.toSeq <= e.fromSeq
<1> DEFINE times == store.times
<1>0. TimedRows(store) /\ Linked(store) BY CommittedTables
<1>1. PICK i, j \in DOMAIN times :
        NextRow(times, i, j) /\ c = Segment(store.trips[times[i].trip], times[i], times[j])
  BY <1>0, ConnectionRows
<1>2. PICK k, l \in DOMAIN times :
        NextRow(times, k, l) /\ e = Segment(store.trips[times[k].trip], times[k], times[l])
  BY <1>0, ConnectionRows
<1>3. c.trip = times[i].trip /\ c.fromSeq = times[i].seq /\ c.toSeq = times[j].seq BY <1>1 DEF Segment
<1>4. e.trip = times[k].trip /\ e.fromSeq = times[k].seq BY <1>2 DEF Segment
<1>5. times[i].seq \in Int /\ times[j].seq \in Int /\ times[k].seq \in Int BY <1>0 DEF TimedRows
<1>6. times[k].trip = times[i].trip /\ times[k].seq > times[i].seq BY <1>3, <1>4, <1>5
<1> HIDE DEF times
<1>7. times[j].seq < times[k].seq \/ times[j].seq = times[k].seq BY <1>1, <1>6 DEF NextRow
<1> QED BY <1>3, <1>4, <1>5, <1>7

\* Nothing of a trip is before its first number or after its last.
LEMMA EndsOfTrip ==
  ASSUME Committed, NEW e \in store.connections
  PROVE  FirstSeq(e.trip) <= e.fromSeq /\ e.toSeq <= LastSeq(e.trip)
<1> DEFINE own == {x \in store.connections : x.trip = e.trip}
           starts == {c.fromSeq : c \in own}
           stops == {c.toSeq : c \in own}
           f == [c \in own |-> c.fromSeq]
           g == [c \in own |-> c.toSeq]
<1>0. TimedRows(store) /\ Linked(store) BY CommittedTables
<1>1. \A c \in own : c.fromSeq \in Int /\ c.toSeq \in Int BY <1>0, ConnectionTimes
<1>2. IsFiniteSet(own) BY FiniteConnections, FS_Subset
<1>3. e \in own OBVIOUS
<1>4. IsFiniteSet(starts)
  <2>1. DOMAIN f = own /\ \A y \in starts : \E c \in own : f[c] = y OBVIOUS
  <2> HIDE DEF own, starts, f
  <2> QED BY <1>2, <2>1, FiniteImage
<1>5. IsFiniteSet(stops)
  <2>1. DOMAIN g = own /\ \A y \in stops : \E c \in own : g[c] = y OBVIOUS
  <2> HIDE DEF own, stops, g
  <2> QED BY <1>2, <2>1, FiniteImage
<1>6. starts \subseteq Int /\ stops \subseteq Int /\ e.fromSeq \in starts /\ e.toSeq \in stops BY <1>1, <1>3
<1>7. PICK s \in starts : \A y \in starts : s <= y
  <2> HIDE DEF starts
  <2> QED BY <1>4, <1>6, Extremes
<1>8. PICK t \in stops : \A y \in stops : t >= y
  <2> HIDE DEF stops
  <2> QED BY <1>5, <1>6, Extremes
<1>9. \A c \in store.connections : c.trip = e.trip => s <= c.fromSeq BY <1>7
<1>10. \A c \in store.connections : c.trip = e.trip => t >= c.toSeq BY <1>8
<1>11. FirstSeq(e.trip) = CHOOSE z \in starts : \A c \in store.connections : c.trip = e.trip => z <= c.fromSeq
  BY DEF FirstSeq
<1>12. LastSeq(e.trip) = CHOOSE z \in stops : \A c \in store.connections : c.trip = e.trip => z >= c.toSeq
  BY DEF LastSeq
<1>13. FirstSeq(e.trip) <= e.fromSeq
  <2> HIDE DEF starts, own
  <2> QED BY <1>9, <1>11
<1>14. LastSeq(e.trip) \in stops /\ LastSeq(e.trip) >= e.toSeq
  <2> HIDE DEF stops, own
  <2> QED BY <1>10, <1>12
<1>15. LastSeq(e.trip) \in Int /\ e.toSeq \in Int
  <2> HIDE DEF stops
  <2> QED BY <1>6, <1>14
<1> QED BY <1>13, <1>14, <1>15

\* The first and the last connection of a run have no other before and after.
LEMMA EndsOfRun ==
  ASSUME Committed, NEW q, Held(q), NEW x \in LoadedConnections(q)
  PROVE  /\ \A a \in Lasts(LoadedConnections(q)) : RunOf(x) = RunOf(a) => ~Earlier(a, x)
         /\ \A b \in Firsts(LoadedConnections(q)) : RunOf(x) = RunOf(b) => ~Earlier(x, b)
<1> DEFINE C == LoadedConnections(q)
<1>0. TimedRows(store) /\ Linked(store) BY CommittedTables
<1>1. ASSUME NEW y \in C
      PROVE  \E c \in store.connections : /\ y.trip = c.trip /\ y.fromSeq = c.fromSeq /\ y.toSeq = c.toSeq
                                          /\ c.fromSeq \in Int /\ c.toSeq \in Int /\ c.fromSeq < c.toSeq
  <2>1. PICK d, c : y = Instance(d, c) /\ Running(d, c, q) BY <1>0, LoadedAreRunning
  <2>2. d \in Days /\ c \in store.connections BY <2>1 DEF Running
  <2>3. y.trip = c.trip /\ y.fromSeq = c.fromSeq /\ y.toSeq = c.toSeq BY <1>0, <2>1, <2>2, InstanceFacts
  <2>4. c.fromSeq \in Int /\ c.toSeq \in Int /\ c.fromSeq < c.toSeq BY <1>0, <2>2, ConnectionTimes
  <2> QED BY <2>2, <2>3, <2>4
<1>2. PICK e \in store.connections : /\ x.trip = e.trip /\ x.fromSeq = e.fromSeq /\ x.toSeq = e.toSeq
                                     /\ e.fromSeq \in Int /\ e.toSeq \in Int /\ e.fromSeq < e.toSeq
  BY <1>1
<1>3. SoundRuns(C) BY LoadedIsSound
<1>4. ASSUME NEW y \in C, RunOf(x) = RunOf(y)
      PROVE  /\ Earlier(x, y) <=> x.fromSeq < y.fromSeq
             /\ Earlier(y, x) <=> y.fromSeq < x.fromSeq
  <2>1. x.day = y.day /\ x.trip = y.trip BY <1>4, RunIs
  <2>2. SoundRun(x) /\ SoundRun(y) BY <1>3 DEF SoundRuns
  <2> QED BY <2>1, <2>2 DEF SoundRun, Earlier, RowBefore
<1>5. ASSUME NEW a \in Lasts(C), RunOf(x) = RunOf(a), Earlier(a, x) PROVE FALSE
  <2>1. a \in C /\ a.toSeq = LastSeq(a.trip) BY DEF Lasts
  <2>2. PICK c \in store.connections : /\ a.trip = c.trip /\ a.fromSeq = c.fromSeq /\ a.toSeq = c.toSeq
                                       /\ c.fromSeq \in Int /\ c.toSeq \in Int /\ c.fromSeq < c.toSeq
    BY <1>1, <2>1
  <2>3. c.fromSeq < e.fromSeq BY <1>2, <1>4, <1>5, <2>1, <2>2
  <2>4. c.trip = e.trip BY <1>2, <1>5, <2>2, RunIs
  <2>5. c.toSeq <= e.fromSeq BY <2>3, <2>4, AlongTheTrip
  <2>6. e.toSeq <= c.toSeq BY <2>1, <2>2, <2>4, EndsOfTrip
  <2> QED BY <1>2, <2>2, <2>5, <2>6
<1>6. ASSUME NEW b \in Firsts(C), RunOf(x) = RunOf(b), Earlier(x, b) PROVE FALSE
  <2>1. b \in C /\ b.fromSeq = FirstSeq(b.trip) BY DEF Firsts
  <2>2. PICK c \in store.connections : b.trip = c.trip /\ b.fromSeq = c.fromSeq /\ c.fromSeq \in Int BY <1>1, <2>1
  <2>3. x.fromSeq < b.fromSeq /\ x.trip = b.trip BY <1>4, <1>6, <2>1, RunIs
  <2>4. b.fromSeq <= e.fromSeq BY <1>2, <2>1, <2>3, EndsOfTrip
  <2> QED BY <1>2, <2>2, <2>3, <2>4
<1> QED BY <1>5, <1>6

\* The last row of a run, and the first.
LEMMA EndRowsAre ==
  ASSUME NEW C, SoundRuns(C), NEW a \in C
  PROVE  /\ Router(store)!IsLast(Asked(C), RowNumber(C, a)) <=> \A x \in C : RunOf(x) = RunOf(a) => ~Earlier(a, x)
         /\ Router(store)!IsFirst(Asked(C), RowNumber(C, a)) <=> \A x \in C : RunOf(x) = RunOf(a) => ~Earlier(x, a)
<1> DEFINE n(c) == RowNumber(C, c)
           q == Asked(C)
           own == Router(store)!RowsOf(q, q.rows[n(a)].trip)
<1>1. \A c \in C : n(c) \in 1 .. Cardinality(C) /\ n(c) \in Int
  <2>1. Cardinality(C) \in Nat /\ \A c \in C : n(c) \in 1 .. Cardinality(C) BY RowNumbers
  <2> QED BY <2>1
<1>2. \A x, y \in C : n(x) < n(y) <=> Earlier(x, y) BY RowNumbers
<1>3. \A k \in 1 .. Cardinality(C) : \E c \in C : n(c) = k BY RowNumbers
<1>4. DOMAIN q.rows = 1 .. Cardinality(C) BY RowsFacts, AskedIs
<1>5. \A c \in C : q.rows[n(c)].trip = RunOf(c) BY RowIs DEF RowOf
<1> HIDE DEF n, q
<1>6. \A k : k \in own <=> \E x \in C : n(x) = k /\ RunOf(x) = RunOf(a)
  BY <1>1, <1>3, <1>4, <1>5 DEF Router!RowsOf
<1>7. Router(store)!IsLast(q, n(a)) <=> \A k \in own : k <= n(a) BY DEF Router!IsLast
<1>8. Router(store)!IsFirst(q, n(a)) <=> \A k \in own : n(a) <= k BY DEF Router!IsFirst
<1> HIDE DEF own
<1>9. \A x \in C : (n(x) <= n(a) <=> ~Earlier(a, x)) /\ (n(a) <= n(x) <=> ~Earlier(x, a)) BY <1>1, <1>2
<1> QED BY <1>6, <1>7, <1>8, <1>9 DEF n, q


\* A rider of one run may stay on board as another begins.
StayOn(C, a, b) ==
  /\ Router(store)!IsLast(Asked(C), RowNumber(C, a)) /\ Router(store)!IsFirst(Asked(C), RowNumber(C, b))
  /\ Router(store)!MayStay(Asked(C), RowOf(C, a), RowOf(C, b))

\* A permission leads from one to the other that nothing takes away.
Stays(C, a, b) ==
  \E l \in store.links : /\ l.type = StayTransfer /\ <<a, b>> \in NextJoins(l, C)
                         /\ Continuation(l, <<a, b>>) \in LoadContinuations(C)

\* The instances of a continuation are those of its link.
LEMMA InstancesJoined ==
  ASSUME Committed, NEW q, Held(q), NEW a \in LoadedConnections(q), NEW b \in LoadedConnections(q),
         NEW l, NEW p \in NextJoins(l, LoadedConnections(q)),
         p[1].day = a.day, p[1].trip = a.trip, p[2].day = b.day, p[2].trip = b.trip,
         \A x \in LoadedConnections(q) : RunOf(x) = RunOf(a) => ~Earlier(a, x),
         \A x \in LoadedConnections(q) : RunOf(x) = RunOf(b) => ~Earlier(x, b)
  PROVE  p = <<a, b>>
<1> DEFINE C == LoadedConnections(q)
<1>1. PICK x \in Lasts(C), y \in Firsts(C) : Leads(l, C, p, x, y) BY ContinuationPair
<1>2. p = <<x, y>> BY <1>1 DEF Leads
<1>3. x \in C /\ y \in C BY DEF Lasts, Firsts
<1>4. RunOf(x) = RunOf(a) /\ RunOf(y) = RunOf(b) BY <1>2, RunIs
<1>5. ~Earlier(x, a) /\ ~Earlier(b, y) BY <1>4, EndsOfRun
<1>6. ~Earlier(a, x) /\ ~Earlier(y, b) BY <1>3, <1>4
<1>7. SoundRuns(C) BY LoadedIsSound
<1>8. Orders(InOrder(C), C) BY <1>7, EarlierOrders
<1> HIDE DEF C
<1>9. \A u, v \in C : u # v => Earlier(u, v) \/ Earlier(v, u) BY <1>8 DEF Orders, InOrder
<1>10. a \in C /\ b \in C BY DEF C
<1>11. x = a /\ y = b BY <1>3, <1>5, <1>6, <1>9, <1>10
<1> QED BY <1>2, <1>11

\* What the router is told of continuations.
LEMMA StayIs ==
  ASSUME Committed, NEW q, Held(q), NEW a \in LoadedConnections(q), NEW b \in LoadedConnections(q)
  PROVE  StayOn(LoadedConnections(q), a, b) <=> Stays(LoadedConnections(q), a, b)
<1> DEFINE C == LoadedConnections(q)
           stay == RowOf(C, a)
           on == RowOf(C, b)
<1>1. SoundRuns(C) BY LoadedIsSound
<1>2. /\ stay.trip = RunOf(a) /\ stay.to = a.to /\ stay.arrTime = a.arr
      /\ on.trip = RunOf(b) /\ on.from = b.from /\ on.depTime = b.dep
  BY <1>1, RowIs
<1>3. Asked(C).links = {RouterLink(k) : k \in LoadContinuations(C)} BY AskedIs
<1>4. /\ Router(store)!IsLast(Asked(C), RowNumber(C, a)) <=> \A x \in C : RunOf(x) = RunOf(a) => ~Earlier(a, x)
      /\ Router(store)!IsFirst(Asked(C), RowNumber(C, b)) <=> \A x \in C : RunOf(x) = RunOf(b) => ~Earlier(x, b)
  BY <1>1, EndRowsAre
<1> DEFINE links == Asked(C).links
           Fits(k, type) == Router(store)!LinkMatches(RouterLink(k), type, stay, on)
<1>5. /\ Router(store)!MayStay(Asked(C), stay, on) <=>
           /\ a.arr <= b.dep
           /\ \E k \in LoadContinuations(C) : Fits(k, "stay")
           /\ ~\E k \in LoadContinuations(C) : Fits(k, "leave")
  <2>1. Router(store)!MayStay(Asked(C), stay, on) <=>
           /\ a.arr <= b.dep
           /\ \E l \in links : Router(store)!LinkMatches(l, "stay", stay, on)
           /\ ~\E l \in links : Router(store)!LinkMatches(l, "leave", stay, on)
    <3> HIDE DEF stay, on
    <3> QED BY <1>2 DEF Router!MayStay
  <2> HIDE DEF stay, on, C
  <2> QED BY <1>3, <2>1
<1>6. ASSUME NEW k, NEW type
      PROVE  Fits(k, type) <=>
               /\ type = IF k.type = StayTransfer THEN "stay" ELSE "leave"
               /\ k.fromDay = a.day /\ k.fromTrip = a.trip /\ k.toDay = b.day /\ k.toTrip = b.trip
               /\ k.from \in {None, a.to} /\ k.to \in {None, b.from}
  <2> DEFINE l == RouterLink(k)
  <2>1. /\ l.type = IF k.type = StayTransfer THEN "stay" ELSE "leave"
        /\ l.fromTrip = [day |-> k.fromDay, trip |-> k.fromTrip] /\ l.toTrip = [day |-> k.toDay, trip |-> k.toTrip]
        /\ l.fromStop = k.from /\ l.toStop = k.to
    BY DEF RouterLink
  <2>2. /\ l.fromTrip = RunOf(a) <=> k.fromDay = a.day /\ k.fromTrip = a.trip
        /\ l.toTrip = RunOf(b) <=> k.toDay = b.day /\ k.toTrip = b.trip
    BY <2>1 DEF RunOf
  <2>3. Fits(k, type) <=> /\ l.type = type /\ l.fromTrip = stay.trip /\ l.toTrip = on.trip
                          /\ l.fromStop \in {None, stay.to} /\ l.toStop \in {None, on.from}
    BY DEF Router!LinkMatches
  <2> HIDE DEF l, stay, on, Fits
  <2> QED BY <1>2, <2>1, <2>2, <2>3
<1> HIDE DEF stay, on, Fits
<1>7. ASSUME Stays(C, a, b) PROVE StayOn(C, a, b)
  <2>1. PICK l \in store.links : /\ l.type = StayTransfer /\ <<a, b>> \in NextJoins(l, C)
                                 /\ Continuation(l, <<a, b>>) \in LoadContinuations(C)
    BY <1>7 DEF Stays
  <2> DEFINE k == Continuation(l, <<a, b>>)
  <2>2. /\ k.fromDay = a.day /\ k.fromTrip = a.trip /\ k.toDay = b.day /\ k.toTrip = b.trip
        /\ k.from = l.from /\ k.to = l.to /\ k.type = l.type
    BY DEF Continuation
  <2>3. PICK x \in Lasts(C), y \in Firsts(C) : Leads(l, C, <<a, b>>, x, y) BY <2>1, ContinuationPair
  <2>4. /\ x = a /\ y = b /\ a.arr <= b.dep /\ l.from \in {None, a.to} /\ l.to \in {None, b.from}
    BY <2>3 DEF Leads
  <2> HIDE DEF k
  <2>5. k \in LoadContinuations(C) /\ Fits(k, "stay") BY <1>6, <2>1, <2>2, <2>4 DEF k
  <2>6. ASSUME NEW m \in LoadContinuations(C), Fits(m, "leave") PROVE FALSE
    <3>1. /\ m.type # StayTransfer /\ m.fromDay = a.day /\ m.fromTrip = a.trip
          /\ m.toDay = b.day /\ m.toTrip = b.trip
      BY <1>6, <2>6
    <3>2. PICK f \in store.links : \E o \in NextJoins(f, C) : m = Continuation(f, o) BY ContinuationFacts
    <3>3. PICK o \in NextJoins(f, C) : m = Continuation(f, o) BY <3>2
    <3>4. f.type = m.type BY <3>3 DEF Continuation
    <3>5. f.type \in {StayTransfer, LeaveTransfer} BY DEF Committed, RowsInv, TripLinks
    <3>6. SamePair(m, k) BY <2>2, <3>1 DEF SamePair
    <3>7. m.type = LeaveTransfer /\ k.type = StayTransfer BY <2>1, <2>2, <3>1, <3>4, <3>5
    <3> HIDE DEF C
    <3> QED BY <2>5, <3>3, <3>6, <3>7, ContinuationFacts
  <2>7. \A z \in C : (RunOf(z) = RunOf(a) => ~Earlier(a, z)) /\ (RunOf(z) = RunOf(b) => ~Earlier(z, b))
    BY <2>3, <2>4, EndsOfRun
  <2> HIDE DEF C
  <2> QED BY <1>4, <1>5, <2>4, <2>5, <2>6, <2>7 DEF StayOn, stay, on
<1>8. ASSUME StayOn(C, a, b) PROVE Stays(C, a, b)
  <2>1. PICK k \in LoadContinuations(C) : Fits(k, "stay") BY <1>5, <1>8 DEF StayOn, stay, on
  <2>2. /\ k.type = StayTransfer /\ k.fromDay = a.day /\ k.fromTrip = a.trip
        /\ k.toDay = b.day /\ k.toTrip = b.trip
    BY <1>6, <2>1
  <2>3. PICK l \in store.links : \E p \in NextJoins(l, C) : k = Continuation(l, p) BY ContinuationFacts
  <2>4. PICK p \in NextJoins(l, C) : k = Continuation(l, p) BY <2>3
  <2>5. /\ k.fromDay = p[1].day /\ k.fromTrip = p[1].trip /\ k.toDay = p[2].day /\ k.toTrip = p[2].trip
        /\ k.type = l.type
    BY <2>4 DEF Continuation
  <2>6. p = <<a, b>> BY <1>4, <1>8, <2>2, <2>5, InstancesJoined DEF StayOn
  <2> QED BY <2>2, <2>4, <2>5, <2>6 DEF Stays
<1> QED BY <1>7, <1>8

\* Whether one may stay does not depend on how far the timetable reaches.
LEMMA StaysAgree ==
  ASSUME Committed, NEW q, Held(q), NEW w, Held(w), w.at = q.at, w.latest = q.latest, w.horizon >= q.horizon,
         NEW a \in LoadedConnections(q), NEW b \in LoadedConnections(q)
  PROVE  Stays(LoadedConnections(q), a, b) <=> Stays(LoadedConnections(w), a, b)
<1> DEFINE C == LoadedConnections(q)
           W == LoadedConnections(w)
<1>0. Tabled(store) BY DEF Committed, RowsInv, Tabled
<1>1. ASSUME Stays(C, a, b) PROVE Stays(W, a, b)
  <2>1. PICK l \in store.links : /\ l.type = StayTransfer /\ <<a, b>> \in NextJoins(l, C)
                                 /\ Continuation(l, <<a, b>>) \in LoadContinuations(C)
    BY <1>1 DEF Stays
  <2>2. <<a, b>> \in NextJoins(l, W) BY <1>0, <2>1, WiderJoinsTheSame
  <2> DEFINE p == <<a, b>>
             k == Continuation(l, p)
  <2>3. ASSUME NEW f \in store.links, NEW o \in NextJoins(f, W),
               Continuation(f, o).type = LeaveTransfer, SamePair(Continuation(f, o), k)
        PROVE  FALSE
    <3>1. p \in NextJoins(f, C) /\ Continuation(f, p) = Continuation(f, o)
      BY <1>0, <2>1, <2>3, NoNewProhibition
    <3>2. k.type = StayTransfer BY <2>1 DEF Continuation
    <3>3. k \in LoadContinuations(C) BY <2>1
    <3> HIDE DEF C, W, k, p
    <3> QED BY <2>3, <3>1, <3>2, <3>3, ContinuationFacts
  <2>4. k \in LoadContinuations(W)
    <3>1. p \in NextJoins(l, W) BY <2>2
    <3> HIDE DEF C, W, p
    <3> QED BY <2>3, <3>1, ContinuationFacts
  <2> QED BY <2>1, <2>2, <2>4 DEF Stays
<1>2. ASSUME Stays(W, a, b) PROVE Stays(C, a, b)
  <2>1. PICK l \in store.links : /\ l.type = StayTransfer /\ <<a, b>> \in NextJoins(l, W)
                                 /\ Continuation(l, <<a, b>>) \in LoadContinuations(W)
    BY <1>2 DEF Stays
  <2> DEFINE p == <<a, b>>
             k == Continuation(l, p)
  <2>2. PICK x \in Lasts(W), y \in Firsts(W) : Leads(l, W, p, x, y) BY <2>1, ContinuationPair
  <2>3. /\ x = a /\ y = b
        /\ \A z : <<a, z>> \in Joins(l, W) => b.dep <= z.dep
        /\ store.trips[a.trip].id = l.fromTrip /\ store.trips[b.trip].id = l.toTrip
        /\ l.from \in {None, a.to} /\ l.to \in {None, b.from}
        /\ <<a.trip, a.day>> # <<b.trip, b.day>> /\ a.arr <= b.dep
    BY <2>2 DEF Leads
  <2>4. a \in Lasts(C) /\ b \in Firsts(C) BY <2>2, <2>3 DEF Lasts, Firsts
  <2>5. p \in Joins(l, C) BY <2>3, <2>4, JoinsFacts
  <2>6. ASSUME NEW o \in Joins(l, C), o[1] = p[1] PROVE p[2].dep <= o[2].dep
    <3>1. PICK u \in Lasts(C), v \in Firsts(C) :
            /\ o = <<u, v>>
            /\ store.trips[u.trip].id = l.fromTrip /\ store.trips[v.trip].id = l.toTrip
            /\ l.from \in {None, u.to} /\ l.to \in {None, v.from}
            /\ <<u.trip, u.day>> # <<v.trip, v.day>> /\ u.arr <= v.dep
      BY JoinsFacts
    <3>2. u \in Lasts(W) /\ v \in Firsts(W) BY <1>0, WiderHoldsMore
    <3>3. <<u, v>> \in Joins(l, W) BY <3>1, <3>2, JoinsFacts
    <3>4. u = a /\ o[2] = v BY <2>6, <3>1
    <3> QED BY <2>3, <3>3, <3>4
  <2>7. p \in NextJoins(l, C) BY <2>5, <2>6 DEF NextJoins
  <2>8. ASSUME NEW f \in store.links, NEW o \in NextJoins(f, C),
               Continuation(f, o).type = LeaveTransfer, SamePair(Continuation(f, o), k)
        PROVE  FALSE
    <3>1. o \in NextJoins(f, W) BY <1>0, WiderJoinsTheSame
    <3>2. k.type = StayTransfer BY <2>1 DEF Continuation
    <3>3. k \in LoadContinuations(W) BY <2>1
    <3> HIDE DEF C, W, k, p
    <3> QED BY <2>8, <3>1, <3>2, <3>3, ContinuationFacts
  <2>9. k \in LoadContinuations(C)
    <3> HIDE DEF C, W, p
    <3> QED BY <2>7, <2>8, ContinuationFacts, <2>1
  <2> QED BY <2>1, <2>7, <2>9 DEF Stays
<1> QED BY <1>1, <1>2


(***************************************************************************)
(* Riding.                                                                 *)
(***************************************************************************)
\* One run can be ridden after another.
Fol(C, walks, a, b) == Router(store)!Follows(Asked(C), walks, RowNumber(C, a), RowNumber(C, b))

\* One changes between the two, stays on board, or they adjoin.
LEMMA FolIs ==
  ASSUME NEW C, NEW walks, NEW a, NEW b
  PROVE  Fol(C, walks, a, b) <=>
           \/ Router(store)!Adjoin(Asked(C), RowNumber(C, a), RowNumber(C, b))
           \/ StayOn(C, a, b)
           \/ Router(store)!MayChange(Asked(C), walks, RowNumber(C, a), RowNumber(C, b))
BY DEF Fol, Router!Follows, StayOn, RowOf

\* What is ridden next leaves later.
LEMMA FollowsLater ==
  ASSUME Sized(store), NEW C, SoundRuns(C), NEW a \in C, NEW b \in C,
         NEW walks, \A w \in walks : w[3] \in Nat, b.dep < Far, Fol(C, walks, a, b)
  PROVE  a.arr <= b.dep
<1>1. CASE Router(store)!Adjoin(Asked(C), RowNumber(C, a), RowNumber(C, b)) BY <1>1, AdjoinIs
<1>2. CASE StayOn(C, a, b)
  <2> DEFINE x == RowOf(C, a)
             y == RowOf(C, b)
  <2>1. x.arrTime = a.arr /\ y.depTime = b.dep BY RowIs
  <2>2. Router(store)!MayStay(Asked(C), x, y) BY <1>2 DEF StayOn
  <2> HIDE DEF x, y
  <2>3. x.arrTime <= y.depTime BY <2>2 DEF Router!MayStay
  <2> QED BY <2>1, <2>3
<1>3. CASE Router(store)!MayChange(Asked(C), walks, RowNumber(C, a), RowNumber(C, b)) BY <1>3, ChangeTakesTime
<1> QED BY <1>1, <1>2, <1>3, FolIs

\* It is the same within the hours of a narrow window, unless the router may fail.
LEMMA FollowsAgrees ==
  ASSUME Committed, Sized(store), asked \in Requests,
         NEW q, Held(q), NEW w, Held(w), w.at = q.at, w.latest = q.latest, w.horizon >= q.horizon,
         ~MayFail(Asked(LoadedConnections(w))), NEW lo, NEW hi, Holds(LoadedConnections(q), LoadedConnections(w), lo, hi),
         NEW a \in LoadedConnections(q), NEW b \in LoadedConnections(q), lo <= a.dep, b.arr <= hi, NEW walks
  PROVE  Fol(LoadedConnections(q), walks, a, b) <=> Fol(LoadedConnections(w), walks, a, b)
<1> DEFINE C == LoadedConnections(q)
           W == LoadedConnections(w)
<1>1. SoundRuns(C) /\ SoundRuns(W) /\ a \in W /\ b \in W BY LoadedIsSound DEF Holds
<1>2. ~Router(store)!HasGap(Asked(W)) /\ ~Contradicted(Asked(W)) BY DEF MayFail
<1>3. Router(store)!Adjoin(Asked(C), RowNumber(C, a), RowNumber(C, b)) <=>
      Router(store)!Adjoin(Asked(W), RowNumber(W, a), RowNumber(W, b))
  BY <1>1, <1>2, AdjoinAgrees
<1>4. StayOn(C, a, b) <=> StayOn(W, a, b) BY <1>1, StayIs, StaysAgree
<1>5. Router(store)!MayChange(Asked(C), walks, RowNumber(C, a), RowNumber(C, b)) <=>
      Router(store)!MayChange(Asked(W), walks, RowNumber(W, a), RowNumber(W, b))
  BY <1>1, <1>2, ChangesAgree
<1> QED BY <1>3, <1>4, <1>5, FolIs

(***************************************************************************)
(* What can be ridden.                                                     *)
(***************************************************************************)
\* The runs that a departure leads to.
Reached(C, walks, d) == {c \in C : RowNumber(C, c) \in Router(store)!Rideable(Asked(C), walks, d)}

\* A run that can be ridden first.
Boards(walks, d, c) ==
  /\ Router(store)!Allowed(asked, Policy(c.pickup))
  /\ \E s \in sources : \E n \in Router(store)!Walking(walks, s.stop, c.from) : d + s.walk + n <= c.dep

\* What a rider is allowed does not depend on the runs.
LEMMA AllowedIs ==
  ASSUME NEW C, NEW p PROVE Router(store)!Allowed(Asked(C), p) <=> Router(store)!Allowed(asked, p)
BY AskedIs DEF Router!Allowed

\* The least set of runs that holds those and what can be ridden after each.
LEMMA ReachedIs ==
  ASSUME NEW C, SoundRuns(C), NEW walks, NEW d
  PROVE  /\ \A c \in C : Boards(walks, d, c) => c \in Reached(C, walks, d)
         /\ \A a \in Reached(C, walks, d), b \in C : Fol(C, walks, a, b) => b \in Reached(C, walks, d)
         /\ \A X : /\ \A c \in C : Boards(walks, d, c) => c \in X
                   /\ \A a \in X \cap C, b \in C : Fol(C, walks, a, b) => b \in X
                   => Reached(C, walks, d) \subseteq X
         /\ \A k \in Router(store)!Rideable(Asked(C), walks, d) : \E c \in Reached(C, walks, d) : RowNumber(C, c) = k
<1> DEFINE q == Asked(C)
           n(c) == RowNumber(C, c)
           m == Cardinality(C)
           first == Router(store)!FirstRows(q, walks, d)
           steps == {p \in (DOMAIN q.rows) \X (DOMAIN q.rows) : Router(store)!Follows(q, walks, p[1], p[2])}
           R == Router(store)!Rideable(q, walks, d)
<1>1. m \in Nat /\ DOMAIN q.rows = 1 .. m /\ Len(q.rows) = m BY RowNumbers, RowsFacts, AskedIs
<1>2. R = Router(store)!Reachable(first, steps, m) BY <1>1 DEF Router!Rideable
<1>3. first \subseteq 1 .. m /\ steps \subseteq (1 .. m) \X (1 .. m) BY <1>1 DEF Router!FirstRows
<1>4. /\ R \subseteq 1 .. m /\ first \subseteq R /\ Closed(steps, R)
      /\ \A X : first \subseteq X /\ Closed(steps, X) => R \subseteq X
  <2> HIDE DEF first, steps, R, m
  <2> QED BY <1>1, <1>2, <1>3, ReachableFacts
<1>5. ASSUME NEW c \in C PROVE n(c) \in first <=> Boards(walks, d, c)
  <2>1. /\ q.rows[n(c)].from = c.from /\ q.rows[n(c)].depTime = c.dep /\ q.rows[n(c)].pickup = Policy(c.pickup)
        /\ n(c) \in DOMAIN q.rows
    BY RowIs DEF RowOf
  <2>2. q.sources = sources BY AskedIs
  <2>3. Router(store)!Allowed(q, Policy(c.pickup)) <=> Router(store)!Allowed(asked, Policy(c.pickup)) BY AllowedIs
  <2> HIDE DEF q, n
  <2> QED BY <2>1, <2>2, <2>3 DEF Router!FirstRows, Boards, first
<1>6. ASSUME NEW a \in C, NEW b \in C PROVE <<n(a), n(b)>> \in steps <=> Fol(C, walks, a, b)
  <2>1. n(a) \in DOMAIN q.rows /\ n(b) \in DOMAIN q.rows BY RowIs
  <2> QED BY <2>1 DEF Fol
<1>7. /\ \A c \in C : n(c) \in 1 .. m
      /\ \A k \in 1 .. m : \E c \in C : n(c) = k
      /\ \A a, b \in C : n(a) = n(b) => a = b
  BY RowNumbers
<1>8. Reached(C, walks, d) = {c \in C : n(c) \in R} BY DEF Reached
<1>9. ASSUME NEW X,
             \A c \in C : Boards(walks, d, c) => c \in X,
             \A a \in X \cap C, b \in C : Fol(C, walks, a, b) => b \in X,
             NEW c \in C, n(c) \in R
      PROVE  c \in X
  <2> DEFINE Y == {k \in 1 .. m : \E x \in X \cap C : n(x) = k}
  <2> HIDE DEF first, steps, R, n, m
  <2>1. first \subseteq Y
    <3>1. ASSUME NEW k \in first PROVE k \in Y
      <4>1. k \in 1 .. m BY <1>3
      <4>2. PICK x \in C : n(x) = k BY <1>7, <4>1
      <4>3. x \in X BY <1>5, <1>9, <4>2
      <4> QED BY <4>1, <4>2, <4>3
    <3> QED BY <3>1
  <2>2. Closed(steps, Y)
    <3>1. ASSUME NEW p \in steps, p[1] \in Y PROVE p[2] \in Y
      <4>1. p = <<p[1], p[2]>> /\ p[2] \in 1 .. m BY <1>3
      <4>2. PICK x \in X \cap C : n(x) = p[1] BY <3>1
      <4>3. PICK y \in C : n(y) = p[2] BY <1>7, <4>1
      <4>4. Fol(C, walks, x, y) BY <1>6, <4>1, <4>2, <4>3
      <4>5. y \in X BY <1>9, <4>2, <4>3, <4>4
      <4> QED BY <4>1, <4>3, <4>5
    <3> QED BY <3>1 DEF Closed
  <2>3. n(c) \in Y
    <3> HIDE DEF Y
    <3> QED BY <1>4, <1>9, <2>1, <2>2
  <2> QED BY <1>7, <2>3
<1>10. \A c \in C : Boards(walks, d, c) => n(c) \in R BY <1>4, <1>5
<1>11. \A a, b \in C : n(a) \in R /\ Fol(C, walks, a, b) => n(b) \in R
  <2> HIDE DEF steps, R
  <2>1. TAKE a, b \in C
  <2>2. <<n(a), n(b)>>[1] = n(a) /\ <<n(a), n(b)>>[2] = n(b) OBVIOUS
  <2> QED BY <1>4, <1>6, <2>2 DEF Closed
<1>12. \A k \in R : \E c \in C : n(c) = k /\ n(c) \in R BY <1>4, <1>7
<1> HIDE DEF first, steps, R, n, m, q
<1> QED BY <1>8, <1>9, <1>10, <1>11, <1>12 DEF R, n, q

\* What can be ridden in one timetable can be in another that has as much.
LEMMA RidesCarry ==
  ASSUME EndsInv, NEW C, SoundRuns(C), NEW D, SoundRuns(D), NEW walks, \A w \in walks : w[3] \in Nat,
         NEW lo \in Int, NEW hi \in Int, NEW d \in Int, lo <= d,
         \A c \in C : lo <= c.dep /\ c.arr <= hi => c \in D,
         \A a, b \in C : Fol(C, walks, a, b) => a.arr <= b.dep,
         \A a, b \in C : lo <= a.dep /\ b.arr <= hi /\ a \in D /\ b \in D /\ Fol(C, walks, a, b) => Fol(D, walks, a, b)
  PROVE  \A c \in Reached(C, walks, d) : d <= c.dep /\ (c.arr <= hi => c \in Reached(D, walks, d))
<1> DEFINE X == {c \in C : d <= c.dep /\ (c.arr <= hi => c \in Reached(D, walks, d))}
<1>0. \A c \in C : c.dep \in Int /\ c.arr \in Int /\ c.dep <= c.arr BY DEF SoundRuns, SoundRun
<1>1. ASSUME NEW c \in C, Boards(walks, d, c) PROVE c \in X
  <2>1. PICK s \in sources : \E n \in Router(store)!Walking(walks, s.stop, c.from) : d + s.walk + n <= c.dep
    BY <1>1 DEF Boards
  <2>2. PICK n \in Router(store)!Walking(walks, s.stop, c.from) : d + s.walk + n <= c.dep BY <2>1
  <2>3. s.walk \in Nat /\ n \in Nat BY DEF EndsInv, Router!Walking
  <2>4. d <= c.dep BY <1>0, <2>2, <2>3
  <2>5. lo <= c.dep BY <1>0, <2>4
  <2>6. c.arr <= hi => c \in Reached(D, walks, d) BY <1>1, <2>5, ReachedIs
  <2> QED BY <2>4, <2>6
<1>2. ASSUME NEW a \in X, NEW b \in C, Fol(C, walks, a, b) PROVE b \in X
  <2>1. a \in C /\ d <= a.dep /\ a.arr <= b.dep BY <1>2
  <2>2. d <= b.dep /\ lo <= a.dep /\ lo <= b.dep BY <1>0, <2>1
  <2>3. ASSUME b.arr <= hi PROVE b \in Reached(D, walks, d)
    <3>1. a.arr <= hi BY <1>0, <2>1, <2>3
    <3>2. a \in Reached(D, walks, d) BY <1>2, <3>1
    <3>3. a \in D /\ b \in D BY <2>1, <2>2, <2>3, <3>1
    <3>4. Fol(D, walks, a, b) BY <1>2, <2>1, <2>2, <2>3, <3>3
    <3> QED BY <3>2, <3>3, <3>4, ReachedIs
  <2> QED BY <2>2, <2>3
<1>3. Reached(C, walks, d) \subseteq X
  <2> HIDE DEF X
  <2> QED BY <1>1, <1>2, ReachedIs
<1> QED BY <1>3


(***************************************************************************)
(* What a narrow window holds of a wider one.                              *)
(***************************************************************************)
\* One window is wider than another, of the same instant and direction.
Widens(q, w) == /\ Held(q) /\ Held(w)
                /\ w.at = q.at /\ w.latest = q.latest /\ w.horizon >= q.horizon

\* The facts of two windows.
LEMMA TwoWindows ==
  ASSUME Committed, NEW q, NEW w, Widens(q, w)
  PROVE  /\ WindowStart(q) \in Nat /\ WindowEnd(q) \in Int /\ WindowEnd(q) < Far /\ Far \in Nat
         /\ WindowStart(w) \in Int /\ WindowStart(w) <= WindowStart(q)
         /\ LoadedConnections(q) \subseteq LoadedConnections(w)
         /\ \A c \in LoadedConnections(w) : c.dep < Far
<1>1. TimedRows(store) /\ Linked(store) /\ Tabled(store) BY CommittedTables DEF Committed, RowsInv, Tabled
<1>2. /\ WindowStart(q) \in Int /\ 0 <= WindowStart(q) - MaxSeconds /\ WindowEnd(q) \in Int
      /\ WindowEnd(q) < Midnight[LastDay + 1]
      /\ WindowStart(w) \in Int /\ WindowEnd(w) \in Int /\ WindowEnd(w) < Midnight[LastDay + 1]
  BY WindowHolds DEF Widens
<1>3. Midnight[LastDay + 1] \in Nat /\ Far \in Int /\ Midnight[LastDay + 1] <= Far
  <2>1. LastDay + 1 \in 0 .. LastDay + 1 BY DaysAssumption
  <2> QED BY <2>1, MidnightsRise, RequestsAssumption
<1>4. WindowStart(w) <= WindowStart(q)
  <2>1. q.at \in Int /\ q.horizon \in Nat /\ q.latest \in BOOLEAN /\ w.horizon \in Nat BY DEF Widens, Held
  <2> QED BY <2>1 DEF Widens, WindowStart
<1>5. LoadedConnections(q) \subseteq LoadedConnections(w) BY <1>1, WiderHoldsMore DEF Widens
<1>6. ASSUME NEW c \in LoadedConnections(w) PROVE c.dep < Far
  <2>1. PICK d, e : c = Instance(d, e) /\ Running(d, e, w) BY <1>1, LoadedAreRunning DEF Widens
  <2>2. d \in Days /\ e \in store.connections /\ Moment(w, c) <= WindowEnd(w) BY <2>1 DEF Running
  <2>3. c.dep \in Int /\ c.arr \in Int /\ c.dep <= c.arr BY <1>1, <2>1, <2>2, InstanceFacts
  <2>4. c.dep <= Moment(w, c) /\ Moment(w, c) \in Int BY <2>3 DEF Moment
  <2> QED BY <1>2, <1>3, <2>2, <2>3, <2>4
<1>7. WindowStart(q) \in Nat BY <1>2, RangeAssumption
<1> QED BY <1>2, <1>3, <1>4, <1>5, <1>6, <1>7

\* Of a day that a narrow window holds runs of, it holds those that a wider one
\* does, if they are over within it.
LEMMA NarrowHolds ==
  ASSUME Committed, NEW q, NEW w, Widens(q, w)
  PROVE  /\ Holds(LoadedConnections(q), LoadedConnections(w), WindowStart(q), WindowEnd(q))
         /\ \A t \in Int, c \in LoadedConnections(w) :
              /\ t <= WindowEnd(q) /\ (q.latest \/ t < WindowEnd(q))
              /\ WindowStart(q) <= c.dep /\ c.arr <= t
              => c \in LoadedConnections(q)
<1>1. TimedRows(store) /\ Linked(store) BY CommittedTables
<1>2. /\ WindowStart(q) \in Int /\ WindowEnd(q) \in Int /\ 0 <= WindowEnd(q)
      /\ WindowEnd(q) < Midnight[LastDay + 1]
  BY WindowHolds DEF Widens
<1>3. ASSUME NEW d, NEW e, Running(d, e, w), WindowStart(q) <= Instance(d, e).dep, Instance(d, e).arr <= WindowEnd(q),
             d <= LocalDate(WindowEnd(q))
      PROVE  Instance(d, e) \in LoadedConnections(q)
  <2> DEFINE c == Instance(d, e)
  <2>1. d \in Days /\ e \in store.connections /\ e.service \in ServicesOn(store, d) BY <1>3 DEF Running
  <2>2. c.dep \in Int /\ c.arr \in Int /\ c.dep <= c.arr BY <1>1, <2>1, InstanceFacts
  <2>3. Moment(q, c) \in {c.dep, c.arr} BY DEF Moment
  <2>4. WindowStart(q) <= Moment(q, c) /\ Moment(q, c) <= WindowEnd(q)
    <3>1. WindowStart(q) <= c.dep /\ c.arr <= WindowEnd(q) BY <1>3
    <3> HIDE DEF c
    <3> QED BY <1>2, <2>2, <2>3, <3>1
  <2>5. Running(d, e, q) BY <1>3, <2>1, <2>4 DEF Running
  <2> QED BY <1>1, <2>5, LoadedAreRunning DEF Widens
<1>4. ASSUME NEW a \in LoadedConnections(q), NEW x \in LoadedConnections(w), x.day = a.day,
             WindowStart(q) <= x.dep, x.arr <= WindowEnd(q)
      PROVE  x \in LoadedConnections(q)
  <2>1. PICK da, ca : a = Instance(da, ca) /\ Running(da, ca, q) BY <1>1, LoadedAreRunning DEF Widens
  <2>2. PICK d, e : x = Instance(d, e) /\ Running(d, e, w) BY <1>1, LoadedAreRunning DEF Widens
  <2>3. d = da /\ da <= LocalDate(WindowEnd(q)) BY <1>4, <2>1, <2>2 DEF Instance, Running
  <2> QED BY <1>3, <1>4, <2>2, <2>3
<1>5. ASSUME NEW t \in Int, NEW c \in LoadedConnections(w), t <= WindowEnd(q), q.latest \/ t < WindowEnd(q),
             WindowStart(q) <= c.dep, c.arr <= t
      PROVE  c \in LoadedConnections(q)
  <2>1. PICK d, e : c = Instance(d, e) /\ Running(d, e, w) BY <1>1, LoadedAreRunning DEF Widens
  <2>2. d \in Days /\ e \in store.connections /\ d <= LocalDate(WindowEnd(w)) BY <2>1 DEF Running
  <2>3. /\ c.dep = ServiceDayAnchor(d) + e.dep /\ e.dep \in 0 .. MaxSeconds /\ ServiceDayAnchor(d) \in Int
        /\ c.dep \in Int /\ c.arr \in Int /\ c.dep <= c.arr
    BY <1>1, <2>1, <2>2, InstanceFacts
  <2>4. d <= LocalDate(WindowEnd(q))
    <3>1. CASE q.latest
      <4>1. WindowEnd(w) = WindowEnd(q) BY <3>1 DEF Widens, WindowEnd
      <4> QED BY <2>2, <4>1
    <3>2. CASE t < WindowEnd(q)
      <4>1. Midnight[d] - 1 <= ServiceDayAnchor(d) BY <2>2, AnchorNearMidnight
      <4>2. Midnight[d] \in Nat BY <1>2, <2>2, DatesInOrder
      <4>3. e.dep \in Int /\ 0 <= e.dep BY <2>3, RangeAssumption
      <4>4. Midnight[d] <= WindowEnd(q) BY <1>2, <1>5, <2>3, <3>2, <4>1, <4>2, <4>3
      <4> QED BY <1>2, <2>2, <4>4, DatesInOrder
    <3> QED BY <1>5, <3>1, <3>2
  <2>5. c.arr <= WindowEnd(q) BY <1>2, <1>5, <2>3
  <2> QED BY <1>3, <1>5, <2>1, <2>4, <2>5
<1>6. LoadedConnections(q) \subseteq LoadedConnections(w) BY TwoWindows
<1> QED BY <1>2, <1>4, <1>5, <1>6 DEF Holds

(***************************************************************************)
(* Arriving.                                                               *)
(***************************************************************************)
\* Walks depend on the edges alone.
LEMMA SameWalks == ASSUME NEW q, NEW r, q.walk = r.walk PROVE Router(store)!Walks(q) = Router(store)!Walks(r)
<1> DEFINE On(edges, X) == X \cup {<<x[1][1], x[2].to, x[1][3] + x[2].secs>> :
                                     x \in {y \in X \X edges : y[1][2] = y[2].from}}
           n == Router(store)!Cardinality(IdsOf(store.stops))
           F(edges) == LET walks[k \in 0 .. n] ==
                             IF k = 0 THEN {<<s, s, 0>> : s \in IdsOf(store.stops)} ELSE On(edges, walks[k - 1])
                       IN  walks[n]
<1>1. Router(store)!Walks(q) = F(q.walk) BY Zenon DEF Router!Walks, Router!Farther
<1>2. Router(store)!Walks(r) = F(r.walk) BY Zenon DEF Router!Walks, Router!Farther
<1> HIDE DEF F
<1> QED BY <1>1, <1>2

\* When one may arrive: never, on foot or after a ride.
ByFoot(walks, d, t) ==
  \E s \in sources, w \in walks, e \in targets : w[1] = s.stop /\ w[2] = e.stop /\ t = d + s.walk + w[3] + e.walk
ByRide(C, walks, d, t) ==
  \E c \in Reached(C, walks, d), w \in walks, e \in targets :
    /\ Router(store)!Allowed(asked, Policy(c.dropOff))
    /\ w[1] = c.to /\ w[2] = e.stop /\ t = c.arr + w[3] + e.walk
Arrives(C, walks, d, t) == t = Far \/ ByFoot(walks, d, t) \/ ByRide(C, walks, d, t)

\* The router answers with the least of these instants.
LEMMA ArrivalsAre ==
  ASSUME NEW C, SoundRuns(C), NEW d
  PROVE  \E S : /\ Router(store)!EarliestArrival(Asked(C), d) = Router(store)!MinOf(S)
                /\ \A t : t \in S <=> Arrives(C, Router(store)!Walks(Asked(C)), d, t)
<1> DEFINE q == Asked(C)
           walks == Router(store)!Walks(q)
           R == Router(store)!Rideable(q, walks, d)
           left == {i \in R : Router(store)!Allowed(q, q.rows[i].dropOff)}
           foot == {d + x[1].walk + x[2][3] + x[3].walk :
                      x \in {y \in q.sources \X walks \X q.targets : y[2][1] = y[1].stop /\ y[2][2] = y[3].stop}}
           ride == {q.rows[x[1]].arrTime + x[2][3] + x[3].walk :
                      x \in {y \in left \X walks \X q.targets : y[2][1] = q.rows[y[1]].to /\ y[2][2] = y[3].stop}}
           S == {Far} \cup foot \cup ride
<1>1. Router(store)!EarliestArrival(q, d) = Router(store)!MinOf(S) BY DEF Router!EarliestArrival
<1>2. q.sources = sources /\ q.targets = targets BY AskedIs
<1>3. \A c \in C : /\ q.rows[RowNumber(C, c)].arrTime = c.arr /\ q.rows[RowNumber(C, c)].to = c.to
                   /\ q.rows[RowNumber(C, c)].dropOff = Policy(c.dropOff)
  BY RowIs DEF RowOf
<1>4. \A p : Router(store)!Allowed(q, p) <=> Router(store)!Allowed(asked, p) BY AllowedIs
<1>5. /\ \A k \in R : \E c \in Reached(C, walks, d) : RowNumber(C, c) = k
      /\ \A c \in Reached(C, walks, d) : c \in C /\ RowNumber(C, c) \in R
  BY ReachedIs DEF Reached
<1> HIDE DEF q, walks, R
<1>6. ASSUME NEW t PROVE t \in foot <=> ByFoot(walks, d, t)
  <2>1. ASSUME t \in foot PROVE ByFoot(walks, d, t)
    <3>1. PICK x \in {y \in sources \X walks \X targets : y[2][1] = y[1].stop /\ y[2][2] = y[3].stop} :
            t = d + x[1].walk + x[2][3] + x[3].walk
      BY <1>2, <2>1
    <3> QED BY <3>1 DEF ByFoot
  <2>2. ASSUME ByFoot(walks, d, t) PROVE t \in foot
    <3>1. PICK s \in sources, w \in walks, e \in targets :
            w[1] = s.stop /\ w[2] = e.stop /\ t = d + s.walk + w[3] + e.walk
      BY <2>2 DEF ByFoot
    <3>2. <<s, w, e>> \in {y \in q.sources \X walks \X q.targets : y[2][1] = y[1].stop /\ y[2][2] = y[3].stop}
      BY <1>2, <3>1
    <3> QED BY <3>1, <3>2
  <2> QED BY <2>1, <2>2
<1>7. ASSUME NEW t PROVE t \in ride <=> ByRide(C, walks, d, t)
  <2>1. ASSUME t \in ride PROVE ByRide(C, walks, d, t)
    <3>1. PICK x \in {y \in left \X walks \X targets : y[2][1] = q.rows[y[1]].to /\ y[2][2] = y[3].stop} :
            t = q.rows[x[1]].arrTime + x[2][3] + x[3].walk
      BY <1>2, <2>1
    <3>2. /\ x[1] \in R /\ Router(store)!Allowed(q, q.rows[x[1]].dropOff) /\ x[2] \in walks /\ x[3] \in targets
          /\ x[2][1] = q.rows[x[1]].to /\ x[2][2] = x[3].stop
      BY <3>1
    <3>3. PICK c \in Reached(C, walks, d) : RowNumber(C, c) = x[1] BY <1>5, <3>2
    <3>4. c \in C BY <1>5
    <3> QED BY <1>3, <1>4, <3>1, <3>2, <3>3, <3>4 DEF ByRide
  <2>2. ASSUME ByRide(C, walks, d, t) PROVE t \in ride
    <3>1. PICK c \in Reached(C, walks, d), w \in walks, e \in targets :
            /\ Router(store)!Allowed(asked, Policy(c.dropOff))
            /\ w[1] = c.to /\ w[2] = e.stop /\ t = c.arr + w[3] + e.walk
      BY <2>2 DEF ByRide
    <3>2. RowNumber(C, c) \in left BY <1>3, <1>4, <1>5, <3>1
    <3>3. <<RowNumber(C, c), w, e>> \in {y \in left \X walks \X q.targets :
                                           y[2][1] = q.rows[y[1]].to /\ y[2][2] = y[3].stop}
      <4> HIDE DEF left
      <4> QED BY <1>2, <1>3, <1>5, <3>1, <3>2
    <3>4. t = q.rows[RowNumber(C, c)].arrTime + w[3] + e.walk BY <1>3, <1>5, <3>1
    <3> HIDE DEF left
    <3> QED BY <3>3, <3>4
  <2> QED BY <2>1, <2>2
<1>8. \A t : t \in S <=> Arrives(C, walks, d, t)
  <2> HIDE DEF foot, ride
  <2> QED BY <1>6, <1>7 DEF Arrives
<1> HIDE DEF S
<1> QED BY <1>1, <1>8 DEF q, walks


\* What the arrivals are computed from, once a journey is planned.
Planning == Committed /\ Sized(store) /\ EndsInv /\ asked \in Requests

\* The walks, which do not depend on the runs.
Walked == Router(store)!Walks(Asked({}))

\* The walks are the same whatever is loaded, and take time.
LEMMA WalkedFacts ==
  ASSUME Planning
  PROVE  (\A C : Router(store)!Walks(Asked(C)) = Walked) /\ \A w \in Walked : w[3] \in Nat
<1>1. ASSUME NEW C PROVE Router(store)!Walks(Asked(C)) = Walked
  <2>1. Asked(C).walk = Asked({}).walk BY AskedIs
  <2> QED BY <2>1, SameWalks DEF Walked
<1>2. Asked({}).walk = LoadWalking BY AskedIs
<1>3. IsFiniteSet(store.stops) /\ \A e \in Asked({}).walk : e.secs \in Nat
  BY <1>2, EdgesTakeTime DEF Planning, Sized
<1>4. \A w \in Walked : w[3] \in Nat BY <1>3, WalksTakeTime DEF Walked
<1> QED BY <1>1, <1>4

\* In what a wide window holds one rides on in time.
LEMMA RidesOn ==
  ASSUME Planning, NEW C, SoundRuns(C), \A c \in C : c.dep < Far
  PROVE  \A a, b \in C : Fol(C, Walked, a, b) => a.arr <= b.dep
<1> TAKE a, b \in C
<1>1. \A w \in Walked : w[3] \in Nat BY WalkedFacts
<1> QED BY <1>1, FollowsLater DEF Planning

\* The answer is the least of the arrivals, and these are natural numbers.
LEMMA EarliestIs ==
  ASSUME Planning, NEW C, SoundRuns(C), \A c \in C : c.dep < Far, Far \in Nat, NEW d \in Nat
  PROVE  LET e == Router(store)!EarliestArrival(Asked(C), d)
         IN  /\ Arrives(C, Walked, d, e) /\ e \in Nat
             /\ \A t : Arrives(C, Walked, d, t) => t \in Nat /\ e <= t
             /\ \A c \in Reached(C, Walked, d) : d <= c.dep
<1> DEFINE e == Router(store)!EarliestArrival(Asked(C), d)
<1>1. \A w \in Walked : w[3] \in Nat BY WalkedFacts
<1>2. \A a, b \in C : Fol(C, Walked, a, b) => a.arr <= b.dep BY RidesOn
<1>3. \A c \in Reached(C, Walked, d) : c \in C /\ d <= c.dep
  <2>1. d \in Int /\ d <= d /\ EndsInv BY DEF Planning
  <2>2. \A c \in Reached(C, Walked, d) : d <= c.dep BY <1>1, <1>2, <2>1, RidesCarry
  <2> QED BY <2>2 DEF Reached
<1>4. ASSUME NEW t, Arrives(C, Walked, d, t) PROVE t \in Nat
  <2>1. CASE t = Far BY <2>1
  <2>2. CASE ByFoot(Walked, d, t)
    <3>1. PICK s \in sources, w \in Walked, x \in targets : t = d + s.walk + w[3] + x.walk BY <2>2 DEF ByFoot
    <3>2. s.walk \in Nat /\ w[3] \in Nat /\ x.walk \in Nat BY <1>1 DEF Planning, EndsInv
    <3> QED BY <3>1, <3>2
  <2>3. CASE ByRide(C, Walked, d, t)
    <3>1. PICK c \in Reached(C, Walked, d), w \in Walked, x \in targets : t = c.arr + w[3] + x.walk
      BY <2>3 DEF ByRide
    <3>2. w[3] \in Nat /\ x.walk \in Nat BY <1>1 DEF Planning, EndsInv
    <3>3. c.dep \in Int /\ c.arr \in Int /\ c.dep <= c.arr /\ d <= c.dep BY <1>3 DEF SoundRuns, SoundRun
    <3> QED BY <3>1, <3>2, <3>3
  <2> QED BY <1>4, <2>1, <2>2, <2>3 DEF Arrives
<1>5. PICK S : e = Router(store)!MinOf(S) /\ \A t : t \in S <=> Arrives(C, Walked, d, t)
  <2>1. Router(store)!Walks(Asked(C)) = Walked BY WalkedFacts
  <2> QED BY <2>1, ArrivalsAre
<1>6. S \subseteq Nat /\ Far \in S BY <1>4, <1>5 DEF Arrives
<1>7. \E x \in S : \A y \in S : x <= y BY <1>6, LeastNatural
<1>8. e \in S /\ \A y \in S : e <= y BY <1>5, <1>7 DEF Router!MinOf
<1> HIDE DEF e
<1>9. Arrives(C, Walked, d, e) /\ e \in Nat BY <1>5, <1>6, <1>8
<1>10. \A t : Arrives(C, Walked, d, t) => t \in Nat /\ e <= t BY <1>4, <1>5, <1>8
<1> QED BY <1>3, <1>9, <1>10 DEF e

\* An arrival within the narrow window is one in the wide window, and the other
\* way round but for the end of the narrow one.
LEMMA SameArrivals ==
  ASSUME Planning, NEW q, NEW w, Widens(q, w), ~MayFail(Asked(LoadedConnections(w))),
         NEW d \in Nat, WindowStart(q) <= d, NEW t \in Int, t <= WindowEnd(q)
  PROVE  /\ Arrives(LoadedConnections(q), Walked, d, t) => Arrives(LoadedConnections(w), Walked, d, t)
         /\ (q.latest \/ t < WindowEnd(q)) /\ Arrives(LoadedConnections(w), Walked, d, t)
              => Arrives(LoadedConnections(q), Walked, d, t)
<1> DEFINE C == LoadedConnections(q)
           W == LoadedConnections(w)
           lo == WindowStart(q)
           hi == WindowEnd(q)
<1>1. /\ lo \in Nat /\ hi \in Int /\ hi < Far /\ Far \in Nat /\ C \subseteq W /\ \A c \in W : c.dep < Far
  BY TwoWindows DEF Planning
<1>2. /\ Holds(C, W, lo, hi)
      /\ \A c \in W : (q.latest \/ t < hi) /\ lo <= c.dep /\ c.arr <= t => c \in C
  BY NarrowHolds DEF Planning
<1>3. SoundRuns(C) /\ SoundRuns(W) BY LoadedIsSound DEF Planning, Widens
<1>4. \A x \in Walked : x[3] \in Nat BY WalkedFacts
<1>5. (\A a, b \in C : Fol(C, Walked, a, b) => a.arr <= b.dep) /\ \A a, b \in W : Fol(W, Walked, a, b) => a.arr <= b.dep
  BY <1>1, <1>3, RidesOn
<1>6. ASSUME NEW a \in C, NEW b \in C, lo <= a.dep, b.arr <= hi PROVE Fol(C, Walked, a, b) <=> Fol(W, Walked, a, b)
  BY <1>2, <1>6, FollowsAgrees DEF Planning, Widens
<1>7. t # Far BY <1>1
<1>8. ASSUME NEW X, SoundRuns(X), NEW Y,
             \A c \in Reached(X, Walked, d) : c.arr <= t => c \in Reached(Y, Walked, d),
             Arrives(X, Walked, d, t)
      PROVE  Arrives(Y, Walked, d, t)
  <2>1. CASE ByFoot(Walked, d, t) BY <2>1 DEF Arrives
  <2>2. CASE ByRide(X, Walked, d, t)
    <3>1. PICK c \in Reached(X, Walked, d), x \in Walked, e \in targets :
            /\ Router(store)!Allowed(asked, Policy(c.dropOff))
            /\ x[1] = c.to /\ x[2] = e.stop /\ t = c.arr + x[3] + e.walk
      BY <2>2 DEF ByRide
    <3>2. x[3] \in Nat /\ e.walk \in Nat BY <1>4 DEF Planning, EndsInv
    <3>3. c.arr \in Int BY <1>8 DEF Reached, SoundRuns, SoundRun
    <3>4. c.arr <= t BY <3>1, <3>2, <3>3
    <3>5. c \in Reached(Y, Walked, d) BY <1>8, <3>4
    <3> QED BY <3>1, <3>5 DEF ByRide, Arrives
  <2> QED BY <1>7, <1>8, <2>1, <2>2 DEF Arrives
<1> HIDE DEF C, W, lo, hi
<1>9. lo \in Int /\ hi \in Int /\ d \in Int /\ lo <= d /\ t <= hi /\ EndsInv BY <1>1 DEF Planning, lo, hi
<1>10. \A c \in C : c.arr \in Int BY <1>3 DEF SoundRuns, SoundRun
<1>11. \A c \in Reached(C, Walked, d) : c.arr <= t => c \in Reached(W, Walked, d)
  <2>1. \A c \in C : lo <= c.dep /\ c.arr <= hi => c \in W BY <1>1
  <2>2. \A a, b \in C : lo <= a.dep /\ b.arr <= hi /\ a \in W /\ b \in W /\ Fol(C, Walked, a, b) => Fol(W, Walked, a, b)
    BY <1>6
  <2>3. \A c \in Reached(C, Walked, d) : d <= c.dep /\ (c.arr <= hi => c \in Reached(W, Walked, d))
    BY <1>3, <1>4, <1>5, <1>9, <2>1, <2>2, RidesCarry
  <2>4. \A c \in Reached(C, Walked, d) : c \in C BY DEF Reached
  <2> QED BY <1>9, <1>10, <2>3, <2>4
<1>12. ASSUME q.latest \/ t < hi PROVE \A c \in Reached(W, Walked, d) : c.arr <= t => c \in Reached(C, Walked, d)
  <2>1. \A c \in W : lo <= c.dep /\ c.arr <= t => c \in C BY <1>2, <1>12
  <2>2. \A a, b \in W : lo <= a.dep /\ b.arr <= t /\ a \in C /\ b \in C /\ Fol(W, Walked, a, b) => Fol(C, Walked, a, b)
    <3>1. TAKE a, b \in W
    <3>2. SUFFICES ASSUME lo <= a.dep, b.arr <= t, a \in C, b \in C, Fol(W, Walked, a, b)
                   PROVE  Fol(C, Walked, a, b)
      OBVIOUS
    <3>3. b.arr <= hi BY <1>9, <1>10, <3>2
    <3> QED BY <1>6, <3>2, <3>3
  <2>3. \A c \in Reached(W, Walked, d) : d <= c.dep /\ (c.arr <= t => c \in Reached(C, Walked, d))
    BY <1>3, <1>4, <1>5, <1>9, <2>1, <2>2, RidesCarry
  <2> QED BY <2>3
<1>13. Arrives(C, Walked, d, t) => Arrives(W, Walked, d, t) BY <1>3, <1>8, <1>11
<1>14. (q.latest \/ t < hi) /\ Arrives(W, Walked, d, t) => Arrives(C, Walked, d, t) BY <1>3, <1>8, <1>12
<1> QED BY <1>13, <1>14 DEF C, W, hi

\* An answer of the narrow window within it is that of the wide window; so are
\* those of the wide window when both end at one instant.
LEMMA SameAnswers ==
  ASSUME Planning, NEW q, NEW w, Widens(q, w), ~MayFail(Asked(LoadedConnections(w))),
         NEW d \in Nat, WindowStart(q) <= d
  PROVE  LET e == Router(store)!EarliestArrival(Asked(LoadedConnections(q)), d)
             f == Router(store)!EarliestArrival(Asked(LoadedConnections(w)), d)
         IN  /\ e <= WindowEnd(q) => e = f
             /\ q.latest /\ f <= WindowEnd(q) => e = f
<1> DEFINE C == LoadedConnections(q)
           W == LoadedConnections(w)
           hi == WindowEnd(q)
           e == Router(store)!EarliestArrival(Asked(C), d)
           f == Router(store)!EarliestArrival(Asked(W), d)
<1>1. hi \in Int /\ Far \in Nat /\ C \subseteq W /\ \A c \in W : c.dep < Far BY TwoWindows DEF Planning
<1>2. SoundRuns(C) /\ SoundRuns(W) BY LoadedIsSound DEF Planning, Widens
<1>3. Arrives(C, Walked, d, e) /\ e \in Nat /\ \A t : Arrives(C, Walked, d, t) => e <= t BY <1>1, <1>2, EarliestIs
<1>4. Arrives(W, Walked, d, f) /\ f \in Nat /\ \A t : Arrives(W, Walked, d, t) => f <= t BY <1>1, <1>2, EarliestIs
<1>5. \A t \in Int : t <= hi =>
        /\ Arrives(C, Walked, d, t) => Arrives(W, Walked, d, t)
        /\ (q.latest \/ t < hi) /\ Arrives(W, Walked, d, t) => Arrives(C, Walked, d, t)
  BY SameArrivals
<1> HIDE DEF C, W, hi, e, f
<1>6. ASSUME e <= hi PROVE e = f
  <2>1. f <= e BY <1>3, <1>4, <1>5, <1>6
  <2>2. f < e => f < hi /\ f <= hi BY <1>1, <1>3, <1>4, <1>6
  <2>3. f < e => e <= f BY <1>3, <1>4, <1>5, <2>2
  <2> QED BY <1>3, <1>4, <2>1, <2>3
<1>7. ASSUME q.latest, f <= hi PROVE e = f
  <2>1. e <= f BY <1>3, <1>4, <1>5, <1>7
  <2>2. e <= hi BY <1>1, <1>3, <1>4, <1>7, <2>1
  <2> QED BY <1>6, <2>2
<1> QED BY <1>6, <1>7 DEF C, W, hi, e, f

\* The latest departure of a narrow window within it is that of the wide one.
LEMMA SameDepartures ==
  ASSUME Planning, NEW q, NEW w, Widens(q, w), ~MayFail(Asked(LoadedConnections(w))), q.latest, q.at = asked.at,
         Router(store)!LatestDeparture(Asked(LoadedConnections(q)), WindowStart(q) - MaxRide) # -Far,
         WindowStart(q) <= Router(store)!LatestDeparture(Asked(LoadedConnections(q)), WindowStart(q) - MaxRide)
  PROVE  Router(store)!LatestDeparture(Asked(LoadedConnections(q)), WindowStart(q) - MaxRide)
           = Router(store)!LatestDeparture(Asked(LoadedConnections(w)), WindowStart(w) - MaxRide)
<1> DEFINE C == Asked(LoadedConnections(q))
           W == Asked(LoadedConnections(w))
           at == asked.at
           since == WindowStart(q) - MaxRide
           start == WindowStart(w) - MaxRide
           departure == Router(store)!LatestDeparture(C, since)
           narrow == {-Far} \cup {d \in since .. at : Router(store)!EarliestArrival(C, d) <= at}
           wide == {-Far} \cup {d \in start .. at : Router(store)!EarliestArrival(W, d) <= at}
<1>1. C.at = at /\ W.at = at BY AskedIs
<1>2. departure = Router(store)!MaxOf(narrow)
  <2>1. departure = Router(store)!LatestDeparture(C, since) OBVIOUS
  <2> HIDE DEF C, since, at, departure
  <2> QED BY <1>1, <2>1 DEF Router!LatestDeparture
<1>3. Router(store)!LatestDeparture(W, start) = Router(store)!MaxOf(wide)
  <2> HIDE DEF W, start, at
  <2> QED BY <1>1 DEF Router!LatestDeparture
<1>4. /\ WindowStart(q) \in Nat /\ WindowStart(w) \in Int /\ WindowStart(w) <= WindowStart(q) /\ Far \in Nat
  BY TwoWindows DEF Planning
<1>5. at \in Int /\ WindowEnd(q) = at BY DEF Widens, Held, WindowEnd
<1>6. since \in Int /\ start \in Int /\ start <= since BY <1>4, RequestsAssumption
<1>7. \A d \in Int : WindowStart(q) <= d =>
        (Router(store)!EarliestArrival(C, d) <= at <=> Router(store)!EarliestArrival(W, d) <= at)
  <2>1. TAKE d \in Int
  <2>2. WindowStart(q) <= d => d \in Nat BY <1>4
  <2> HIDE DEF at
  <2> QED BY <1>5, <2>2, SameAnswers
<1>0. departure # -Far /\ WindowStart(q) <= departure OBVIOUS
<1> HIDE DEF C, W, at, since, start, departure
<1>8. narrow \subseteq Int /\ wide \subseteq Int /\ -Far \in Int BY <1>4
<1>9. departure \in narrow /\ \A y \in narrow : departure >= y
  <2>1. IsFiniteSet(narrow)
    <3>1. IsFiniteSet(since .. at) BY <1>5, <1>6, FS_Interval
    <3>2. IsFiniteSet((since .. at) \cup {-Far}) BY <3>1, FS_AddElement
    <3>3. narrow \subseteq (since .. at) \cup {-Far} OBVIOUS
    <3> HIDE DEF narrow
    <3> QED BY <3>2, <3>3, FS_Subset
  <2>2. narrow # {} OBVIOUS
  <2> HIDE DEF narrow
  <2>3. \E x \in narrow : \A y \in narrow : x >= y BY <1>8, <2>1, <2>2, Extremes
  <2> QED BY <1>2, <2>3 DEF Router!MaxOf
<1>10. departure \in Int /\ departure \in since .. at /\ Router(store)!EarliestArrival(C, departure) <= at BY <1>0, <1>8, <1>9
<1>11. departure \in wide
  <2>1. departure \in start .. at BY <1>5, <1>6, <1>10
  <2>2. Router(store)!EarliestArrival(W, departure) <= at BY <1>0, <1>7, <1>10
  <2> QED BY <2>1, <2>2
<1>12. ASSUME NEW y \in wide PROVE departure >= y
  <2>1. SUFFICES ASSUME departure < y PROVE FALSE BY <1>8, <1>10
  <2>2. departure >= -Far BY <1>9
  <2>3. y # -Far BY <1>8, <1>10, <2>1, <2>2
  <2>4. y \in start .. at /\ Router(store)!EarliestArrival(W, y) <= at BY <2>3
  <2>5. y \in Int /\ WindowStart(q) <= y /\ y \in since .. at BY <1>0, <1>4, <1>5, <1>6, <1>10, <2>1, <2>4
  <2>6. Router(store)!EarliestArrival(C, y) <= at BY <1>7, <2>4, <2>5
  <2>7. y \in narrow BY <2>5, <2>6
  <2> HIDE DEF narrow, wide
  <2> QED BY <1>9, <1>10, <2>1, <2>5, <2>7
<1>13. Router(store)!MaxOf(wide) = departure
  <2> HIDE DEF wide, narrow
  <2> DEFINE m == Router(store)!MaxOf(wide)
  <2>1. m \in wide /\ \A y \in wide : m >= y BY <1>11, <1>12 DEF Router!MaxOf
  <2> HIDE DEF m
  <2>2. m \in Int /\ m >= departure /\ departure >= m BY <1>8, <1>11, <1>12, <2>1
  <2>3. m = departure BY <1>10, <2>2
  <2> QED BY <2>3 DEF m
<1> HIDE DEF wide, narrow
<1> QED BY <1>2, <1>3, <1>13 DEF C, W, start, since, departure

\* The shortest horizon is enough for a journey that is over within it: the
\* planner need not look at the rest of the 36 hours (planTimetableHorizons).
THEOREM NarrowIsEnough == PlanSpec => []FastJourneyIsBest
<1>1. FastInv => FastJourneyIsBest
  <2> SUFFICES ASSUME FastInv, planStep = "planned", SomeWay(best), InsideWindow, asked.from # asked.to,
                      ~MayFail(RouterQuery(WholeTimetable))
               PROVE  best = Answer(WholeTimetable, Widest)
    BY DEF FastJourneyIsBest
  <2>1. Planning BY DEF FastInv, PlanInv, SizedInv, Planning, Committed
  <2>2. /\ horizon \in DOMAIN Horizons /\ query = Reach(horizon) /\ window = Load(query) /\ window # NoWindow
        /\ best = Answer(window, query)
    BY DEF FastInv, PlanInv, LoadedInv, FoundInv
  <2> DEFINE C == LoadedConnections(query)
             W == LoadedConnections(Widest)
  <2>3. RouterQuery(window) = Asked(C) BY <2>2, LoadIs DEF Asked
  <2>4. RouterQuery(WholeTimetable) = Asked(W) BY <2>1, WholeIsLoaded DEF Asked, Planning
  <2>5. Widens(query, Widest) /\ query.at = asked.at /\ query.latest = asked.latest
    <3>1. /\ Held(Reach(horizon)) /\ Held(Reach(Len(Horizons))) /\ Horizons[horizon] <= Horizons[Len(Horizons)]
          /\ Reach(horizon).at = asked.at /\ Reach(horizon).latest = asked.latest
          /\ Reach(horizon).horizon = Horizons[horizon] /\ Horizons[horizon] \in Nat
          /\ Reach(Len(Horizons)).at = asked.at /\ Reach(Len(Horizons)).latest = asked.latest
          /\ Reach(Len(Horizons)).horizon = Horizons[Len(Horizons)] /\ Horizons[Len(Horizons)] \in Nat
      <4>1. Len(Horizons) \in DOMAIN Horizons /\ horizon <= Len(Horizons) BY <2>1, <2>2, ReachHeld DEF Planning
      <4> QED BY <2>1, <2>2, <4>1, ReachHeld, RequestsAssumption DEF Planning
    <3> QED BY <2>2, <3>1 DEF Widens, Widest
  <2>6. ~MayFail(Asked(W)) BY <2>4
  <2>7. CASE asked.latest
    <3>1. best = Router(store)!LatestDeparture(Asked(C), WindowStart(query) - MaxRide)
      BY <2>2, <2>3, <2>7 DEF Answer
    <3>2. Answer(WholeTimetable, Widest) = Router(store)!LatestDeparture(Asked(W), WindowStart(Widest) - MaxRide)
      BY <2>4, <2>7 DEF Answer
    <3>3. best # -Far /\ WindowStart(query) <= best BY <2>7, <3>1 DEF SomeWay, InsideWindow
    <3>4. query.latest /\ query.at = asked.at BY <2>5, <2>7
    <3>5. Router(store)!LatestDeparture(Asked(C), WindowStart(query) - MaxRide)
            = Router(store)!LatestDeparture(Asked(W), WindowStart(Widest) - MaxRide)
      BY <2>1, <2>5, <2>6, <3>1, <3>3, <3>4, SameDepartures
    <3> QED BY <3>1, <3>2, <3>5
  <2>8. CASE ~asked.latest
    <3>1. best = Router(store)!EarliestArrival(Asked(C), asked.at) BY <2>2, <2>3, <2>8 DEF Answer
    <3>2. Answer(WholeTimetable, Widest) = Router(store)!EarliestArrival(Asked(W), asked.at)
      BY <2>4, <2>8 DEF Answer
    <3>3. WindowStart(query) = asked.at /\ WindowStart(query) \in Nat
      <4>1. WindowStart(query) \in Nat BY <2>1, <2>5, TwoWindows DEF Planning
      <4> QED BY <2>5, <2>8, <4>1 DEF WindowStart
    <3>4. best <= WindowEnd(query) BY <2>8 DEF InsideWindow
    <3>5. asked.at \in Nat /\ WindowStart(query) <= asked.at BY <3>3
    <3> QED BY <2>1, <2>5, <2>6, <3>1, <3>2, <3>4, <3>5, SameAnswers
  <2> QED BY <2>7, <2>8
<1> QED BY <1>1, FastInvIsInvariant, PTL
=============================================================================
