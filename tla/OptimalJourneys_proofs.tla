----------------------- MODULE OptimalJourneys_proofs -----------------------
(***************************************************************************)
(* What the router answers is the optimum of module Journeys, whether it   *)
(* scans forwards or backwards, for any timetable whose trips run forward and *)
(* whose rows can be ridden in the order in which they are scanned         *)
(* (AnswersAreOptimal).                                                    *)
(*                                                                         *)
(* The reference is made of least sets, of walks and of rows that can be   *)
(* ridden; it is brought into the direction of the scan, where to set out by *)
(* a time is to arrive by it.  The invariant then says that every label can *)
(* be explained, that every row ridden can be, and that of the rows that can *)
(* be none has been passed over.                                           *)
(***************************************************************************)
EXTENDS ConnectionScan_proofs

(***************************************************************************)
(* Least sets.                                                             *)
(***************************************************************************)

\* f iterates G from A, n times.
Iterates(T, A, G, n, f) ==
  f \in [0 .. n -> T] /\ f[0] = A /\ \A k \in 1 .. n : f[k] = G[f[k - 1]]

\* A sequence of iterates of a function exists.
LEMMA IterationExists ==
  ASSUME NEW T, NEW A \in T, NEW G \in [T -> T], NEW N \in Nat
  PROVE  \E f : Iterates(T, A, G, N, f)
<1> DEFINE Bad == {m \in Nat : ~\E f : Iterates(T, A, G, m, f)}
<1>1. Bad = {}
  <2> SUFFICES ASSUME Bad # {} PROVE FALSE OBVIOUS
  <2>1. PICK m \in Bad : \A y \in Bad : m <= y
    <3>1. Bad \subseteq Nat OBVIOUS
    <3> HIDE DEF Bad
    <3>q. QED BY <3>1, LeastNatural
  <2>2. CASE m = 0
    <3>1. Iterates(T, A, G, 0, [k \in 0 .. 0 |-> A]) BY DEF Iterates
    <3>q. QED BY <3>1, <2>2
  <2>3. CASE m # 0
    <3>1. m \in Nat /\ m - 1 \in Nat /\ ~(m <= m - 1) BY <2>3
    <3>2. PICK g : Iterates(T, A, G, m - 1, g) BY <3>1, <2>1
    <3> DEFINE h == [k \in 0 .. m |-> IF k = m THEN G[g[m - 1]] ELSE g[k]]
    <3>3. \A k \in 0 .. m - 1 : g[k] \in T BY <3>2 DEF Iterates
    <3>4. g[0] = A /\ \A k \in 1 .. m - 1 : g[k] = G[g[k - 1]] BY <3>2 DEF Iterates
    <3>5. m - 1 \in 0 .. m - 1 /\ h[m - 1] = g[m - 1] /\ h[m] = G[g[m - 1]] /\ g[m - 1] \in T BY <3>1, <3>3
    <3>6. h \in [0 .. m -> T]
      <4>1. \A k \in 0 .. m : h[k] \in T
        <5>1. TAKE k \in 0 .. m
        <5>2. k # m => k \in 0 .. m - 1 BY <3>1
        <5>q. QED BY <5>2, <3>3, <3>5
      <4>q. QED BY <4>1
    <3>7. h[0] = A BY <3>1, <3>4, <2>3
    <3>8. \A k \in 1 .. m : h[k] = G[h[k - 1]]
      <4>1. TAKE k \in 1 .. m
      <4>2. CASE k = m BY <3>5, <4>2
      <4>3. CASE k # m
        <5>1. k \in 1 .. m - 1 /\ k \in 0 .. m /\ k - 1 \in 0 .. m /\ k - 1 # m BY <4>3, <3>1
        <5>2. h[k] = g[k] /\ h[k - 1] = g[k - 1] BY <5>1, <4>3
        <5>q. QED BY <5>1, <5>2, <3>4
      <4>q. QED BY <4>2, <4>3
    <3>9. Iterates(T, A, G, m, h)
      <4> HIDE DEF h
      <4>q. QED BY <3>6, <3>7, <3>8 DEF Iterates
    <3>q. QED BY <3>9
  <2>q. QED BY <2>2, <2>3
<1>q. QED BY <1>1

\* f is what is reached step by step, and Reachable the last of it.
Grows(V, first, steps, n, f) ==
  /\ f \in [0 .. n -> SUBSET V] /\ f[0] = first
  /\ \A k \in 1 .. n : f[k] = Onward(steps, f[k - 1])
  /\ Reachable(first, steps, n) = f[n]

\* Reachable(first, steps, n) is the last of n steps.
LEMMA ReachableGrows ==
  ASSUME NEW V, NEW first, first \subseteq V, NEW steps, steps \subseteq V \X V, NEW n \in Nat
  PROVE  \E f : Grows(V, first, steps, n, f)
<1> DEFINE T == SUBSET V
           G == [X \in T |-> Onward(steps, X)]
           Def(f) == f = [k \in 0 .. n |-> IF k = 0 THEN first ELSE Onward(steps, f[k - 1])]
<1>1. first \in T /\ G \in [T -> T]
  <2>1. \A X \in T : Onward(steps, X) \in T BY DEF Onward
  <2>q. QED BY <2>1
<1>2. PICK g : Iterates(T, first, G, n, g)
  <2> HIDE DEF T, G
  <2>q. QED BY <1>1, IterationExists
<1>3. g \in [0 .. n -> T] /\ g[0] = first /\ \A k \in 1 .. n : g[k] = G[g[k - 1]]
  <2> HIDE DEF T, G
  <2>q. QED BY <1>2 DEF Iterates
<1>4. \A k \in 1 .. n : k - 1 \in 0 .. n /\ g[k - 1] \in T /\ G[g[k - 1]] = Onward(steps, g[k - 1])
  <2>1. TAKE k \in 1 .. n
  <2>2. k - 1 \in 0 .. n OBVIOUS
  <2>3. g[k - 1] \in T
    <3> HIDE DEF T, G
    <3>q. QED BY <2>2, <1>3
  <2>q. QED BY <2>2, <2>3
<1>5. Def(g)
  <2>1. g = [k \in 0 .. n |-> g[k]] BY <1>3
  <2>2. \A k \in 0 .. n : g[k] = IF k = 0 THEN first ELSE Onward(steps, g[k - 1])
    <3>1. TAKE k \in 0 .. n
    <3>2. k # 0 => k \in 1 .. n OBVIOUS
    <3> HIDE DEF G, T
    <3>q. QED BY <3>2, <1>3, <1>4
  <2>3. [k \in 0 .. n |-> g[k]] = [k \in 0 .. n |-> IF k = 0 THEN first ELSE Onward(steps, g[k - 1])]
    BY <2>2, Zenon
  <2>q. QED BY <2>1, <2>3
<1> DEFINE f == CHOOSE h : Def(h)
<1>6. Def(f) BY <1>5
<1>7. Reachable(first, steps, n) = f[n] BY DEF Reachable
<1>8. f = [k \in 0 .. n |-> IF k = 0 THEN first ELSE Onward(steps, f[k - 1])] BY <1>6
<1> HIDE DEF f, Def
<1>9. f[0] = first /\ \A k \in 1 .. n : f[k] = Onward(steps, f[k - 1])
  <2>1. f[0] = first BY <1>8
  <2>2. \A k \in 1 .. n : k \in 0 .. n /\ k # 0 OBVIOUS
  <2>q. QED BY <2>1, <2>2, <1>8
<1>10. \A k \in 0 .. n : f[k] \in T
  <2> DEFINE Bad == {k \in 0 .. n : f[k] \notin T}
  <2>1. Bad = {}
    <3> SUFFICES ASSUME Bad # {} PROVE FALSE OBVIOUS
    <3>1. PICK m \in Bad : \A y \in Bad : m <= y
      <4>1. Bad \subseteq Nat OBVIOUS
      <4> HIDE DEF Bad
      <4>q. QED BY <4>1, LeastNatural
    <3>2. m # 0 BY <1>9, <1>1
    <3>3. m \in 1 .. n /\ m - 1 \in 0 .. n /\ ~(m <= m - 1) BY <3>2
    <3>4. f[m - 1] \in T BY <3>3, <3>1
    <3>5. Onward(steps, f[m - 1]) \in T BY <3>4 DEF Onward
    <3>q. QED BY <3>5, <3>3, <1>9
  <2>q. QED BY <2>1
<1>11. f \in [0 .. n -> T]
  <2> HIDE DEF T
  <2>1. f = [k \in 0 .. n |-> f[k]] BY <1>8
  <2>q. QED BY <2>1, <1>10
<1>12. Grows(V, first, steps, n, f) BY <1>11, <1>9, <1>7 DEF Grows
<1>q. QED BY <1>12

\* Whether a set of rows is left by no step.
Closed(steps, X) == \A p \in steps : p[1] \in X => p[2] \in X

\* After as many steps as there are rows, Reachable is the least set that
\* holds the first rows and is left by no step.
LEMMA ReachableFacts ==
  ASSUME NEW n \in Nat, NEW first, first \subseteq 1 .. n,
         NEW steps, steps \subseteq (1 .. n) \X (1 .. n)
  PROVE  LET R == Reachable(first, steps, n)
         IN  /\ R \subseteq 1 .. n /\ first \subseteq R /\ Closed(steps, R)
             /\ \A X : first \subseteq X /\ Closed(steps, X) => R \subseteq X
<1> DEFINE V == 1 .. n
<1>1. PICK f : Grows(V, first, steps, n, f)
  <2> HIDE DEF V
  <2>1. first \subseteq V /\ steps \subseteq V \X V BY DEF V
  <2>q. QED BY <2>1, ReachableGrows
<1> USE DEF Grows
<1>2. \A k \in 0 .. n : f[k] \subseteq V /\ IsFiniteSet(f[k])
  <2>1. IsFiniteSet(V) BY FS_Interval
  <2>2. TAKE k \in 0 .. n
  <2>3. f[k] \subseteq V BY <1>1
  <2> HIDE DEF V
  <2>q. QED BY <2>1, <2>3, FS_Subset
<1>3. \A k \in 1 .. n : /\ k - 1 \in 0 .. n /\ k \in 0 .. n /\ f[k - 1] \subseteq f[k]
                          /\ (\A p \in steps : p[1] \in f[k - 1] => p[2] \in f[k])
                          /\ (Closed(steps, f[k - 1]) => f[k] = f[k - 1])
  <2>1. TAKE k \in 1 .. n
  <2>2. f[k] = Onward(steps, f[k - 1]) BY <1>1
  <2>q. QED BY <2>2 DEF Onward, Closed
<1>4. \A X : first \subseteq X /\ Closed(steps, X) => f[n] \subseteq X
  <2> SUFFICES ASSUME NEW X, first \subseteq X, Closed(steps, X) PROVE f[n] \subseteq X OBVIOUS
  <2> DEFINE Bad == {k \in 0 .. n : ~(f[k] \subseteq X)}
  <2>1. Bad = {}
    <3> SUFFICES ASSUME Bad # {} PROVE FALSE OBVIOUS
    <3>1. PICK m \in Bad : \A y \in Bad : m <= y
      <4>1. Bad \subseteq Nat OBVIOUS
      <4> HIDE DEF Bad
      <4>q. QED BY <4>1, LeastNatural
    <3>2. m # 0 BY <1>1
    <3>3. m \in 1 .. n /\ m - 1 \in 0 .. n /\ ~(m <= m - 1) BY <3>2
    <3>4. f[m - 1] \subseteq X BY <3>3, <3>1
    <3>5. Onward(steps, f[m - 1]) \subseteq X BY <3>4 DEF Onward, Closed
    <3>q. QED BY <3>5, <3>3, <1>1
  <2>q. QED BY <2>1
<1>5. first \subseteq f[n]
  <2> DEFINE Bad == {k \in 0 .. n : ~(first \subseteq f[k])}
  <2>1. Bad = {}
    <3> SUFFICES ASSUME Bad # {} PROVE FALSE OBVIOUS
    <3>1. PICK m \in Bad : \A y \in Bad : m <= y
      <4>1. Bad \subseteq Nat OBVIOUS
      <4> HIDE DEF Bad
      <4>q. QED BY <4>1, LeastNatural
    <3>2. m # 0 BY <1>1
    <3>3. m \in 1 .. n /\ m - 1 \in 0 .. n /\ ~(m <= m - 1) BY <3>2
    <3>4. first \subseteq f[m - 1] BY <3>3, <3>1
    <3>q. QED BY <3>4, <3>3, <1>3
  <2>q. QED BY <2>1
<1>6. Closed(steps, f[n])
  <2> DEFINE Bad == {k \in 0 .. n : ~Closed(steps, f[k]) /\ ~(Cardinality(f[k]) >= k + 1)}
  <2>1. Bad = {}
    <3> SUFFICES ASSUME Bad # {} PROVE FALSE OBVIOUS
    <3>1. PICK m \in Bad : \A y \in Bad : m <= y
      <4>1. Bad \subseteq Nat OBVIOUS
      <4> HIDE DEF Bad
      <4>q. QED BY <4>1, LeastNatural
    <3>2. m \in 0 .. n /\ ~Closed(steps, f[m]) /\ ~(Cardinality(f[m]) >= m + 1) BY <3>1
    <3>3. m # 0
      <4> SUFFICES ASSUME m = 0 PROVE FALSE OBVIOUS
      <4>1. f[0] # {} BY <3>2 DEF Closed
      <4>2. Cardinality(f[0]) \in Nat /\ Cardinality(f[0]) # 0 BY <4>1, <1>2, FS_CardinalityType, FS_EmptySet
      <4>q. QED BY <4>2, <3>2
    <3>4. m \in 1 .. n /\ m - 1 \in 0 .. n /\ ~(m <= m - 1) BY <3>2, <3>3
    <3>5. ~Closed(steps, f[m - 1]) BY <3>4, <3>2, <1>3
    <3>6. Cardinality(f[m - 1]) >= m BY <3>5, <3>4, <3>1
    <3>7. f[m - 1] \subseteq f[m] /\ f[m - 1] # f[m]
      <4>1. PICK p \in steps : p[1] \in f[m - 1] /\ p[2] \notin f[m - 1] BY <3>5 DEF Closed
      <4>2. p[2] \in f[m] BY <4>1, <3>4, <1>3
      <4>q. QED BY <4>1, <4>2, <3>4, <1>3
    <3>8. Cardinality(f[m - 1]) \in Nat /\ Cardinality(f[m]) \in Nat BY <1>2, <3>4, FS_CardinalityType
    <3>9. Cardinality(f[m - 1]) < Cardinality(f[m])
      <4>1. IsFiniteSet(f[m]) /\ f[m - 1] \in SUBSET f[m] BY <3>7, <1>2, <3>4
      <4>2. Cardinality(f[m - 1]) <= Cardinality(f[m]) BY <4>1, FS_Subset
      <4>3. Cardinality(f[m - 1]) # Cardinality(f[m]) BY <4>1, <3>7, FS_Subset
      <4>q. QED BY <4>2, <4>3, <3>8
    <3>q. QED BY <3>2, <3>6, <3>8, <3>9
  <2>2. n \in 0 .. n OBVIOUS
  <2>3. Cardinality(f[n]) <= n /\ Cardinality(f[n]) \in Nat
    <3>1. Cardinality(V) = n /\ IsFiniteSet(V) BY FS_Interval
    <3>2. f[n] \subseteq V BY <2>2, <1>2
    <3> HIDE DEF V
    <3>q. QED BY <3>1, <3>2, FS_Subset, FS_CardinalityType
  <2>q. QED BY <2>1, <2>2, <2>3
<1>q. QED BY <1>1, <1>2, <1>4, <1>5, <1>6

(***************************************************************************)
(* Walks.                                                                  *)
(***************************************************************************)

\* From where, to where, in what time.
Hops == Stops \X Stops \X Nat

Footpaths == {<<s, s, 0>> : s \in Stops}

\* One can walk from a to b within x.
Within(w, a, b, x) == \E y \in Nat : y <= x /\ <<a, b, y>> \in w

\* A walk of w, and an edge at its end.
Lengthens(q, w, a, b, x) ==
  \E c \in Stops, y \in Nat, e \in q.walk :
    <<a, c, y>> \in w /\ e.from = c /\ e.to = b /\ x = y + e.secs

\* One step of the walks adds what one edge leads to, and nothing else.
LEMMA FartherFacts ==
  ASSUME NEW q, q.walk \subseteq Edges, NEW w, w \subseteq Hops
  PROVE  /\ Farther(q, w) \subseteq Hops /\ w \subseteq Farther(q, w)
         /\ \A a, b \in Stops, x \in Nat, e \in q.walk :
              <<a, b, x>> \in w /\ e.from = b => <<a, e.to, x + e.secs>> \in Farther(q, w)
         /\ \A a, b \in Stops, x \in Nat :
              <<a, b, x>> \in Farther(q, w) => <<a, b, x>> \in w \/ Lengthens(q, w, a, b, x)
<1> DEFINE Ahead == {z \in w \X q.walk : z[1][2] = z[2].from}
           Stride(z) == <<z[1][1], z[2].to, z[1][3] + z[2].secs>>
<1>1. Farther(q, w) = w \cup {Stride(z) : z \in Ahead} BY DEF Farther
<1>2. \A h \in w : h = <<h[1], h[2], h[3]>> /\ h[1] \in Stops /\ h[2] \in Stops /\ h[3] \in Nat BY DEF Hops
<1>3. \A e \in q.walk : e.from \in Stops /\ e.to \in Stops /\ e.secs \in Nat BY DEF Edges
<1>4. \A z \in Ahead : /\ z[1] \in w /\ z[2] \in q.walk /\ z[1][2] = z[2].from
                       /\ Stride(z) \in Hops
  <2>1. TAKE z \in Ahead
  <2>2. z[1] \in w /\ z[2] \in q.walk /\ z[1][2] = z[2].from OBVIOUS
  <2>3. z[1][1] \in Stops /\ z[1][3] + z[2].secs \in Nat /\ z[2].to \in Stops BY <2>2, <1>2, <1>3
  <2>q. QED BY <2>2, <2>3 DEF Hops
<1>5. Farther(q, w) \subseteq Hops /\ w \subseteq Farther(q, w) BY <1>1, <1>4
<1>6. ASSUME NEW a \in Stops, NEW b \in Stops, NEW x \in Nat, NEW e \in q.walk, <<a, b, x>> \in w, e.from = b
      PROVE  <<a, e.to, x + e.secs>> \in Farther(q, w)
  <2> DEFINE z == <<<<a, b, x>>, e>>
  <2>1. z \in Ahead BY <1>6
  <2>2. Stride(z) = <<a, e.to, x + e.secs>> OBVIOUS
  <2> HIDE DEF z, Ahead, Stride
  <2>q. QED BY <2>1, <2>2, <1>1
<1>7. ASSUME NEW a \in Stops, NEW b \in Stops, NEW x \in Nat, <<a, b, x>> \in Farther(q, w), <<a, b, x>> \notin w
      PROVE  Lengthens(q, w, a, b, x)
  <2>1. PICK z \in Ahead : <<a, b, x>> = Stride(z)
    <3> HIDE DEF Ahead, Stride
    <3>q. QED BY <1>1, <1>7
  <2>2. z[1] \in w /\ z[2] \in q.walk /\ z[1][2] = z[2].from BY <1>4
  <2>3. a = z[1][1] /\ b = z[2].to /\ x = z[1][3] + z[2].secs BY <2>1
  <2>4. <<a, z[1][2], z[1][3]>> \in w /\ z[1][2] \in Stops /\ z[1][3] \in Nat BY <2>2, <2>3, <1>2
  <2>q. QED BY <2>2, <2>3, <2>4 DEF Lengthens
<1>q. QED BY <1>5, <1>6, <1>7

\* f is the walks of more and more edges, and Walks the last of them.
Strides(q, f) ==
  /\ f \in [0 .. Cardinality(Stops) -> SUBSET Hops] /\ f[0] = Footpaths
  /\ \A k \in 1 .. Cardinality(Stops) : f[k] = Farther(q, f[k - 1])
  /\ Walks(q) = f[Cardinality(Stops)]

\* They exist.
LEMMA WalksGrow ==
  ASSUME NEW q, q.walk \subseteq Edges
  PROVE  Cardinality(Stops) \in Nat /\ \E f : Strides(q, f)
<1> DEFINE n == Cardinality(Stops)
           T == SUBSET Hops
           G == [X \in T |-> Farther(q, X)]
           Def(f) == f = [k \in 0 .. n |-> IF k = 0 THEN Footpaths ELSE Farther(q, f[k - 1])]
<1>0. n \in Nat BY ConstantsAssumption, FS_CardinalityType
<1> HIDE DEF n
<1>1. Footpaths \in T /\ G \in [T -> T] /\ \A X \in T : Farther(q, X) \in T
  <2>1. \A X \in T : Farther(q, X) \in T BY FartherFacts
  <2>2. Footpaths \in T BY DEF Footpaths, Hops
  <2>q. QED BY <2>1, <2>2
<1>2. PICK g : Iterates(T, Footpaths, G, n, g)
  <2> HIDE DEF T, G
  <2>q. QED BY <1>0, <1>1, IterationExists
<1>3. g \in [0 .. n -> T] /\ g[0] = Footpaths /\ \A k \in 1 .. n : g[k] = G[g[k - 1]]
  <2> HIDE DEF T, G
  <2>q. QED BY <1>2 DEF Iterates
<1>4. \A k \in 1 .. n : k - 1 \in 0 .. n /\ g[k - 1] \in T /\ G[g[k - 1]] = Farther(q, g[k - 1])
  <2>1. TAKE k \in 1 .. n
  <2>2. k - 1 \in 0 .. n BY <1>0
  <2>3. g[k - 1] \in T
    <3> HIDE DEF T, G
    <3>q. QED BY <2>2, <1>3
  <2>q. QED BY <2>2, <2>3
<1>5. Def(g)
  <2>1. g = [k \in 0 .. n |-> g[k]] BY <1>3
  <2>2. \A k \in 0 .. n : g[k] = IF k = 0 THEN Footpaths ELSE Farther(q, g[k - 1])
    <3>1. TAKE k \in 0 .. n
    <3>2. k # 0 => k \in 1 .. n BY <1>0
    <3> HIDE DEF G, T
    <3>q. QED BY <3>2, <1>3, <1>4
  <2>3. [k \in 0 .. n |-> g[k]] = [k \in 0 .. n |-> IF k = 0 THEN Footpaths ELSE Farther(q, g[k - 1])]
    BY <2>2, Zenon
  <2>q. QED BY <2>1, <2>3
<1> DEFINE f == CHOOSE h : Def(h)
<1>6. Def(f) BY <1>5
<1>7. Walks(q) = f[n] BY DEF Walks, Footpaths, n
<1>8. f = [k \in 0 .. n |-> IF k = 0 THEN Footpaths ELSE Farther(q, f[k - 1])] BY <1>6
<1> HIDE DEF f, Def
<1>9. f[0] = Footpaths /\ \A k \in 1 .. n : f[k] = Farther(q, f[k - 1])
  <2>1. f[0] = Footpaths BY <1>8, <1>0
  <2>2. \A k \in 1 .. n : k \in 0 .. n /\ k # 0 BY <1>0
  <2>q. QED BY <2>1, <2>2, <1>8
<1>10. \A k \in 0 .. n : f[k] \in T
  <2> DEFINE Bad == {k \in 0 .. n : f[k] \notin T}
  <2>1. Bad = {}
    <3> SUFFICES ASSUME Bad # {} PROVE FALSE OBVIOUS
    <3>1. PICK m \in Bad : \A y \in Bad : m <= y
      <4>1. Bad \subseteq Nat OBVIOUS
      <4> HIDE DEF Bad
      <4>q. QED BY <4>1, LeastNatural
    <3>2. m # 0 BY <1>9, <1>1
    <3>3. m \in 1 .. n /\ m - 1 \in 0 .. n /\ ~(m <= m - 1) BY <3>2, <1>0
    <3>4. f[m - 1] \in T BY <3>3, <3>1
    <3>5. Farther(q, f[m - 1]) \in T BY <3>4, <1>1
    <3>q. QED BY <3>5, <3>3, <3>1, <1>9
  <2>q. QED BY <2>1
<1>11. f \in [0 .. n -> T]
  <2> HIDE DEF T
  <2>1. f = [k \in 0 .. n |-> f[k]] BY <1>8
  <2>q. QED BY <2>1, <1>10
<1>12. Strides(q, f) BY <1>11, <1>9, <1>7 DEF Strides, n
<1>q. QED BY <1>12, <1>0 DEF n

\* A walk of no edge is one; and what holds of these, and of every walk that
\* is one edge longer than one it holds of, holds of all.
LEMMA WalksAreWalks ==
  ASSUME NEW q, q.walk \subseteq Edges
  PROVE  /\ Walks(q) \subseteq Hops /\ Footpaths \subseteq Walks(q)
         /\ \A X : /\ Footpaths \subseteq X
                   /\ \A a, b \in Stops, x \in Nat, e \in q.walk :
                        <<a, b, x>> \in X /\ e.from = b => <<a, e.to, x + e.secs>> \in X
                   => Walks(q) \subseteq X
<1> DEFINE n == Cardinality(Stops)
<1>1. n \in Nat BY WalksGrow
<1>2. PICK f : Strides(q, f) BY WalksGrow
<1>3. /\ f \in [0 .. n -> SUBSET Hops] /\ f[0] = Footpaths
      /\ \A k \in 1 .. n : f[k] = Farther(q, f[k - 1])
      /\ Walks(q) = f[n]
  BY <1>2 DEF Strides
<1> HIDE DEF n
<1>4. \A k \in 0 .. n : f[k] \subseteq Hops BY <1>3
<1>5. Footpaths \subseteq f[n]
  <2> DEFINE Bad == {k \in 0 .. n : ~(Footpaths \subseteq f[k])}
  <2>1. Bad = {}
    <3> SUFFICES ASSUME Bad # {} PROVE FALSE OBVIOUS
    <3>1. PICK m \in Bad : \A y \in Bad : m <= y
      <4>1. Bad \subseteq Nat OBVIOUS
      <4> HIDE DEF Bad
      <4>q. QED BY <4>1, LeastNatural
    <3>2. m # 0 BY <1>3
    <3>3. m \in 1 .. n /\ m - 1 \in 0 .. n /\ ~(m <= m - 1) BY <3>2, <1>1
    <3>4. Footpaths \subseteq f[m - 1] BY <3>3, <3>1
    <3>5. f[m - 1] \subseteq Farther(q, f[m - 1]) BY <3>3, <1>4, FartherFacts
    <3>q. QED BY <3>4, <3>5, <3>3, <3>1, <1>3
  <2>q. QED BY <2>1, <1>1
<1>6. ASSUME NEW X, Footpaths \subseteq X,
             \A a, b \in Stops, x \in Nat, e \in q.walk :
               <<a, b, x>> \in X /\ e.from = b => <<a, e.to, x + e.secs>> \in X
      PROVE  f[n] \subseteq X
  <2> DEFINE Bad == {k \in 0 .. n : ~(f[k] \subseteq X)}
  <2>1. Bad = {}
    <3> SUFFICES ASSUME Bad # {} PROVE FALSE OBVIOUS
    <3>1. PICK m \in Bad : \A y \in Bad : m <= y
      <4>1. Bad \subseteq Nat OBVIOUS
      <4> HIDE DEF Bad
      <4>q. QED BY <4>1, LeastNatural
    <3>2. m # 0 BY <1>3, <1>6
    <3>3. m \in 1 .. n /\ m - 1 \in 0 .. n /\ ~(m <= m - 1) BY <3>2, <1>1
    <3>4. f[m - 1] \subseteq X /\ f[m - 1] \subseteq Hops BY <3>3, <3>1, <1>4
    <3>5. PICK h \in f[m] : h \notin X BY <3>1
    <3>6. f[m] = Farther(q, f[m - 1]) /\ f[m] \subseteq Hops BY <3>3, <1>3
    <3>7. PICK a \in Stops, b \in Stops, x \in Nat : h = <<a, b, x>> BY <3>5, <3>6 DEF Hops
    <3>8. PICK c \in Stops, y \in Nat, e \in q.walk :
                   <<a, c, y>> \in f[m - 1] /\ e.from = c /\ e.to = b /\ x = y + e.secs
      <4>1. <<a, b, x>> \in Farther(q, f[m - 1]) /\ <<a, b, x>> \notin f[m - 1] BY <3>4, <3>5, <3>6, <3>7
      <4>2. Lengthens(q, f[m - 1], a, b, x) BY <4>1, <3>4, FartherFacts
      <4>q. QED BY <4>2 DEF Lengthens
    <3>9. <<a, e.to, y + e.secs>> \in X BY <3>8, <3>4, <1>6
    <3>q. QED BY <3>9, <3>8, <3>7, <3>5
  <2>q. QED BY <2>1, <1>1
<1>q. QED BY <1>3, <1>4, <1>5, <1>6, <1>1

\* A walk of k edges that no walk of fewer edges is as short as, and the stops
\* before its last one: they are k, since a walk that comes back is no shorter.
Fresh(f, k, a, b, x) == /\ <<a, b, x>> \in f[k]
                        /\ k # 0 => ~Within(f[k - 1], a, b, x)

Passed(w, n, a, b, x, T) ==
  /\ T \subseteq Stops /\ IsFiniteSet(T) /\ Cardinality(T) = n /\ b \notin T
  /\ \A t \in T : Within(w, a, t, x)

Crowd(f, k, a, b, x, T) == IF k = 0 THEN T = {} ELSE Passed(f[k - 1], k, a, b, x, T)

\* One more edge adds one more stop.
LEMMA CrowdGrows ==
  ASSUME NEW q, q.walk \subseteq Edges, NEW w, w \subseteq Hops,
         NEW k \in Nat, NEW f, NEW a \in Stops, NEW c \in Stops, NEW y \in Nat, NEW e \in q.walk,
         k # 0 => Farther(q, f[k - 1]) = w /\ f[k - 1] \subseteq Hops,
         f[k] = w, <<a, c, y>> \in w, e.from = c, ~Within(w, a, e.to, y + e.secs),
         Fresh(f, k, a, c, y) => \E T : Crowd(f, k, a, c, y, T)
  PROVE  \E T : Passed(w, k + 1, a, e.to, y + e.secs, T)
<1>0. e.from \in Stops /\ e.to \in Stops /\ e.secs \in Nat BY DEF Edges
<1>1. Fresh(f, k, a, c, y)
  <2> SUFFICES ASSUME k # 0, Within(f[k - 1], a, c, y) PROVE FALSE BY DEF Fresh
  <2>1. PICK z \in Nat : z <= y /\ <<a, c, z>> \in f[k - 1] BY DEF Within
  <2>2. <<a, e.to, z + e.secs>> \in w BY <2>1, FartherFacts
  <2>3. z + e.secs \in Nat /\ z + e.secs <= y + e.secs BY <2>1, <1>0
  <2>q. QED BY <2>2, <2>3 DEF Within
<1>2. PICK T : Crowd(f, k, a, c, y, T) BY <1>1
<1>3. T \subseteq Stops /\ IsFiniteSet(T) /\ Cardinality(T) = k /\ c \notin T BY <1>2, FS_EmptySet DEF Crowd, Passed
<1>4. \A t \in T \cup {c} : Within(w, a, t, y + e.secs)
  <2>1. TAKE t \in T \cup {c}
  <2>2. CASE t = c
    <3>1. y <= y + e.secs BY <1>0
    <3>q. QED BY <2>2, <3>1 DEF Within
  <2>3. CASE t \in T
    <3>1. k # 0 /\ Within(f[k - 1], a, t, y) BY <2>3, <1>2 DEF Crowd, Passed
    <3>2. PICK z \in Nat : z <= y /\ <<a, t, z>> \in f[k - 1] BY <3>1 DEF Within
    <3>3. <<a, t, z>> \in w BY <3>1, <3>2, FartherFacts
    <3>4. z <= y + e.secs BY <3>2, <1>0
    <3>q. QED BY <3>3, <3>4 DEF Within
  <2>q. QED BY <2>2, <2>3
<1>5. IsFiniteSet(T \cup {c}) /\ Cardinality(T \cup {c}) = k + 1 BY <1>3, FS_AddElement
<1>6. e.to \notin T \cup {c} BY <1>4
<1>7. Passed(w, k + 1, a, e.to, y + e.secs, T \cup {c}) BY <1>3, <1>4, <1>5, <1>6 DEF Passed
<1>q. QED BY <1>7

\* A walk followed by an edge is within a walk: there are no more stops than
\* the edges a shortest walk can have.
LEMMA WalksExtend ==
  ASSUME NEW q, q.walk \subseteq Edges, NEW a \in Stops, NEW b \in Stops, NEW x \in Nat,
         <<a, b, x>> \in Walks(q), NEW e \in q.walk, e.from = b
  PROVE  Within(Walks(q), a, e.to, x + e.secs)
<1> DEFINE n == Cardinality(Stops)
<1>1. n \in Nat BY WalksGrow
<1>2. PICK f : Strides(q, f) BY WalksGrow
<1>3. /\ f \in [0 .. n -> SUBSET Hops] /\ f[0] = Footpaths
      /\ \A k \in 1 .. n : f[k] = Farther(q, f[k - 1])
      /\ Walks(q) = f[n]
  BY <1>2 DEF Strides
<1> HIDE DEF n
<1>4. \A k \in 0 .. n : f[k] \subseteq Hops BY <1>3
<1>5. ASSUME NEW k \in 0 .. n, NEW d \in Stops, NEW s \in Stops, NEW y \in Nat, Fresh(f, k, d, s, y)
      PROVE  \E T : Crowd(f, k, d, s, y, T)
  <2> DEFINE Alone(m) == \E i, j \in Stops, z \in Nat : Fresh(f, m, i, j, z) /\ ~\E T : Crowd(f, m, i, j, z, T)
             Bad == {m \in 0 .. n : Alone(m)}
  <2>1. Bad = {}
    <3> SUFFICES ASSUME Bad # {} PROVE FALSE OBVIOUS
    <3>1. PICK m \in Bad : \A u \in Bad : m <= u
      <4>1. Bad \subseteq Nat OBVIOUS
      <4> HIDE DEF Bad
      <4>q. QED BY <4>1, LeastNatural
    <3>2. PICK i \in Stops, j \in Stops, z \in Nat : Fresh(f, m, i, j, z) /\ ~\E T : Crowd(f, m, i, j, z, T)
      BY <3>1
    <3>3. m # 0
      <4> SUFFICES ASSUME m = 0 PROVE FALSE OBVIOUS
      <4>1. Crowd(f, m, i, j, z, {}) BY DEF Crowd
      <4>q. QED BY <4>1, <3>2
    <3>4. m \in 1 .. n /\ m - 1 \in 0 .. n /\ m - 1 \in Nat /\ ~(m <= m - 1) /\ m - 1 + 1 = m BY <3>1, <3>3, <1>1
    <3>5. f[m] = Farther(q, f[m - 1]) /\ f[m - 1] \subseteq Hops BY <3>4, <1>3, <1>4
    <3>6. <<i, j, z>> \in f[m] /\ ~Within(f[m - 1], i, j, z) BY <3>2, <3>3 DEF Fresh
    <3>7. <<i, j, z>> \notin f[m - 1] BY <3>6 DEF Within
    <3>8. Lengthens(q, f[m - 1], i, j, z) BY <3>5, <3>6, <3>7, FartherFacts
    <3>9. PICK c \in Stops, y1 \in Nat, g \in q.walk :
                   <<i, c, y1>> \in f[m - 1] /\ g.from = c /\ g.to = j /\ z = y1 + g.secs BY <3>8 DEF Lengthens
    <3>10. m - 1 # 0 => Farther(q, f[m - 1 - 1]) = f[m - 1] /\ f[m - 1 - 1] \subseteq Hops
      <4> SUFFICES ASSUME m - 1 # 0 PROVE Farther(q, f[m - 1 - 1]) = f[m - 1] /\ f[m - 1 - 1] \subseteq Hops OBVIOUS
      <4>1. m - 1 \in 1 .. n /\ m - 1 - 1 \in 0 .. n BY <3>4, <1>1
      <4>q. QED BY <4>1, <1>3, <1>4
    <3>11. Fresh(f, m - 1, i, c, y1) => \E T : Crowd(f, m - 1, i, c, y1, T)
      <4>1. m - 1 \notin Bad BY <3>1, <3>4
      <4>q. QED BY <4>1, <3>4
    <3>12. \E T : Passed(f[m - 1], m - 1 + 1, i, g.to, y1 + g.secs, T)
      <4>2. ~Within(f[m - 1], i, g.to, y1 + g.secs) BY <3>6, <3>9
      <4> HIDE DEF Bad
      <4>q. QED BY <3>4, <3>5, <4>2, <3>9, <3>10, <3>11, CrowdGrows
    <3>13. PICK T : Crowd(f, m, i, j, z, T) BY <3>12, <3>9, <3>4, <3>3 DEF Crowd
    <3>q. QED BY <3>13, <3>2
  <2>q. QED BY <2>1, <1>5
<1>6. SUFFICES ASSUME ~Within(f[n], a, e.to, x + e.secs) PROVE FALSE BY <1>3
<1>7. n # 0 => Farther(q, f[n - 1]) = f[n] /\ f[n - 1] \subseteq Hops
  <2> SUFFICES ASSUME n # 0 PROVE Farther(q, f[n - 1]) = f[n] /\ f[n - 1] \subseteq Hops OBVIOUS
  <2>1. n \in 1 .. n /\ n - 1 \in 0 .. n BY <1>1
  <2>q. QED BY <2>1, <1>3, <1>4
<1>8. n \in 0 .. n /\ f[n] \subseteq Hops BY <1>1, <1>4
<1>9. PICK T : T \subseteq Stops /\ IsFiniteSet(T) /\ Cardinality(T) = n + 1
  <2>1. Fresh(f, n, a, b, x) => \E T : Crowd(f, n, a, b, x, T) BY <1>5, <1>8
  <2>2. \E T : Passed(f[n], n + 1, a, e.to, x + e.secs, T)
    <3>1. <<a, b, x>> \in f[n] BY <1>3
    <3>2. f[n] \subseteq Hops BY <1>8
    <3> DEFINE w == f[n]
    <3>3. w = f[n] OBVIOUS
    <3> HIDE DEF w
    <3>4. \E T : Passed(w, n + 1, a, e.to, x + e.secs, T)
      BY <2>1, <3>1, <3>2, <3>3, <1>1, <1>6, <1>7, CrowdGrows
    <3>q. QED BY <3>3, <3>4
  <2>q. QED BY <2>2 DEF Passed
<1>10. Cardinality(T) <= n BY <1>9, ConstantsAssumption, FS_Subset DEF n
<1>q. QED BY <1>9, <1>10, <1>1

\* An edge in front of a walk makes a walk as well.
LEMMA WalksPrepend ==
  ASSUME NEW q, q.walk \subseteq Edges, NEW a \in Stops, NEW b \in Stops, NEW x \in Nat,
         <<a, b, x>> \in Walks(q), NEW e \in q.walk, e.to = a
  PROVE  Within(Walks(q), e.from, b, e.secs + x)
<1> DEFINE w == Walks(q)
           X == {h \in Hops : h[1] = e.to => Within(w, e.from, h[2], e.secs + h[3])}
<1>0. e.from \in Stops /\ e.to \in Stops /\ e.secs \in Nat BY DEF Edges
<1>1. Footpaths \subseteq X
  <2>1. <<e.from, e.from, 0>> \in w BY <1>0, WalksAreWalks DEF Footpaths
  <2>2. Within(w, e.from, e.to, 0 + e.secs) BY <2>1, <1>0, WalksExtend
  <2>3. \A s \in Stops : <<s, s, 0>> \in X
    <3>1. TAKE s \in Stops
    <3>2. <<s, s, 0>> \in Hops BY DEF Hops
    <3>3. s = e.to => Within(w, e.from, s, e.secs + 0) BY <2>2, <1>0
    <3>q. QED BY <3>2, <3>3
  <2>q. QED BY <2>3 DEF Footpaths
<1>2. ASSUME NEW c \in Stops, NEW d \in Stops, NEW y \in Nat, NEW g \in q.walk, <<c, d, y>> \in X, g.from = d
      PROVE  <<c, g.to, y + g.secs>> \in X
  <2>1. g.to \in Stops /\ g.secs \in Nat /\ y + g.secs \in Nat BY DEF Edges
  <2>2. <<c, g.to, y + g.secs>> \in Hops BY <2>1 DEF Hops
  <2>3. ASSUME c = e.to PROVE Within(w, e.from, g.to, e.secs + (y + g.secs))
    <3>1. Within(w, e.from, d, e.secs + y) BY <1>2, <2>3
    <3>2. PICK z \in Nat : z <= e.secs + y /\ <<e.from, d, z>> \in w BY <3>1 DEF Within
    <3>3. Within(w, e.from, g.to, z + g.secs) BY <3>2, <1>0, <1>2, WalksExtend
    <3>4. PICK u \in Nat : u <= z + g.secs /\ <<e.from, g.to, u>> \in w BY <3>3 DEF Within
    <3>5. u <= e.secs + (y + g.secs) BY <3>2, <3>4, <2>1, <1>0
    <3> HIDE DEF w
    <3>q. QED BY <3>4, <3>5 DEF Within
  <2>q. QED BY <2>2, <2>3
<1>3. w \subseteq X
  <2> HIDE DEF X
  <2>q. QED BY <1>1, <1>2, WalksAreWalks
<1>q. QED BY <1>3

\* Walks can be made in the other direction when the edges can.
LEMMA WalksBack ==
  ASSUME NEW q, q.walk \subseteq Edges, NEW r, r.walk \subseteq Edges,
         \A e \in q.walk : \E g \in r.walk : g.from = e.to /\ g.to = e.from /\ g.secs = e.secs,
         NEW a \in Stops, NEW b \in Stops, NEW x \in Nat, <<a, b, x>> \in Walks(q)
  PROVE  Within(Walks(r), b, a, x)
<1> DEFINE w == Walks(r)
           X == {h \in Hops : Within(w, h[2], h[1], h[3])}
<1>1. Footpaths \subseteq X
  <2>1. \A s \in Stops : <<s, s, 0>> \in X
    <3>1. TAKE s \in Stops
    <3>2. <<s, s, 0>> \in Hops BY DEF Hops
    <3>3. <<s, s, 0>> \in w BY WalksAreWalks DEF Footpaths
    <3>q. QED BY <3>2, <3>3 DEF Within
  <2>q. QED BY <2>1 DEF Footpaths
<1>2. ASSUME NEW c \in Stops, NEW d \in Stops, NEW y \in Nat, NEW e \in q.walk, <<c, d, y>> \in X, e.from = d
      PROVE  <<c, e.to, y + e.secs>> \in X
  <2>1. e.to \in Stops /\ e.secs \in Nat /\ y + e.secs \in Nat BY DEF Edges
  <2>2. <<c, e.to, y + e.secs>> \in Hops BY <2>1 DEF Hops
  <2>3. Within(w, d, c, y) BY <1>2
  <2>4. PICK z \in Nat : z <= y /\ <<d, c, z>> \in w BY <2>3 DEF Within
  <2>5. PICK g \in r.walk : g.from = e.to /\ g.to = d /\ g.secs = e.secs BY <1>2
  <2>6. Within(w, e.to, c, e.secs + z) BY <2>4, <2>5, WalksPrepend
  <2>7. PICK u \in Nat : u <= e.secs + z /\ <<e.to, c, u>> \in w BY <2>6 DEF Within
  <2>8. u <= y + e.secs BY <2>4, <2>7, <2>1
  <2>9. Within(w, e.to, c, y + e.secs)
    <3> HIDE DEF w
    <3>q. QED BY <2>7, <2>8 DEF Within
  <2>q. QED BY <2>2, <2>9
<1>3. Walks(q) \subseteq X
  <2> HIDE DEF X
  <2>q. QED BY <1>1, <1>2, WalksAreWalks
<1>q. QED BY <1>3

\* Within, from a walk and for longer.
LEMMA WithinFacts ==
  ASSUME NEW w, NEW a, NEW b, NEW x \in Int
  PROVE  /\ \A y \in Int : Within(w, a, b, x) /\ x <= y => Within(w, a, b, y)
         /\ Within(w, a, b, x) => x >= 0
<1>1. ASSUME NEW y \in Int, Within(w, a, b, x), x <= y PROVE Within(w, a, b, y)
  <2>1. PICK z \in Nat : z <= x /\ <<a, b, z>> \in w BY <1>1 DEF Within
  <2>2. z <= y BY <2>1, <1>1
  <2>q. QED BY <2>1, <2>2 DEF Within
<1>2. ASSUME Within(w, a, b, x) PROVE x >= 0
  <2>1. PICK z \in Nat : z <= x BY <1>2 DEF Within
  <2>q. QED BY <2>1
<1>q. QED BY <1>1, <1>2

\* The walks of a reversed query are those of the query, turned round.
LEMMA ReversalWithin ==
  ASSUME NEW q \in Queries, NEW a \in Stops, NEW b \in Stops, NEW x \in Int
  PROVE  Within(Walks(Reversal(q)), b, a, x) <=> Within(Walks(q), a, b, x)
<1> DEFINE r == Reversal(q)
<1>1. q.walk \subseteq Edges BY DEF Queries
<1>2. r.walk = ReversedWalk(q.walk) BY ReversalFields
<1>3. r.walk = {[e EXCEPT !.from = e.to, !.to = e.from] : e \in q.walk} BY <1>2 DEF ReversedWalk
<1>4. \A e \in Edges : LET g == [e EXCEPT !.from = e.to, !.to = e.from]
                       IN  g \in Edges /\ g.from = e.to /\ g.to = e.from /\ g.secs = e.secs
  BY ReversedFields
<1> HIDE DEF r
<1>5. r.walk \subseteq Edges BY <1>1, <1>3, <1>4
<1>6. \A e \in q.walk : \E g \in r.walk : g.from = e.to /\ g.to = e.from /\ g.secs = e.secs BY <1>1, <1>3, <1>4
<1>7. \A g \in r.walk : \E e \in q.walk : e.from = g.to /\ e.to = g.from /\ e.secs = g.secs
  <2>1. TAKE g \in r.walk
  <2>2. PICK e \in q.walk : g = [e EXCEPT !.from = e.to, !.to = e.from] BY <1>3
  <2>3. g.from = e.to /\ g.to = e.from /\ g.secs = e.secs BY <2>2, <1>1, <1>4
  <2>q. QED BY <2>3
<1>8. ASSUME Within(Walks(q), a, b, x) PROVE Within(Walks(r), b, a, x)
  <2>1. PICK y \in Nat : y <= x /\ <<a, b, y>> \in Walks(q) BY <1>8 DEF Within
  <2>2. Within(Walks(r), b, a, y) BY <2>1, <1>1, <1>5, <1>6, WalksBack
  <2>q. QED BY <2>1, <2>2, WithinFacts
<1>9. ASSUME Within(Walks(r), b, a, x) PROVE Within(Walks(q), a, b, x)
  <2>1. PICK y \in Nat : y <= x /\ <<b, a, y>> \in Walks(r) BY <1>9 DEF Within
  <2>2. Within(Walks(q), a, b, y) BY <2>1, <1>1, <1>5, <1>7, WalksBack
  <2>q. QED BY <2>1, <2>2, WithinFacts
<1>q. QED BY <1>8, <1>9 DEF r

(***************************************************************************)
(* What the reference says of a query, without its minima.                 *)
(***************************************************************************)

\* A passenger who sets out at `depart` can ride row i first; one who is to
\* arrive by `by` can leave it last.
Starts(q, i, depart) ==
  /\ Allowed(q, q.rows[i].pickup)
  /\ \E s \in q.sources : Within(Walks(q), s.stop, q.rows[i].from, q.rows[i].depTime - depart - s.walk)

Ends(q, i, by) ==
  /\ Allowed(q, q.rows[i].dropOff)
  /\ \E t \in q.targets : Within(Walks(q), q.rows[i].to, t.stop, by - q.rows[i].arrTime - t.walk)

\* One who sets out at `depart`, on foot or by the rows that can be ridden,
\* arrives by `by`.
OnFoot(q, depart, by) ==
  \E s \in q.sources, t \in q.targets : Within(Walks(q), s.stop, t.stop, by - depart - s.walk - t.walk)

Arrives(q, rides, depart, by) == OnFoot(q, depart, by) \/ \E i \in rides : Ends(q, i, by)

Paces(q, walks) ==
  {p \in (DOMAIN q.rows) \X (DOMAIN q.rows) : Follows(q, walks, p[1], p[2])}

\* What is rideable is the least set that holds the first rows and is left by
\* no change, ride or stay.
LEMMA RideableFacts ==
  ASSUME NEW q \in Queries, NEW depart \in Int
  PROVE  /\ FirstRows(q, Walks(q), depart) = {i \in DOMAIN q.rows : Starts(q, i, depart)}
         /\ Rideable(q, Walks(q), depart)
              = Reachable({i \in DOMAIN q.rows : Starts(q, i, depart)}, Paces(q, Walks(q)), Len(q.rows))
<1>0. q.rows \in Seq(Rows) /\ DOMAIN q.rows = 1 .. Len(q.rows) /\ q.sources \subseteq Endpoints
      /\ q.walk \subseteq Edges
  BY DEF Queries
<1>1. \A i \in DOMAIN q.rows : q.rows[i].depTime \in Int
  <2>1. \A i \in DOMAIN q.rows : q.rows[i] \in Rows BY <1>0
  <2>q. QED BY <2>1, RowFields
<1>2. \A s \in q.sources : s.walk \in Nat BY <1>0 DEF Endpoints
<1>3. Walks(q) \subseteq Hops BY <1>0, WalksAreWalks
<1>4. ASSUME NEW i \in DOMAIN q.rows, NEW s \in q.sources
      PROVE  (\E n \in Walking(Walks(q), s.stop, q.rows[i].from) : depart + s.walk + n <= q.rows[i].depTime)
               <=> Within(Walks(q), s.stop, q.rows[i].from, q.rows[i].depTime - depart - s.walk)
  <2>1. \A n : n \in Walking(Walks(q), s.stop, q.rows[i].from)
                 <=> n \in Nat /\ <<s.stop, q.rows[i].from, n>> \in Walks(q)
    BY <1>3 DEF Walking, Hops
  <2>2. \A n \in Nat : depart + s.walk + n <= q.rows[i].depTime <=> n <= q.rows[i].depTime - depart - s.walk
    BY <1>1, <1>2
  <2>q. QED BY <2>1, <2>2 DEF Within
<1>5. FirstRows(q, Walks(q), depart) = {i \in DOMAIN q.rows : Starts(q, i, depart)}
  BY <1>4 DEF FirstRows, Starts
<1>6. Rideable(q, Walks(q), depart)
              = Reachable(FirstRows(q, Walks(q), depart), Paces(q, Walks(q)), Len(q.rows))
  BY DEF Rideable, Paces
<1>q. QED BY <1>5, <1>6

\* MinOf of integers that have a lower bound is the least of them.
LEMMA LeastInteger ==
  ASSUME NEW T, T \subseteq Int, T # {}, NEW b \in Int, \A x \in T : b <= x
  PROVE  MinOf(T) \in T /\ \A y \in T : MinOf(T) <= y
<1> DEFINE U == {n \in Nat : b + n \in T}
<1>1. U # {}
  <2>1. PICK x \in T : TRUE OBVIOUS
  <2>2. x - b \in Nat /\ b + (x - b) = x BY <2>1
  <2>q. QED BY <2>1, <2>2
<1>2. PICK u \in U : \A n \in U : u <= n
  <2>1. U \subseteq Nat OBVIOUS
  <2> HIDE DEF U
  <2>q. QED BY <2>1, <1>1, LeastNatural
<1>3. b + u \in T /\ u \in Nat OBVIOUS
<1>4. \A y \in T : b + u <= y
  <2>1. TAKE y \in T
  <2>2. y \in Int /\ y - b \in Nat /\ b + (y - b) = y OBVIOUS
  <2>3. y - b \in U BY <2>2
  <2>4. u <= y - b BY <2>3, <1>2
  <2>q. QED BY <2>2, <2>4, <1>3
<1>q. QED BY <1>3, <1>4 DEF MinOf

\* The earliest arrival is the least instant by which one arrives, if any.
LEMMA EarliestFacts ==
  ASSUME NEW q, WellFormed(q), NEW depart \in Int
  PROVE  LET best == EarliestArrival(q, depart)
         IN  /\ best \in Int /\ best <= Infinity
             /\ \A by \in Int : by < Infinity =>
                  (best <= by <=> Arrives(q, Rideable(q, Walks(q), depart), depart, by))
<1> DEFINE walks == Walks(q)
           rides == Rideable(q, walks, depart)
           left == {i \in rides : Allowed(q, q.rows[i].dropOff)}
           Foot == {y \in q.sources \X walks \X q.targets : y[2][1] = y[1].stop /\ y[2][2] = y[3].stop}
           Onto == {y \in left \X walks \X q.targets : y[2][1] = q.rows[y[1]].to /\ y[2][2] = y[3].stop}
           FootEnd(x) == depart + x[1].walk + x[2][3] + x[3].walk
           RideEnd(x) == q.rows[x[1]].arrTime + x[2][3] + x[3].walk
           A == {FootEnd(x) : x \in Foot}
           B == {RideEnd(x) : x \in Onto}
           S == {Infinity} \cup A \cup B
<1>1. EarliestArrival(q, depart) = MinOf(S) BY DEF EarliestArrival
<1>2. /\ q \in Queries /\ q.rows \in Seq(Rows) /\ DOMAIN q.rows = 1 .. Len(q.rows) /\ Len(q.rows) \in Nat
      /\ q.sources \subseteq Endpoints /\ q.targets \subseteq Endpoints /\ q.walk \subseteq Edges
  BY DEF Queries, WellFormed
<1>3. \A i \in DOMAIN q.rows : /\ q.rows[i].depTime \in Int /\ q.rows[i].arrTime \in Int
                               /\ q.rows[i].to \in Stops /\ -Infinity < q.rows[i].arrTime
  <2>1. TAKE i \in DOMAIN q.rows
  <2>2. q.rows[i] \in Rows BY <1>2
  <2>3. q.rows[i].depTime \in Int /\ q.rows[i].arrTime \in Int /\ q.rows[i].to \in Stops BY <2>2, RowFields
  <2>4. q.rows[i].depTime <= q.rows[i].arrTime /\ q.rows[i].depTime > -Infinity BY DEF WellFormed
  <2>q. QED BY <2>3, <2>4, ConstantsAssumption
<1>4. rides \subseteq DOMAIN q.rows
  <2>1. {i \in DOMAIN q.rows : Starts(q, i, depart)} \subseteq 1 .. Len(q.rows) BY <1>2
  <2>2. Paces(q, walks) \subseteq (1 .. Len(q.rows)) \X (1 .. Len(q.rows)) BY <1>2 DEF Paces
  <2> DEFINE first == {i \in DOMAIN q.rows : Starts(q, i, depart)}
             steps == Paces(q, walks)
  <2>3. rides = Reachable(first, steps, Len(q.rows)) BY <1>2, RideableFacts
  <2> HIDE DEF first, steps, walks, rides
  <2>4. Reachable(first, steps, Len(q.rows)) \subseteq 1 .. Len(q.rows)
    BY <2>1, <2>2, <1>2, ReachableFacts DEF first, steps
  <2>q. QED BY <2>3, <2>4, <1>2
<1>5. walks \subseteq Hops /\ Infinity \in Int BY <1>2, WalksAreWalks, ConstantsAssumption
<1> HIDE DEF walks, rides
<1>6. \A h \in walks : h = <<h[1], h[2], h[3]>> /\ h[3] \in Nat BY <1>5 DEF Hops
<1>7. \A e \in q.sources \cup q.targets : e.walk \in Nat /\ e.stop \in Stops BY <1>2 DEF Endpoints
<1>8. ASSUME NEW x \in Foot
      PROVE  /\ x[1] \in q.sources /\ x[2] \in walks /\ x[3] \in q.targets
             /\ <<x[1].stop, x[3].stop, x[2][3]>> \in walks
             /\ x[1].walk \in Nat /\ x[2][3] \in Nat /\ x[3].walk \in Nat
  BY <1>6, <1>7
<1>9. ASSUME NEW x \in Onto
      PROVE  /\ x[1] \in left /\ x[2] \in walks /\ x[3] \in q.targets /\ x[1] \in DOMAIN q.rows
             /\ <<q.rows[x[1]].to, x[3].stop, x[2][3]>> \in walks
             /\ x[2][3] \in Nat /\ x[3].walk \in Nat
  BY <1>4, <1>6, <1>7
<1>10. \A v \in A : \E x \in Foot : v = FootEnd(x) OBVIOUS
<1>11. \A v \in B : \E x \in Onto : v = RideEnd(x) OBVIOUS
<1>12. ASSUME NEW v \in A PROVE v \in Int /\ depart <= v
  <2>1. PICK x \in Foot : v = FootEnd(x) BY <1>10
  <2>2. x[1].walk \in Nat /\ x[2][3] \in Nat /\ x[3].walk \in Nat BY <1>8
  <2>q. QED BY <2>1, <2>2
<1>13. ASSUME NEW v \in B PROVE v \in Int /\ -Infinity <= v
  <2>1. PICK x \in Onto : v = RideEnd(x) BY <1>11
  <2>2. x[2][3] \in Nat /\ x[3].walk \in Nat /\ x[1] \in DOMAIN q.rows BY <1>9
  <2>3. q.rows[x[1]].arrTime \in Int /\ -Infinity < q.rows[x[1]].arrTime BY <2>2, <1>3
  <2>q. QED BY <2>1, <2>2, <2>3, <1>5
<1>14. /\ MinOf(S) \in S /\ \A y \in S : MinOf(S) <= y
       /\ S \subseteq Int
  <2>1. S \subseteq Int /\ S # {} /\ Infinity \in S BY <1>5, <1>12, <1>13
  <2> DEFINE b == MinOf({depart, -Infinity, Infinity})
  <2>2. \E l \in Int : l <= depart /\ l <= -Infinity /\ l <= Infinity
    <3>1. CASE depart <= -Infinity /\ depart <= Infinity BY <3>1, <1>5
    <3>2. CASE ~(depart <= -Infinity) /\ -Infinity <= Infinity BY <3>2, <1>5
    <3>3. CASE ~(depart <= Infinity) /\ Infinity <= -Infinity BY <3>3, <1>5
    <3>q. QED BY <3>1, <3>2, <3>3, <1>5
  <2>3. PICK l \in Int : l <= depart /\ l <= -Infinity /\ l <= Infinity BY <2>2
  <2>4. \A y \in S : l <= y
    <3>1. TAKE y \in S
    <3> HIDE DEF A, B
    <3>2. CASE y = Infinity BY <3>2, <2>3
    <3>3. CASE y \in A BY <3>3, <1>12, <2>3
    <3>4. CASE y \in B BY <3>4, <1>13, <2>3, <1>5
    <3>q. QED BY <3>2, <3>3, <3>4
  <2> HIDE DEF S
  <2>q. QED BY <2>1, <2>4, LeastInteger
<1>15. ASSUME NEW by \in Int, by < Infinity PROVE MinOf(S) <= by <=> \E v \in A \cup B : v <= by
  <2>1. ASSUME MinOf(S) <= by PROVE \E v \in A \cup B : v <= by
    <3>1. MinOf(S) # Infinity BY <2>1, <1>15, <1>5
    <3> HIDE DEF A, B
    <3>q. QED BY <3>1, <2>1, <1>14
  <2>2. ASSUME NEW v \in A \cup B, v <= by PROVE MinOf(S) <= by
    <3> HIDE DEF A, B
    <3>1. v \in S /\ MinOf(S) <= v /\ v \in Int /\ MinOf(S) \in Int BY <1>14
    <3> HIDE DEF S
    <3>q. QED BY <3>1, <2>2
  <2>q. QED BY <2>1, <2>2
<1>16. ASSUME NEW by \in Int PROVE (\E v \in A : v <= by) <=> OnFoot(q, depart, by)
  <2>1. ASSUME NEW v \in A, v <= by PROVE OnFoot(q, depart, by)
    <3>1. PICK x \in Foot : v = FootEnd(x) BY <1>10
    <3>2. x[2][3] <= by - depart - x[1].walk - x[3].walk
      <4>1. v = depart + x[1].walk + x[2][3] + x[3].walk BY <3>1
      <4>2. x[1].walk \in Nat /\ x[2][3] \in Nat /\ x[3].walk \in Nat BY <1>8
      <4> HIDE DEF Foot, A
      <4>q. QED BY <4>1, <4>2, <2>1
    <3>3. Within(walks, x[1].stop, x[3].stop, by - depart - x[1].walk - x[3].walk) BY <3>2, <1>8 DEF Within
    <3>q. QED BY <3>3, <1>8 DEF OnFoot, walks
  <2>2. ASSUME OnFoot(q, depart, by) PROVE \E v \in A : v <= by
    <3>1. PICK s \in q.sources, t \in q.targets :
             Within(walks, s.stop, t.stop, by - depart - s.walk - t.walk) BY <2>2 DEF OnFoot, walks
    <3>2. PICK y \in Nat : y <= by - depart - s.walk - t.walk /\ <<s.stop, t.stop, y>> \in walks BY <3>1 DEF Within
    <3> DEFINE x == <<s, <<s.stop, t.stop, y>>, t>>
    <3>3. x \in Foot BY <3>2
    <3>4. FootEnd(x) = depart + s.walk + y + t.walk OBVIOUS
    <3>5. FootEnd(x) <= by BY <3>4, <3>2, <1>7
    <3>6. FootEnd(x) \in A BY <3>3
    <3>q. QED BY <3>5, <3>6
  <2>q. QED BY <2>1, <2>2
<1>17. ASSUME NEW by \in Int PROVE (\E v \in B : v <= by) <=> \E i \in rides : Ends(q, i, by)
  <2>1. ASSUME NEW v \in B, v <= by PROVE \E i \in rides : Ends(q, i, by)
    <3>1. PICK x \in Onto : v = RideEnd(x) BY <1>11
    <3>2. q.rows[x[1]].arrTime \in Int BY <1>3, <1>9
    <3>3. x[2][3] <= by - q.rows[x[1]].arrTime - x[3].walk
      <4>1. v = q.rows[x[1]].arrTime + x[2][3] + x[3].walk BY <3>1
      <4>2. x[2][3] \in Nat /\ x[3].walk \in Nat BY <1>9
      <4> HIDE DEF Onto, B
      <4>q. QED BY <4>1, <4>2, <3>2, <2>1
    <3>4. Within(walks, q.rows[x[1]].to, x[3].stop, by - q.rows[x[1]].arrTime - x[3].walk) BY <3>3, <1>9 DEF Within
    <3>5. x[1] \in rides /\ Allowed(q, q.rows[x[1]].dropOff) /\ x[3] \in q.targets BY <1>9
    <3>q. QED BY <3>4, <3>5 DEF Ends, walks
  <2>2. ASSUME NEW i \in rides, Ends(q, i, by) PROVE \E v \in B : v <= by
    <3>1. PICK t \in q.targets : Within(walks, q.rows[i].to, t.stop, by - q.rows[i].arrTime - t.walk)
      BY <2>2 DEF Ends, walks
    <3>2. PICK y \in Nat : y <= by - q.rows[i].arrTime - t.walk /\ <<q.rows[i].to, t.stop, y>> \in walks
      BY <3>1 DEF Within
    <3> DEFINE x == <<i, <<q.rows[i].to, t.stop, y>>, t>>
    <3>3. x \in Onto BY <3>2, <2>2 DEF Ends
    <3>4. RideEnd(x) = q.rows[i].arrTime + y + t.walk OBVIOUS
    <3>5. q.rows[i].arrTime \in Int BY <1>3, <1>4
    <3>6. RideEnd(x) <= by BY <3>4, <3>5, <3>2, <1>7
    <3>7. RideEnd(x) \in B BY <3>3
    <3>q. QED BY <3>6, <3>7
  <2>q. QED BY <2>1, <2>2
<1>18. Infinity \in S OBVIOUS
<1> HIDE DEF A, B
<1>19. \A by \in Int : by < Infinity => (MinOf(S) <= by <=> Arrives(q, rides, depart, by))
  BY <1>15, <1>16, <1>17 DEF Arrives
<1> HIDE DEF S
<1>q. QED BY <1>1, <1>14, <1>18, <1>19 DEF rides, walks

(***************************************************************************)
(* The reference in the direction of the scan.                             *)
(***************************************************************************)

\* Row j of the directed query can be followed by row i: the change is judged
\* in the timetable as it is, not as it is scanned.
Joined(q, j, i) ==
  IF q.latest THEN Follows(q, Walks(q), Len(q.rows) + 1 - i, Len(q.rows) + 1 - j)
  ELSE Follows(q, Walks(q), j, i)

Joints(q) == {p \in (1 .. Len(q.rows)) \X (1 .. Len(q.rows)) : Joined(q, p[1], p[2])}

\* The rows of the directed query that its passenger can ride, and when such a
\* passenger can be at the end.
FirstRides(q) == {i \in 1 .. Len(q.rows) : Starts(Directed(q), i, Directed(q).at)}

Rides(q) == Reachable(FirstRides(q), Joints(q), Len(q.rows))

Gets(q, by) == Arrives(Directed(q), Rides(q), Directed(q).at, by)

\* To be able to leave a row last is, in the reversed query, to be able to ride
\* it first.
LEMMA ReversalStarts ==
  ASSUME NEW q \in Queries, NEW i \in 1 .. Len(q.rows), NEW x \in Int
  PROVE  /\ Starts(Reversal(q), i, -x) <=> Ends(q, Len(q.rows) + 1 - i, x)
         /\ Ends(Reversal(q), i, -x) <=> Starts(q, Len(q.rows) + 1 - i, x)
<1> DEFINE r == Reversal(q)
           j == Len(q.rows) + 1 - i
<1>1. /\ j \in 1 .. Len(q.rows) /\ r.rows[i].from = q.rows[j].to /\ r.rows[i].to = q.rows[j].from
      /\ r.rows[i].depTime = -q.rows[j].arrTime /\ r.rows[i].arrTime = -q.rows[j].depTime
      /\ r.rows[i].pickup = q.rows[j].dropOff /\ r.rows[i].dropOff = q.rows[j].pickup
      /\ q.rows[j].depTime \in Int /\ q.rows[j].arrTime \in Int
      /\ q.rows[j].from \in Stops /\ q.rows[j].to \in Stops
  BY ReversalRow
<1>2. r.sources = q.targets /\ r.targets = q.sources /\ r.conditional = q.conditional BY ReversalFields
<1>3. \A e \in q.sources \cup q.targets : e.stop \in Stops /\ e.walk \in Nat
  <2>1. q.sources \subseteq Endpoints /\ q.targets \subseteq Endpoints BY DEF Queries
  <2>q. QED BY <2>1 DEF Endpoints
<1>4. \A p : Allowed(r, p) <=> Allowed(q, p) BY <1>2 DEF Allowed
<1>5. \A a, b \in Stops, y \in Int : Within(Walks(r), b, a, y) <=> Within(Walks(q), a, b, y) BY ReversalWithin
<1> HIDE DEF r, j
<1>6. \A e \in q.targets : /\ r.rows[i].depTime - (-x) - e.walk = x - q.rows[j].arrTime - e.walk
                           /\ x - q.rows[j].arrTime - e.walk \in Int
  <2>1. TAKE e \in q.targets
  <2>2. e.walk \in Int /\ q.rows[j].arrTime \in Int /\ r.rows[i].depTime = -q.rows[j].arrTime BY <1>1, <1>3
  <2>3. \A u, v, y \in Int : (-v) - (-y) - u = y - v - u /\ y - v - u \in Int OBVIOUS
  <2>4. /\ (-q.rows[j].arrTime) - (-x) - e.walk = x - q.rows[j].arrTime - e.walk
        /\ x - q.rows[j].arrTime - e.walk \in Int
    BY <2>2, <2>3
  <2>q. QED BY <2>2, <2>4
<1>7. \A e \in q.sources : /\ (-x) - r.rows[i].arrTime - e.walk = q.rows[j].depTime - x - e.walk
                           /\ q.rows[j].depTime - x - e.walk \in Int
  <2>1. TAKE e \in q.sources
  <2>2. e.walk \in Int /\ q.rows[j].depTime \in Int /\ r.rows[i].arrTime = -q.rows[j].depTime BY <1>1, <1>3
  <2>3. \A u, v, y \in Int : (-y) - (-v) - u = v - y - u /\ v - y - u \in Int OBVIOUS
  <2>q. QED BY <2>2, <2>3
<1>8. Starts(r, i, -x) <=> Ends(q, j, x)
  <2>1. \A e \in q.targets : Within(Walks(r), e.stop, r.rows[i].from, r.rows[i].depTime - (-x) - e.walk)
                               <=> Within(Walks(q), q.rows[j].to, e.stop, x - q.rows[j].arrTime - e.walk)
    BY <1>1, <1>3, <1>5, <1>6
  <2>q. QED BY <2>1, <1>1, <1>2, <1>4 DEF Starts, Ends
<1>9. Ends(r, i, -x) <=> Starts(q, j, x)
  <2>1. \A e \in q.sources : Within(Walks(r), r.rows[i].to, e.stop, (-x) - r.rows[i].arrTime - e.walk)
                               <=> Within(Walks(q), e.stop, q.rows[j].from, q.rows[j].depTime - x - e.walk)
    BY <1>1, <1>3, <1>5, <1>7
  <2>q. QED BY <2>1, <1>1, <1>2, <1>4 DEF Starts, Ends
<1>q. QED BY <1>8, <1>9 DEF r, j

LEMMA ReversalOnFoot ==
  ASSUME NEW q \in Queries, NEW d \in Int, NEW a \in Int
  PROVE  OnFoot(Reversal(q), -a, -d) <=> OnFoot(q, d, a)
<1> DEFINE r == Reversal(q)
<1>2. r.sources = q.targets /\ r.targets = q.sources BY ReversalFields
<1>3. \A e \in q.sources \cup q.targets : e.stop \in Stops /\ e.walk \in Nat
  <2>1. q.sources \subseteq Endpoints /\ q.targets \subseteq Endpoints BY DEF Queries
  <2>q. QED BY <2>1 DEF Endpoints
<1>5. \A s, t \in Stops, y \in Int : Within(Walks(r), t, s, y) <=> Within(Walks(q), s, t, y) BY ReversalWithin
<1> HIDE DEF r
<1>6. \A s \in q.sources, t \in q.targets :
         Within(Walks(r), t.stop, s.stop, (-d) - (-a) - t.walk - s.walk)
           <=> Within(Walks(q), s.stop, t.stop, a - d - s.walk - t.walk)
  <2>1. TAKE s \in q.sources, t \in q.targets
  <2>2. (-d) - (-a) - t.walk - s.walk = a - d - s.walk - t.walk /\ a - d - s.walk - t.walk \in Int BY <1>3
  <2>q. QED BY <2>2, <1>3, <1>5
<1>7. OnFoot(r, -a, -d) <=> OnFoot(q, d, a) BY <1>6, <1>2 DEF OnFoot
<1>q. QED BY <1>7 DEF r

\* What is reached from some rows meets others if and only if what these are
\* reached from meets the first.
LEMMA ReachedBack ==
  ASSUME NEW n \in Nat, NEW F, F \subseteq 1 .. n, NEW G, G \subseteq 1 .. n,
         NEW S, S \subseteq (1 .. n) \X (1 .. n), NEW Z, Z \subseteq (1 .. n) \X (1 .. n),
         \A j, i \in 1 .. n : <<j, i>> \in Z <=> <<n + 1 - i, n + 1 - j>> \in S,
         NEW i \in Reachable(F, S, n), n + 1 - i \in G
  PROVE  \E j \in Reachable(G, Z, n) : n + 1 - j \in F
<1> DEFINE R == Reachable(F, S, n)
           B == Reachable(G, Z, n)
           X == {k \in 1 .. n : n + 1 - k \notin B}
<1>1. R \subseteq 1 .. n /\ \A Y : F \subseteq Y /\ Closed(S, Y) => R \subseteq Y BY ReachableFacts
<1>2. B \subseteq 1 .. n /\ G \subseteq B /\ Closed(Z, B) BY ReachableFacts
<1> HIDE DEF R, B
<1>3. Closed(S, X)
  <2> SUFFICES ASSUME NEW p \in S, p[1] \in X, p[2] \notin X PROVE FALSE BY DEF Closed
  <2>1. p = <<p[1], p[2]>> /\ p[1] \in 1 .. n /\ p[2] \in 1 .. n OBVIOUS
  <2> DEFINE a == n + 1 - p[2]
             b == n + 1 - p[1]
  <2>2. a \in 1 .. n /\ b \in 1 .. n /\ n + 1 - b = p[1] /\ n + 1 - a = p[2] BY <2>1
  <2>3. <<a, b>> \in Z BY <2>1, <2>2
  <2>4. a \in B BY <2>1
  <2>5. b \in B
    <3>1. <<a, b>>[1] = a /\ <<a, b>>[2] = b OBVIOUS
    <3> HIDE DEF a, b
    <3>q. QED BY <2>3, <2>4, <3>1, <1>2 DEF Closed
  <2>q. QED BY <2>5
<1>4. SUFFICES ASSUME \A j \in B : n + 1 - j \notin F PROVE FALSE BY DEF B
<1>5. F \subseteq X
  <2>1. \A k \in F : k \in 1 .. n /\ n + 1 - k \in 1 .. n /\ n + 1 - (n + 1 - k) = k OBVIOUS
  <2>q. QED BY <2>1, <1>4
<1>6. i \in X
  <2> HIDE DEF X
  <2>q. QED BY <1>1, <1>3, <1>5 DEF R
<1>q. QED BY <1>6, <1>2

\* Without a reversal the scan's passenger is the reference's; with one, what
\* the reference asks of setting out at d is what the scan asks of arriving.
LEMMA GetsForward ==
  ASSUME NEW q \in Queries, ~q.latest, NEW by \in Int
  PROVE  Gets(q, by) <=> Arrives(q, Rideable(q, Walks(q), q.at), q.at, by)
<1>1. Directed(q) = q BY DEF Directed
<1>2. DOMAIN q.rows = 1 .. Len(q.rows) /\ q.at \in Int BY DEF Queries
<1>3. Joints(q) = Paces(q, Walks(q)) BY <1>2 DEF Joints, Paces, Joined
<1>4. Rides(q) = Rideable(q, Walks(q), q.at) BY <1>1, <1>2, <1>3, RideableFacts DEF Rides, FirstRides
<1>q. QED BY <1>1, <1>4 DEF Gets

LEMMA GetsBackward ==
  ASSUME NEW q \in Queries, q.latest, NEW d \in Int
  PROVE  Gets(q, -d) <=> Arrives(q, Rideable(q, Walks(q), d), d, q.at)
<1> DEFINE r == Reversal(q)
           n == Len(q.rows)
           F == {i \in 1 .. n : Starts(q, i, d)}
           G == FirstRides(q)
           S == Paces(q, Walks(q))
           Z == Joints(q)
           R == Reachable(F, S, n)
           B == Reachable(G, Z, n)
<1>1. Directed(q) = r /\ r.at = -q.at /\ q.at \in Int /\ n \in Nat /\ DOMAIN q.rows = 1 .. n
  <2>1. r.at = -q.at BY ReversalFields
  <2>q. QED BY <2>1 DEF Directed, Queries
<1>2. Rideable(q, Walks(q), d) = R BY <1>1, RideableFacts
<1>3. S \subseteq (1 .. n) \X (1 .. n) /\ Z \subseteq (1 .. n) \X (1 .. n) /\ F \subseteq 1 .. n /\ G \subseteq 1 .. n
  BY <1>1 DEF Paces, Joints, FirstRides
<1>4. \A i \in 1 .. n : n + 1 - i \in 1 .. n /\ n + 1 - (n + 1 - i) = i BY <1>1
<1>5. \A j, i \in 1 .. n : <<j, i>> \in Z <=> <<n + 1 - i, n + 1 - j>> \in S
  BY <1>1, <1>4 DEF Joints, Paces, Joined
<1>6. \A j, i \in 1 .. n : <<j, i>> \in S <=> <<n + 1 - i, n + 1 - j>> \in Z
  <2>1. TAKE j, i \in 1 .. n
  <2>2. <<n + 1 - i, n + 1 - j>> \in Z <=> <<n + 1 - (n + 1 - j), n + 1 - (n + 1 - i)>> \in S BY <1>4, <1>5
  <2>q. QED BY <2>2, <1>4
<1>7. R \subseteq 1 .. n /\ B \subseteq 1 .. n
  <2> HIDE DEF F, G, S, Z
  <2>q. QED BY <1>1, <1>3, ReachableFacts
<1>8. \A i \in 1 .. n : /\ i \in G <=> Ends(q, n + 1 - i, q.at)
                        /\ Ends(r, i, -d) <=> n + 1 - i \in F
  <2>1. TAKE i \in 1 .. n
  <2>2. Starts(r, i, -q.at) <=> Ends(q, n + 1 - i, q.at) BY <1>1, ReversalStarts
  <2>3. Ends(r, i, -d) <=> Starts(q, n + 1 - i, d) BY ReversalStarts
  <2>q. QED BY <2>2, <2>3, <1>1, <1>4 DEF FirstRides
<1> HIDE DEF r, n, F, G, S, Z
<1>9. (\E i \in R : Ends(q, i, q.at)) <=> \E j \in B : Ends(r, j, -d)
  <2>1. ASSUME NEW i \in R, Ends(q, i, q.at) PROVE \E j \in B : Ends(r, j, -d)
    <3>1. i \in 1 .. n BY <1>7
    <3>2. n + 1 - i \in G BY <3>1, <2>1, <1>4, <1>8
    <3>3. PICK j \in B : n + 1 - j \in F BY <3>2, <1>1, <1>3, <1>5, ReachedBack
    <3>q. QED BY <3>3, <1>7, <1>8
  <2>2. ASSUME NEW j \in B, Ends(r, j, -d) PROVE \E i \in R : Ends(q, i, q.at)
    <3>1. j \in 1 .. n BY <1>7
    <3>2. n + 1 - j \in F BY <3>1, <2>2, <1>8
    <3>3. PICK i \in R : n + 1 - i \in G BY <3>2, <1>1, <1>3, <1>6, ReachedBack
    <3>4. i \in 1 .. n BY <1>7
    <3>q. QED BY <3>3, <3>4, <1>4, <1>8
  <2>q. QED BY <2>1, <2>2
<1>10. OnFoot(r, -q.at, -d) <=> OnFoot(q, d, q.at) BY <1>1, ReversalOnFoot DEF r
<1>11. Rides(q) = B BY DEF Rides, G, Z, n
<1> HIDE DEF R, B
<1>q. QED BY <1>1, <1>2, <1>9, <1>10, <1>11 DEF Gets, Arrives

(***************************************************************************)
(* Changes, in either direction.                                           *)
(***************************************************************************)

\* The best rule that matches leaves the time for the change.
ChampionAllows(rules, ms, alight, dep) ==
  ms # {} => /\ rules[Champion(rules, ms)].type # "forbidden"
             /\ rules[Champion(rules, ms)].type = "minimum"
                  => alight + rules[Champion(rules, ms)].min <= dep

\* A rider is ready in time when at the stop in time and not kept by that rule.
LEMMA ReadyMeans ==
  ASSUME NEW rules \in Seq(Rules), NEW ms, ms \subseteq DOMAIN rules,
         NEW arrival \in Int, NEW alight \in Int, NEW dep \in Int, dep < Infinity
  PROVE  ReadyBy(rules, ms, arrival, alight) <= dep
           <=> arrival <= dep /\ ChampionAllows(rules, ms, alight, dep)
<1> DEFINE c == Champion(rules, ms)
<1>0. ms \subseteq Nat /\ Infinity \in Int BY ConstantsAssumption
<1>1. CASE ms = {} BY <1>1 DEF ReadyBy, ChampionAllows
<1>2. CASE ms # {}
  <2>1. c \in ms BY <1>0, <1>2, ChampionFacts
  <2>2. rules[c] \in Rules BY <2>1
  <2>3. rules[c].type \in {"recommended", "minimum", "forbidden"} /\ rules[c].min \in Nat
    BY <2>2 DEF Rules
  <2>4. ReadyBy(rules, ms, arrival, alight) = ReadyUnder(rules[c], arrival, alight) BY <1>2 DEF ReadyBy
  <2>5. ChampionAllows(rules, ms, alight, dep)
          <=> rules[c].type # "forbidden" /\ (rules[c].type = "minimum" => alight + rules[c].min <= dep)
    BY <1>2 DEF ChampionAllows
  <2> HIDE DEF c
  <2>6. CASE rules[c].type = "recommended" BY <2>4, <2>5, <2>6 DEF ReadyUnder
  <2>7. CASE rules[c].type = "minimum"
    <3>1. ReadyUnder(rules[c], arrival, alight) = MaxOf({arrival, alight + rules[c].min}) BY <2>7 DEF ReadyUnder
    <3>2. alight + rules[c].min \in Int BY <2>3
    <3>3. /\ MaxOf({arrival, alight + rules[c].min}) \in {arrival, alight + rules[c].min}
          /\ MaxOf({arrival, alight + rules[c].min}) >= arrival
          /\ MaxOf({arrival, alight + rules[c].min}) >= alight + rules[c].min
      BY <3>2, MaxOfTwo
    <3>q. QED BY <3>1, <3>2, <3>3, <2>4, <2>5, <2>7
  <2>8. CASE rules[c].type = "forbidden" BY <2>4, <2>5, <2>8, <1>0 DEF ReadyUnder
  <2>q. QED BY <2>3, <2>6, <2>7, <2>8
<1>q. QED BY <1>1, <1>2

\* One who gets off and arrives earlier is ready whenever the other is.
LEMMA ReadySooner ==
  ASSUME NEW rules \in Seq(Rules), NEW ms, ms \subseteq DOMAIN rules,
         NEW arrival \in Int, NEW alight \in Int, NEW dep \in Int, dep < Infinity,
         ReadyBy(rules, ms, arrival, alight) <= dep,
         NEW a \in Int, NEW g \in Int, a <= arrival, g <= alight
  PROVE  ReadyBy(rules, ms, a, g) <= dep
<1>1. arrival <= dep /\ ChampionAllows(rules, ms, alight, dep) BY ReadyMeans
<1>2. ChampionAllows(rules, ms, g, dep)
  <2> SUFFICES ASSUME ms # {}, rules[Champion(rules, ms)].type = "minimum"
               PROVE  g + rules[Champion(rules, ms)].min <= dep
    BY <1>1 DEF ChampionAllows
  <2>1. alight + rules[Champion(rules, ms)].min <= dep BY <1>1 DEF ChampionAllows
  <2>2. ms \subseteq Nat OBVIOUS
  <2>3. Champion(rules, ms) \in DOMAIN rules BY <2>2, ChampionFacts
  <2>4. rules[Champion(rules, ms)] \in Rules BY <2>3
  <2>5. rules[Champion(rules, ms)].min \in Nat BY <2>4 DEF Rules
  <2>q. QED BY <2>1, <2>5
<1>3. a <= dep BY <1>1
<1>q. QED BY <1>2, <1>3, ReadyMeans

\* A reversed rule is as specific, has the same effect, and matches a change
\* seen from its other end.
LEMMA ReversalRules ==
  ASSUME NEW q \in Queries
  PROVE  LET d == Reversal(q)
         IN  /\ DOMAIN d.rules = DOMAIN q.rules
             /\ \A i \in DOMAIN q.rules : /\ d.rules[i].type = q.rules[i].type /\ d.rules[i].min = q.rules[i].min
                                          /\ Specificity(d.rules[i]) = Specificity(q.rules[i])
             /\ \A t, s, u, z : MatchingRules(d.rules, t, s, u, z) = MatchingRules(q.rules, u, z, t, s)
<1> DEFINE d == Reversal(q)
<1>1. d.rules = [i \in DOMAIN q.rules |-> ReversedRule(q.rules[i])] BY ReversalFields
<1>2. \A i \in DOMAIN q.rules : q.rules[i] \in Rules BY DEF Queries
<1>3. ASSUME NEW i \in DOMAIN q.rules
      PROVE  /\ d.rules[i].type = q.rules[i].type /\ d.rules[i].min = q.rules[i].min
             /\ d.rules[i].fromStop = q.rules[i].toStop /\ d.rules[i].toStop = q.rules[i].fromStop
             /\ d.rules[i].fromRoute = q.rules[i].toRoute /\ d.rules[i].toRoute = q.rules[i].fromRoute
             /\ d.rules[i].fromTrip = q.rules[i].toTrip /\ d.rules[i].toTrip = q.rules[i].fromTrip
  <2> DEFINE r == q.rules[i]
  <2>1. d.rules[i] = ReversedRule(r) BY <1>1
  <2>2. r \in Rules BY <1>2
  <2> HIDE DEF r, d
  <2>3. /\ ReversedRule(r).type = r.type /\ ReversedRule(r).min = r.min
        /\ ReversedRule(r).fromStop = r.toStop /\ ReversedRule(r).toStop = r.fromStop
        /\ ReversedRule(r).fromRoute = r.toRoute /\ ReversedRule(r).toRoute = r.fromRoute
        /\ ReversedRule(r).fromTrip = r.toTrip /\ ReversedRule(r).toTrip = r.fromTrip
    BY <2>2, ReversedFields
  <2>q. QED BY <2>1, <2>3 DEF r
<1> HIDE DEF d
<1>4. DOMAIN d.rules = DOMAIN q.rules BY <1>1
<1>5. ASSUME NEW t, NEW s, NEW u, NEW z
      PROVE  MatchingRules(d.rules, t, s, u, z) = MatchingRules(q.rules, u, z, t, s)
  <2>1. \A i \in DOMAIN q.rules : RuleMatches(d.rules[i], t, s, u, z) <=> RuleMatches(q.rules[i], u, z, t, s)
    BY <1>3 DEF RuleMatches
  <2>q. QED BY <1>4, <2>1 DEF MatchingRules
<1>6. \A i \in DOMAIN q.rules : Specificity(d.rules[i]) = Specificity(q.rules[i])
  BY SMTT(30), <1>3 DEF Specificity
<1>q. QED BY <1>3, <1>4, <1>5, <1>6 DEF d

\* The rules that speak of a change from row a to row b.
ChangeRules(q, a, b) == MatchingRules(q.rules, q.rows[a].trip, q.rows[a].to, q.rows[b].trip, q.rows[b].from)

\* Rows a and b of a query, with a walk between them within x.
Connects(q, a, b, x) ==
  /\ Allowed(q, q.rows[a].dropOff) /\ Allowed(q, q.rows[b].pickup)
  /\ Within(Walks(q), q.rows[a].to, q.rows[b].from, x)

\* To change is to walk in time and not to be kept by the best rule.
LEMMA ChangeMeans ==
  ASSUME NEW q, WellFormed(q), NEW a \in 1 .. Len(q.rows), NEW b \in 1 .. Len(q.rows)
  PROVE  MayChange(q, Walks(q), a, b)
           <=> /\ Connects(q, a, b, q.rows[b].depTime - q.rows[a].arrTime)
               /\ ChampionAllows(q.rules, ChangeRules(q, a, b), q.rows[a].arrTime, q.rows[b].depTime)
<1> DEFINE w == Walks(q)
           s == q.rows[a].to
           t == q.rows[b].from
           arr == q.rows[a].arrTime
           dep == q.rows[b].depTime
           ms == ChangeRules(q, a, b)
<1>1. /\ q \in Queries /\ q.rules \in Seq(Rules) /\ q.rows[a] \in Rows /\ q.rows[b] \in Rows
      /\ a \in DOMAIN q.rows /\ b \in DOMAIN q.rows /\ q.walk \subseteq Edges
  BY DEF WellFormed, Queries
<1>2. arr \in Int /\ dep \in Int /\ s \in Stops /\ t \in Stops BY <1>1, RowFields
<1>3. dep < Infinity
  <2>1. q.rows[b].depTime <= q.rows[b].arrTime /\ q.rows[b].arrTime < Infinity /\ q.rows[b].arrTime \in Int
    BY <1>1, RowFields DEF WellFormed
  <2>q. QED BY <2>1, <1>2, ConstantsAssumption
<1>4. ms \subseteq DOMAIN q.rules BY DEF ChangeRules, MatchingRules
<1>5. w \subseteq Hops BY <1>1, WalksAreWalks
<1>6. \A n : n \in Walking(w, s, t) <=> n \in Nat /\ <<s, t, n>> \in w BY <1>5 DEF Walking, Hops
<1>7. MayChange(q, w, a, b)
        <=> /\ Allowed(q, q.rows[a].dropOff) /\ Allowed(q, q.rows[b].pickup)
            /\ \E n \in Walking(w, s, t) : ReadyBy(q.rules, ms, arr + n, arr) <= dep
  BY DEF MayChange, ChangeRules
<1> DEFINE Q == q.rules
<1> HIDE DEF w, s, t, arr, dep, ms
<1>8. \A n \in Nat : ReadyBy(q.rules, ms, arr + n, arr) <= dep
                       <=> n <= dep - arr /\ ChampionAllows(q.rules, ms, arr, dep)
  <2>1. TAKE n \in Nat
  <2>2. arr + n \in Int BY <1>2
  <2>3. ReadyBy(q.rules, ms, arr + n, arr) <= dep
                       <=> arr + n <= dep /\ ChampionAllows(q.rules, ms, arr, dep)
    BY <2>2, <1>1, <1>2, <1>3, <1>4, ReadyMeans
  <2>4. arr + n <= dep <=> n <= dep - arr BY <1>2
  <2>q. QED BY <2>3, <2>4
<1>9. (\E n \in Walking(w, s, t) : ReadyBy(q.rules, ms, arr + n, arr) <= dep)
        <=> Within(w, s, t, dep - arr) /\ ChampionAllows(q.rules, ms, arr, dep)
  BY <1>6, <1>8 DEF Within
<1>q. QED BY <1>7, <1>9 DEF w, s, t, arr, dep, ms, Connects

\* The change from row j to row i of the directed query.
Turns(q, j, i) ==
  IF q.latest THEN MayChange(q, Walks(q), Len(q.rows) + 1 - i, Len(q.rows) + 1 - j)
  ELSE MayChange(q, Walks(q), j, i)

\* The change as the scan can judge it: on foot in time, and by the best rule
\* in the order in which the scan considers them.
Allows(d, j, i) == ChampionAllows(d.rules, ChangeRules(d, j, i), d.rows[j].arrTime, d.rows[i].depTime)

OnTime(d, j, i) == Connects(d, j, i, d.rows[i].depTime - d.rows[j].arrTime)

\* Both judge alike when no rules contradict each other there.
LEMMA TurnsMean ==
  ASSUME NEW q, WellFormed(q), NEW j \in 1 .. Len(q.rows), NEW i \in 1 .. Len(q.rows)
  PROVE  LET d == Directed(q)
         IN  /\ Turns(q, j, i) => OnTime(d, j, i)
             /\ ~Conflicting(d.rules, ChangeRules(d, j, i)) => (Turns(q, j, i) <=> OnTime(d, j, i) /\ Allows(d, j, i))
<1>1. CASE ~q.latest
  <2>1. Turns(q, j, i) <=> OnTime(q, j, i) /\ Allows(q, j, i)
    BY <1>1, ChangeMeans DEF Turns, OnTime, Allows
  <2>q. QED BY <2>1, <1>1 DEF Directed
<1>2. CASE q.latest
  <2> DEFINE d == Reversal(q)
             n == Len(q.rows)
             a == n + 1 - i
             b == n + 1 - j
             ms == ChangeRules(d, j, i)
             arr == d.rows[j].arrTime
             dep == d.rows[i].depTime
             c == Champion(d.rules, ms)
             k == Champion(q.rules, ms)
  <2>1. q \in Queries BY DEF WellFormed
  <2>2. /\ a \in 1 .. n /\ b \in 1 .. n /\ d.conditional = q.conditional
        /\ d.rows[i].pickup = q.rows[a].dropOff /\ d.rows[i].from = q.rows[a].to /\ q.rows[a].to \in Stops
        /\ d.rows[i].trip = q.rows[a].trip /\ dep = -q.rows[a].arrTime /\ q.rows[a].arrTime \in Int
    BY <2>1, ReversalRow, ReversalFields
  <2>3. /\ d.rows[j].dropOff = q.rows[b].pickup /\ d.rows[j].to = q.rows[b].from /\ q.rows[b].from \in Stops
        /\ d.rows[j].trip = q.rows[b].trip /\ arr = -q.rows[b].depTime /\ q.rows[b].depTime \in Int
    BY <2>1, ReversalRow
  <2>4. /\ DOMAIN d.rules = DOMAIN q.rules
        /\ \A x \in DOMAIN q.rules : /\ d.rules[x].type = q.rules[x].type /\ d.rules[x].min = q.rules[x].min
                                     /\ Specificity(d.rules[x]) = Specificity(q.rules[x])
        /\ \A t, s, u, z : MatchingRules(d.rules, t, s, u, z) = MatchingRules(q.rules, u, z, t, s)
    BY <2>1, ReversalRules
  <2>5. Turns(q, j, i) <=> MayChange(q, Walks(q), a, b) BY <1>2 DEF Turns
  <2>6. \A x \in Int : Within(Walks(d), q.rows[b].from, q.rows[a].to, x)
                         <=> Within(Walks(q), q.rows[a].to, q.rows[b].from, x)
    BY <2>1, <2>2, <2>3, ReversalWithin
  <2> HIDE DEF d, n, a, b, c, k, arr, dep
  <2>7. ms = ChangeRules(q, a, b) BY <2>2, <2>3, <2>4 DEF ChangeRules
  <2>8. MayChange(q, Walks(q), a, b)
           <=> /\ Connects(q, a, b, q.rows[b].depTime - q.rows[a].arrTime)
               /\ ChampionAllows(q.rules, ms, q.rows[a].arrTime, q.rows[b].depTime)
    BY <2>2, <2>7, ChangeMeans DEF n, b
  <2>9. Connects(q, a, b, q.rows[b].depTime - q.rows[a].arrTime) <=> OnTime(d, j, i)
    <3>1. /\ q.rows[b].depTime - q.rows[a].arrTime = dep - arr
          /\ q.rows[b].depTime - q.rows[a].arrTime \in Int
      <4>1. \A u, v \in Int : (-u) - (-v) = v - u /\ v - u \in Int OBVIOUS
      <4>q. QED BY <4>1, <2>2, <2>3
    <3>2. \A p : Allowed(d, p) <=> Allowed(q, p) BY <2>2 DEF Allowed
    <3>q. QED BY <3>1, <3>2, <2>2, <2>3, <2>6 DEF Connects, OnTime, arr, dep
  <2>10. ASSUME ~Conflicting(d.rules, ms)
         PROVE  ChampionAllows(q.rules, ms, q.rows[a].arrTime, q.rows[b].depTime) <=> Allows(d, j, i)
    <3>1. CASE ms = {} BY <3>1 DEF ChampionAllows, Allows
    <3>2. CASE ms # {}
      <4>1. ms \subseteq DOMAIN q.rules /\ ms \subseteq Nat
        <5>1. DOMAIN q.rules \subseteq Nat BY <2>1 DEF Queries
        <5>2. ms \subseteq DOMAIN q.rules BY <2>4 DEF ChangeRules, MatchingRules
        <5>q. QED BY <5>1, <5>2
      <4> HIDE DEF ms
      <4>2. k \in ms /\ Strongest(q.rules, ms, k) /\ c \in ms BY <4>1, <3>2, ChampionFacts DEF k, c
      <4>3. Strongest(d.rules, ms, k) BY <4>1, <4>2, <2>4 DEF Strongest
      <4>4. SameEffect(d.rules[c], d.rules[k]) BY <4>1, <4>3, <2>10, StrongestAgree DEF c
      <4>5. /\ d.rules[c].type = q.rules[k].type /\ d.rules[c].min = q.rules[k].min
        BY <4>1, <4>2, <4>4, <2>4 DEF SameEffect
      <4>6. q.rules[k].min \in Int
        <5>1. q.rules[k] \in Rules BY <2>1, <4>1, <4>2 DEF Queries
        <5>q. QED BY <5>1 DEF Rules
      <4>7. q.rows[a].arrTime + q.rules[k].min <= q.rows[b].depTime <=> arr + d.rules[c].min <= dep
        <5>1. \A u, v, m \in Int : u + m <= v <=> (-v) + m <= -u OBVIOUS
        <5>q. QED BY <5>1, <4>5, <4>6, <2>2, <2>3
      <4>q. QED BY <4>5, <4>7, <3>2 DEF ChampionAllows, Allows, ms, c, k, arr, dep
    <3>q. QED BY <3>1, <3>2
  <2>11. Directed(q) = d BY <1>2 DEF Directed, d
  <2>q. QED BY <2>5, <2>8, <2>9, <2>10, <2>11
<1>q. QED BY <1>1, <1>2

\* One ride follows another when it is the same one, continues it, or is
\* changed to.
LEMMA JoinedMeans ==
  ASSUME NEW q, WellFormed(q), NEW j \in 1 .. Len(q.rows), NEW i \in 1 .. Len(q.rows)
  PROVE  LET d == Directed(q)
         IN  Joined(q, j, i) <=> \/ Adjoin(d, j, i)
                                 \/ IsLast(d, j) /\ IsFirst(d, i) /\ MayStay(d, d.rows[j], d.rows[i])
                                 \/ Turns(q, j, i)
<1>1. CASE ~q.latest BY <1>1 DEF Joined, Turns, Follows, Directed
<1>2. CASE q.latest
  <2> DEFINE d == Reversal(q)
             n == Len(q.rows)
             a == n + 1 - i
             b == n + 1 - j
  <2>1. q \in Queries /\ n \in Nat BY DEF WellFormed, Queries
  <2>2. Joined(q, j, i) <=> \/ Adjoin(q, a, b)
                            \/ IsLast(q, a) /\ IsFirst(q, b) /\ MayStay(q, q.rows[a], q.rows[b])
                            \/ Turns(q, j, i)
    BY <1>2 DEF Joined, Follows, Turns
  <2>3. IsLast(q, a) /\ IsFirst(q, b) /\ MayStay(q, q.rows[a], q.rows[b])
          <=> IsLast(d, j) /\ IsFirst(d, i) /\ MayStay(d, d.rows[j], d.rows[i])
    BY <2>1, ReversalEnds, ReversalMayStay
  <2>4. Adjoin(q, a, b) <=> Adjoin(d, j, i)
    <3>1. CASE i = j + 1
      <4>1. j \in 1 .. n - 1 /\ a = n - j /\ b = n - j + 1
        <5>1. j \in 1 .. n /\ i \in 1 .. n OBVIOUS
        <5> HIDE DEF n
        <5>q. QED BY <5>1, <3>1, <2>1
      <4> HIDE DEF n, d, a, b
      <4>2. Adjoin(d, j, j + 1) <=> Adjoin(q, n - j, n - j + 1) BY <4>1, <2>1, ReversalAdjoin DEF n, d
      <4>q. QED BY <4>1, <4>2, <3>1
    <3>2. CASE i # j + 1
      <4>1. b # a + 1 BY <3>2, <2>1
      <4>q. QED BY <4>1, <3>2 DEF Adjoin
    <3>q. QED BY <3>1, <3>2
  <2>5. Directed(q) = d BY <1>2 DEF Directed
  <2>q. QED BY <2>2, <2>3, <2>4, <2>5
<1>q. QED BY <1>1, <1>2

\* What can be ridden after a row departs no earlier than it arrives.
LEMMA JoinedTakesTime ==
  ASSUME NEW q, WellFormed(q), NEW j \in 1 .. Len(q.rows), NEW i \in 1 .. Len(q.rows), Joined(q, j, i)
  PROVE  /\ Directed(q).rows[j].arrTime <= Directed(q).rows[i].depTime
         /\ Directed(q).rows[j].depTime <= Directed(q).rows[i].depTime
         /\ Directed(q).rows[j].depTime \in Int /\ Directed(q).rows[j].arrTime \in Int
         /\ Directed(q).rows[i].depTime \in Int /\ Directed(q).rows[i].arrTime \in Int
         /\ Directed(q).rows[j].depTime <= Directed(q).rows[j].arrTime
<1> DEFINE d == Directed(q)
           n == Len(q.rows)
<1>1. WellFormed(d) /\ q \in Queries BY ReversalWellFormed DEF Directed, WellFormed
<1>2. Len(d.rows) = n /\ DOMAIN d.rows = 1 .. n /\ d.rows \in Seq(Rows) /\ n \in Nat /\ DOMAIN q.rows = 1 .. n
  BY <1>1, ReversalRows DEF Directed, Queries
<1>3. /\ d.rows[j].depTime \in Int /\ d.rows[j].arrTime \in Int
      /\ d.rows[i].depTime \in Int /\ d.rows[i].arrTime \in Int
      /\ d.rows[j].depTime <= d.rows[j].arrTime
  <2>1. d.rows[j] \in Rows /\ d.rows[i] \in Rows BY <1>2
  <2>q. QED BY <2>1, <1>1, <1>2, RowFields DEF WellFormed
<1>4. d.rows[j].arrTime <= d.rows[i].depTime
  <2>1. CASE Adjoin(d, j, i) BY <2>1 DEF Adjoin
  <2>2. CASE MayStay(d, d.rows[j], d.rows[i]) BY <2>2 DEF MayStay
  <2>3. CASE Turns(q, j, i)
    <3>1. OnTime(d, j, i) BY <2>3, TurnsMean
    <3>2. Within(Walks(d), d.rows[j].to, d.rows[i].from, d.rows[i].depTime - d.rows[j].arrTime)
      BY <3>1 DEF OnTime, Connects
    <3>3. d.rows[i].depTime - d.rows[j].arrTime \in Int BY <1>3
    <3>4. d.rows[i].depTime - d.rows[j].arrTime >= 0 BY <3>2, <3>3, WithinFacts
    <3>q. QED BY <3>4, <1>3
  <2>q. QED BY <2>1, <2>2, <2>3, JoinedMeans
<1>q. QED BY <1>3, <1>4

\* In a sequenced timetable, what can be ridden after a row comes after it in
\* the order of the scan.
LEMMA JoinedInOrder ==
  ASSUME NEW q, WellFormed(q), Sequenced(q), NEW j \in 1 .. Len(q.rows), NEW i \in 1 .. Len(q.rows),
         Joined(q, j, i), i # j
  PROVE  /\ Before(Directed(q).rows, j, i)
         /\ Directed(q).rows[j].arrTime <= Directed(q).rows[i].depTime
<1> DEFINE d == Directed(q)
           n == Len(q.rows)
<1>1. WellFormed(d) /\ q \in Queries BY ReversalWellFormed DEF Directed, WellFormed
<1>2. Len(d.rows) = n /\ DOMAIN d.rows = 1 .. n /\ d.rows \in Seq(Rows) /\ n \in Nat /\ DOMAIN q.rows = 1 .. n
  BY <1>1, ReversalRows DEF Directed, Queries
<1>3. /\ d.rows[j].depTime \in Int /\ d.rows[j].arrTime \in Int
      /\ d.rows[i].depTime \in Int /\ d.rows[i].arrTime \in Int
      /\ d.rows[j].depTime <= d.rows[j].arrTime
  <2>1. d.rows[j] \in Rows /\ d.rows[i] \in Rows BY <1>2
  <2>q. QED BY <2>1, <1>1, <1>2, RowFields DEF WellFormed
<1>4. d.rows[j].arrTime <= d.rows[i].depTime BY JoinedTakesTime
<1>5. i < j => d.rows[i].depTime # d.rows[j].depTime
  <2> SUFFICES ASSUME i < j PROVE d.rows[i].depTime # d.rows[j].depTime OBVIOUS
  <2>1. \A k, l \in 1 .. n : l < k /\ Follows(q, Walks(q), k, l) =>
          q.rows[k].depTime # q.rows[l].depTime /\ q.rows[k].arrTime # q.rows[l].arrTime
    BY <1>2 DEF Sequenced
  <2>2. CASE ~q.latest BY <2>1, <2>2 DEF Joined, Directed
  <2>3. CASE q.latest
    <3> DEFINE a == n + 1 - i
               b == n + 1 - j
    <3>1. /\ d.rows[i].depTime = -q.rows[a].arrTime /\ d.rows[j].depTime = -q.rows[b].arrTime
          /\ q.rows[a].arrTime \in Int /\ q.rows[b].arrTime \in Int
          /\ a \in 1 .. n /\ b \in 1 .. n
      BY <2>3, <1>1, ReversalRow DEF Directed
    <3>2. b < a
      <4>1. j \in 1 .. n /\ i \in 1 .. n OBVIOUS
      <4> HIDE DEF n
      <4>q. QED BY <4>1, <1>2
    <3>3. Follows(q, Walks(q), a, b) BY <2>3 DEF Joined
    <3> HIDE DEF a, b, n, d
    <3>4. q.rows[a].arrTime # q.rows[b].arrTime BY <2>1, <3>1, <3>2, <3>3
    <3>5. \A u, v \in Int : u # v => -u # -v OBVIOUS
    <3>6. -q.rows[a].arrTime # -q.rows[b].arrTime BY <3>1, <3>4, <3>5
    <3>q. QED BY <3>1, <3>6
  <2>q. QED BY <2>2, <2>3
<1>6. j < i \/ i < j OBVIOUS
<1> HIDE DEF d
<1>7. Before(d.rows, j, i) BY <1>3, <1>4, <1>5, <1>6 DEF Before
<1>q. QED BY <1>4, <1>7 DEF d

\* The rows that can be ridden.
LEMMA RidesFacts ==
  ASSUME NEW q, WellFormed(q)
  PROVE  /\ Rides(q) \subseteq 1 .. Len(q.rows) /\ FirstRides(q) \subseteq Rides(q)
         /\ \A j \in Rides(q), i \in 1 .. Len(q.rows) : Joined(q, j, i) => i \in Rides(q)
         /\ \A i \in Rides(q) : i \in FirstRides(q) \/ \E j \in Rides(q) : j # i /\ Joined(q, j, i)
         /\ \A i \in Rides(q) : Directed(q).rows[i].depTime >= Directed(q).at
<1> DEFINE n == Len(q.rows)
           R == Rides(q)
           F == FirstRides(q)
           S == Joints(q)
<1>1. n \in Nat /\ F \subseteq 1 .. n /\ S \subseteq (1 .. n) \X (1 .. n)
  BY DEF WellFormed, Queries, FirstRides, Joints
<1>2. \A p : p \in S <=> p \in (1 .. n) \X (1 .. n) /\ Joined(q, p[1], p[2]) BY DEF Joints
<1>3. R = Reachable(F, S, n) BY DEF Rides
<1> HIDE DEF n, R, F, S
<1>4. /\ R \subseteq 1 .. n /\ F \subseteq R /\ Closed(S, R)
      /\ \A X : F \subseteq X /\ Closed(S, X) => R \subseteq X
  BY <1>1, <1>3, ReachableFacts
<1>5. ASSUME NEW j \in R, NEW i \in 1 .. n, Joined(q, j, i) PROVE i \in R
  <2>1. <<j, i>> \in S BY <1>2, <1>4, <1>5
  <2>q. QED BY <2>1, <1>4, <1>5 DEF Closed
<1>6. ASSUME NEW i \in R, i \notin F PROVE \E j \in R : j # i /\ Joined(q, j, i)
  <2> SUFFICES ASSUME \A j \in R : j # i => ~Joined(q, j, i) PROVE FALSE OBVIOUS
  <2> DEFINE X == R \ {i}
  <2>1. F \subseteq X BY <1>4, <1>6
  <2>2. Closed(S, X)
    <3> SUFFICES ASSUME NEW p \in S, p[1] \in X PROVE p[2] \in X BY DEF Closed
    <3>1. p[2] \in R /\ Joined(q, p[1], p[2]) BY <1>2, <1>4 DEF Closed
    <3>2. p[2] # i BY <3>1
    <3>q. QED BY <3>1, <3>2
  <2>3. R \subseteq X
    <3> HIDE DEF X
    <3>q. QED BY <2>1, <2>2, <1>4
  <2>q. QED BY <2>3, <1>6
<1>7. R \subseteq {i \in 1 .. n : Directed(q).rows[i].depTime >= Directed(q).at}
  <2> DEFINE d == Directed(q)
             X == {i \in 1 .. n : d.rows[i].depTime >= d.at}
  <2>1. WellFormed(d) BY ReversalWellFormed DEF Directed
  <2>2. d.at \in Int /\ d.sources \subseteq Endpoints /\ d.rows \in Seq(Rows) /\ DOMAIN d.rows = 1 .. n
    BY <2>1, ReversalRows DEF WellFormed, Queries, Directed, n
  <2>r. \A i \in 1 .. n : d.rows[i].depTime \in Int
    <3> DEFINE z == d.rows
    <3>0. DOMAIN z = 1 .. n BY <2>2
    <3>1. z \in Seq(Rows) BY <2>2
    <3> HIDE DEF z, n
    <3>2. \A i \in DOMAIN z : z[i] \in Rows BY <3>1
    <3>3. \A i \in DOMAIN z : z[i].depTime \in Int BY <3>2, RowFields
    <3>4. \A i \in 1 .. n : z[i].depTime \in Int BY <3>0, <3>3
    <3>q. QED BY <3>4 DEF z
  <2>3. ASSUME NEW i \in F PROVE i \in X
    <3>2. i \in 1 .. n /\ Starts(d, i, d.at) BY DEF F, FirstRides, n
    <3>3. PICK s \in d.sources : Within(Walks(d), s.stop, d.rows[i].from, d.rows[i].depTime - d.at - s.walk)
      BY <3>2 DEF Starts
    <3>4. s.walk \in Nat BY <2>2 DEF Endpoints
    <3>5. d.rows[i].depTime \in Int BY <2>r, <3>2
    <3>6. d.rows[i].depTime - d.at - s.walk \in Int BY <2>2, <3>4, <3>5
    <3>7. d.rows[i].depTime - d.at - s.walk >= 0 BY <3>3, <3>6, WithinFacts
    <3>8. d.rows[i].depTime >= d.at BY <2>2, <3>4, <3>5, <3>7
    <3>q. QED BY <3>2, <3>8
  <2>4. Closed(S, X)
    <3> SUFFICES ASSUME NEW p \in S, p[1] \in X PROVE p[2] \in X BY DEF Closed
    <3>1. p[1] \in 1 .. n /\ p[2] \in 1 .. n /\ Joined(q, p[1], p[2]) BY <1>2
    <3>2. /\ d.rows[p[1]].depTime <= d.rows[p[2]].depTime
          /\ d.rows[p[1]].depTime \in Int /\ d.rows[p[2]].depTime \in Int
      BY <3>1, JoinedTakesTime DEF n
    <3>3. d.rows[p[1]].depTime >= d.at OBVIOUS
    <3>4. d.rows[p[2]].depTime >= d.at
      <4> HIDE DEF d
      <4>q. QED BY <3>2, <3>3, <2>2
    <3>q. QED BY <3>1, <3>4
  <2> HIDE DEF X
  <2>5. F \subseteq X BY <2>3
  <2>6. R \subseteq X BY <2>5, <2>4, <1>4
  <2>q. QED BY <2>6 DEF X
<1>q. QED BY <1>4, <1>5, <1>6, <1>7 DEF n, R, F

(***************************************************************************)
(* The invariant of an optimal answer, for a timetable in order.           *)
(***************************************************************************)

\* Connection k has been ridden: its trip was boarded no later, and ridden no
\* less far.
Rode(k) ==
  LET s == onboard[net.conns[k].trip]
  IN  OnTrip(net.conns[k].trip) /\ s.board <= k /\ k <= s.last

\* The row that connection k is, and whether a passenger of the query can ride it.
RowOf(k) == Place(Directed(tt).rows)[k]

CanRide(k) == RowOf(k) \in Rides(tt)

\* The context of a label that connection k leads to.
ContextOf(k) == IF net.rules = <<>> THEN NoContext
                ELSE [trip |-> net.conns[k].trip, fromStop |-> net.conns[k].to]

\* A label of a stop and context holds an arrival by then.
Reaches(stop, ctx, by) == \E l \in labels : l.stop = stop /\ l.ctx = ctx /\ l.arrival <= by

\* One who left connection k on foot arrives where and when the label says; or
\* one who never rode.
OnFootFrom(a, b, x) == Within(Walks(Directed(tt)), a, b, x)

RodeHere(l) ==
  \E k \in DOMAIN net.conns :
    /\ Rode(k) /\ Allowed(tt, net.conns[k].dropOff)
    /\ l.ctx = ContextOf(k) /\ l.alight = net.conns[k].arrTime
    /\ OnFootFrom(net.conns[k].to, l.stop, l.arrival - net.conns[k].arrTime)

WalkedHere(l) ==
  /\ l.ctx = NoContext
  /\ \E s \in net.sources : OnFootFrom(s.stop, l.stop, l.arrival - net.start - s.walk)

\* Every label can be explained.
WitnessInv ==
  /\ \A l \in labels \cup queue : RodeHere(l) \/ WalkedHere(l)
  /\ Found => RodeHere(target.label) \/ WalkedHere(target.label)

\* Every source has its label, and every connection that was ridden and may be
\* left; of the labels of one context none got off later than that.
HeldInv ==
  /\ \A s \in net.sources : Reaches(s.stop, NoContext, net.start + s.walk)
  /\ \A k \in DOMAIN net.conns : Rode(k) /\ Allowed(tt, net.conns[k].dropOff) =>
       /\ Reaches(net.conns[k].to, ContextOf(k), net.conns[k].arrTime)
       /\ \A l \in labels : l.ctx # NoContext /\ l.ctx = ContextOf(k) => l.alight <= net.conns[k].arrTime

\* A label that is not queued has had its walks relaxed.
RelaxedInv ==
  \A l \in labels \ queue, e \in net.walk :
    e.from = l.stop => Reaches(e.to, l.ctx, l.arrival + e.secs)

\* The target is the best that the labels have led to.
TargetLeast ==
  /\ target.total \in Int /\ target.total <= Infinity
  /\ \A l \in labels, t \in net.targets : t.stop = l.stop => target.total <= l.arrival + t.walk

\* What was ridden can be ridden, and what can be ridden has been or is still
\* to be, in the first pass over its group.
RidesInv ==
  /\ \A k \in DOMAIN net.conns : Rode(k) => CanRide(k)
  /\ \A k \in DOMAIN net.conns : CanRide(k) => Rode(k) \/ k \in todo \/ k >= next
  /\ \A k \in todo : CanRide(k) => k .. next - 1 \subseteq todo
  /\ \A k \in retry : ~CanRide(k)

EndInv == outcome \in {"found", "none"} => queue = {} /\ todo = {} /\ Exhausted

BestInv == WitnessInv /\ HeldInv /\ RelaxedInv /\ TargetLeast /\ RidesInv /\ EndInv

(***************************************************************************)
(* Walking on.                                                             *)
(***************************************************************************)

\* Walks of the scan's network: to stay where one is, to walk on, and for longer.
LEMMA OnFootFacts ==
  ASSUME QueryInv, NEW a \in Stops, NEW b, NEW x \in Int
  PROVE  /\ OnFootFrom(a, a, 0)
         /\ OnFootFrom(a, b, x) => x >= 0 /\ \A y \in Int : x <= y => OnFootFrom(a, b, y)
         /\ \A e \in net.walk : OnFootFrom(a, b, x) /\ e.from = b => OnFootFrom(a, e.to, x + e.secs)
<1> DEFINE q == Directed(tt)
           w == Walks(q)
<1>1. q.walk \subseteq Edges /\ q.walk = net.walk BY NetFacts
<1>2. w \subseteq Hops /\ Footpaths \subseteq w BY <1>1, WalksAreWalks
<1>3. OnFootFrom(a, a, 0)
  <2>1. <<a, a, 0>> \in w BY <1>2 DEF Footpaths
  <2> HIDE DEF w
  <2>2. Within(w, a, a, 0) BY <2>1 DEF Within
  <2>q. QED BY <2>2 DEF OnFootFrom, w
<1>4. OnFootFrom(a, b, x) => x >= 0 /\ \A y \in Int : x <= y => OnFootFrom(a, b, y)
  BY WithinFacts DEF OnFootFrom
<1>5. ASSUME NEW e \in net.walk, OnFootFrom(a, b, x), e.from = b
      PROVE  OnFootFrom(a, e.to, x + e.secs)
  <2>1. PICK y \in Nat : y <= x /\ <<a, b, y>> \in w BY <1>5 DEF OnFootFrom, Within
  <2>2. b \in Stops BY <1>2, <2>1 DEF Hops
  <2>3. Within(w, a, e.to, y + e.secs) BY <1>1, <1>5, <2>1, <2>2, WalksExtend
  <2>4. e.secs \in Nat BY <1>1 DEF Edges
  <2> HIDE DEF w
  <2>5. Within(w, a, e.to, x + e.secs) BY <2>1, <2>3, <2>4, WithinFacts
  <2>q. QED BY <2>5 DEF OnFootFrom, w
<1>q. QED BY <1>3, <1>4, <1>5

\* When no label is queued, whatever can be reached on foot from a label is.
LEMMA WalksAreDone ==
  ASSUME QueryInv, LabelsInv, RelaxedInv, queue = {}, NEW ctx
  PROVE  \A a, b \in Stops, by \in Int, x \in Int :
           Reaches(a, ctx, by) /\ OnFootFrom(a, b, x) => Reaches(b, ctx, by + x)
<1> DEFINE q == Directed(tt)
           X == {h \in Hops : \A by \in Int : Reaches(h[1], ctx, by) => Reaches(h[2], ctx, by + h[3])}
<1>1. q.walk \subseteq Edges /\ q.walk = net.walk BY NetFacts
<1>2. \A a, b \in Stops, x \in Nat :
        <<a, b, x>> \in X <=> \A by \in Int : Reaches(a, ctx, by) => Reaches(b, ctx, by + x)
  BY DEF Hops
<1>3. \A l \in labels : l.arrival \in Int BY DEF LabelsInv, LabelSet
<1>4. Footpaths \subseteq X
  <2>1. ASSUME NEW h \in Footpaths PROVE h \in X
    <3>1. PICK s \in Stops : h = <<s, s, 0>> BY DEF Footpaths
    <3>2. \A by \in Int : by + 0 = by OBVIOUS
    <3> HIDE DEF X
    <3>q. QED BY <1>2, <3>1, <3>2
  <2>q. QED BY <2>1
<1>5. ASSUME NEW a \in Stops, NEW b \in Stops, NEW x \in Nat, NEW e \in q.walk, <<a, b, x>> \in X, e.from = b
      PROVE  <<a, e.to, x + e.secs>> \in X
  <2>1. e \in net.walk /\ e.to \in Stops /\ e.secs \in Nat BY <1>1 DEF Edges
  <2>2. ASSUME NEW by \in Int, Reaches(a, ctx, by) PROVE Reaches(e.to, ctx, by + (x + e.secs))
    <3>1. Reaches(b, ctx, by + x) BY <1>2, <1>5, <2>2
    <3>2. PICK l \in labels : l.stop = b /\ l.ctx = ctx /\ l.arrival <= by + x BY <3>1 DEF Reaches
    <3>3. Reaches(e.to, ctx, l.arrival + e.secs) BY <1>5, <2>1, <3>2 DEF RelaxedInv
    <3>4. PICK m \in labels : m.stop = e.to /\ m.ctx = ctx /\ m.arrival <= l.arrival + e.secs BY <3>3 DEF Reaches
    <3>5. m.arrival <= by + (x + e.secs) BY <3>2, <3>4, <2>1, <1>3
    <3>q. QED BY <3>4, <3>5 DEF Reaches
  <2>3. x + e.secs \in Nat BY <2>1
  <2> HIDE DEF X
  <2>q. QED BY <1>2, <2>1, <2>2, <2>3
<1> HIDE DEF X
<1>6. Walks(q) \subseteq X BY <1>1, <1>4, <1>5, WalksAreWalks
<1>7. ASSUME NEW a \in Stops, NEW b \in Stops, NEW by \in Int, NEW x \in Int,
             Reaches(a, ctx, by), OnFootFrom(a, b, x)
      PROVE  Reaches(b, ctx, by + x)
  <2>1. PICK y \in Nat : y <= x /\ <<a, b, y>> \in Walks(q) BY <1>7 DEF OnFootFrom, Within
  <2>2. <<a, b, y>> \in X BY <2>1, <1>6
  <2>3. Reaches(b, ctx, by + y) BY <1>2, <1>7, <2>2
  <2>4. PICK m \in labels : m.stop = b /\ m.ctx = ctx /\ m.arrival <= by + y BY <2>3 DEF Reaches
  <2>5. m.arrival <= by + x BY <2>1, <2>4, <1>3
  <2>q. QED BY <2>4, <2>5 DEF Reaches
<1>q. QED BY <1>7

\* Adding labels that improve on what there is: nothing is reached later, and
\* the target is the best that they lead to as well.
LEMMA AddLabelsImproves ==
  ASSUME QueryInv, LabelsInv, TargetLeast, UNCHANGED <<tt, net>>, NEW new, new \subseteq LabelSet,
         \A l \in new : Improves(l), NEW rest, AddLabels(new, rest)
  PROVE  /\ \A s, c : \A by \in Int : Reaches(s, c, by) => Reaches(s, c, by)'
         /\ labels' \subseteq labels \cup new /\ new \subseteq labels' /\ queue' = rest \cup new
         /\ TargetLeast'
         /\ target' = target \/ (Found' /\ target'.label \in new)
<1> DEFINE ends == {[total |-> l.arrival + e.walk, label |-> l, egress |-> e] :
                      l \in new, e \in {t \in net.targets : \E l \in new : t.stop = l.stop}}
           better == {t \in ends : t.label.stop = t.egress.stop /\ t.total < target.total}
           earliest == {t \in better : \A u \in better : t.total <= u.total}
<1>1. /\ labels' = {k \in labels : ~\E l \in new : SameSlot(k, l)} \cup new /\ queue' = rest \cup new
      /\ target' \in IF better = {} THEN {target} ELSE earliest
  BY DEF AddLabels
<1>2. /\ \A l \in labels \cup new : l.arrival \in Int
      /\ \A t \in net.targets : t.walk \in Nat
      /\ Infinity \in Int /\ target.total \in Int /\ target.total <= Infinity
  BY NetFacts DEF LabelsInv, LabelSet, TargetLeast, Endpoints
<1>3. ASSUME NEW s, NEW c, NEW by \in Int, Reaches(s, c, by) PROVE Reaches(s, c, by)'
  <2>1. PICK k \in labels : k.stop = s /\ k.ctx = c /\ k.arrival <= by BY <1>3 DEF Reaches
  <2>2. CASE k \in labels' BY <2>1, <2>2 DEF Reaches
  <2>3. CASE k \notin labels'
    <3>1. PICK l \in new : SameSlot(k, l) BY <1>1, <2>1, <2>3
    <3>2. ~(k.arrival <= l.arrival) BY <3>1 DEF Improves
    <3>3. l.arrival <= by BY <1>2, <2>1, <3>2
    <3>4. l \in labels' /\ l.stop = s /\ l.ctx = c BY <1>1, <2>1, <3>1 DEF SameSlot
    <3>q. QED BY <3>3, <3>4 DEF Reaches
  <2>q. QED BY <2>2, <2>3
<1>4. \A l \in new, e \in net.targets : e.stop = l.stop =>
        \E t \in ends : t.total = l.arrival + e.walk /\ t.label = l /\ t.egress = e
  <2>1. TAKE l \in new, e \in net.targets
  <2>2. SUFFICES ASSUME e.stop = l.stop
                 PROVE  \E t \in ends : t.total = l.arrival + e.walk /\ t.label = l /\ t.egress = e
    OBVIOUS
  <2>3. [total |-> l.arrival + e.walk, label |-> l, egress |-> e] \in ends BY <2>2
  <2> HIDE DEF ends
  <2>q. QED BY <2>3
<1>5. \A t \in better : /\ t.label \in new /\ t.total \in Int /\ t.total < target.total
  <2>1. TAKE t \in better
  <2>2. PICK l \in new, e \in net.targets : t = [total |-> l.arrival + e.walk, label |-> l, egress |-> e]
    OBVIOUS
  <2>3. t.total = l.arrival + e.walk /\ t.label = l BY <2>2
  <2>4. t.total < target.total OBVIOUS
  <2>q. QED BY <2>3, <2>4, <1>2
<1>6. target'.total \in Int /\ target'.total <= target.total
      /\ (target' = target \/ (target'.label \in new /\ target'.total < target.total))
  <2> HIDE DEF better
  <2>1. CASE better = {} BY <1>1, <1>2, <2>1
  <2>2. CASE better # {} BY <1>1, <1>2, <1>5, <2>2
  <2>q. QED BY <2>1, <2>2
<1>7. ASSUME NEW l \in new, NEW e \in net.targets, e.stop = l.stop
      PROVE  target'.total <= l.arrival + e.walk
  <2>1. PICK t \in ends : t.total = l.arrival + e.walk /\ t.label = l /\ t.egress = e BY <1>4, <1>7
  <2>2. l.arrival + e.walk \in Int BY <1>2
  <2>3. CASE t.total < target.total
    <3>1. t \in better BY <2>1, <2>3, <1>7
    <3> HIDE DEF better, ends
    <3>q. QED BY <3>1, <2>1, <1>1
  <2>4. CASE ~(t.total < target.total) BY <2>1, <2>2, <2>4, <1>6, <1>2
  <2>q. QED BY <2>3, <2>4
<1> HIDE DEF ends, better, earliest
<1>8. TargetLeast'
  <2>1. target'.total <= Infinity BY <1>2, <1>6
  <2>2. ASSUME NEW l \in labels', NEW t \in net.targets, t.stop = l.stop
        PROVE  target'.total <= l.arrival + t.walk
    <3>1. CASE l \in new BY <3>1, <2>2, <1>7
    <3>2. CASE l \in labels
      <4>1. target.total <= l.arrival + t.walk BY <2>2, <3>2 DEF TargetLeast
      <4>2. l.arrival + t.walk \in Int BY <1>2, <3>2
      <4>q. QED BY <4>1, <4>2, <1>2, <1>6
    <3>q. QED BY <3>1, <3>2, <1>1
  <2>q. QED BY <2>1, <2>2, <1>6 DEF TargetLeast
<1>9. target' = target \/ (Found' /\ target'.label \in new) BY <1>2, <1>6 DEF Found
<1>q. QED BY <1>1, <1>3, <1>8, <1>9

(***************************************************************************)
(* A step that relaxes the walks of a label.                               *)
(***************************************************************************)

\* A label with an explanation has one after a walk.
LEMMA WalkIsExplained ==
  ASSUME QueryInv, NEW l \in LabelSet, RodeHere(l) \/ WalkedHere(l), NEW e \in net.walk, e.from = l.stop
  PROVE  RodeHere(WalkedLabel(l, e)) \/ WalkedHere(WalkedLabel(l, e))
<1> DEFINE w == WalkedLabel(l, e)
<1>1. /\ w.stop = e.to /\ w.arrival = l.arrival + e.secs /\ w.alight = l.alight /\ w.ctx = l.ctx
      /\ l.arrival \in Int /\ e.secs \in Nat
  <2>1. e \in Edges BY NetFacts
  <2>q. QED BY <2>1, WalkedLabelFacts DEF LabelSet, Edges
<1>2. /\ \A k \in DOMAIN net.conns : net.conns[k].to \in Stops /\ net.conns[k].arrTime \in Int
      /\ \A s \in net.sources : s.stop \in Stops /\ s.walk \in Nat
      /\ net.start \in Int
  BY NetFacts DEF Endpoints
<1>3. ASSUME NEW a \in Stops, NEW x \in Int, OnFootFrom(a, l.stop, x) PROVE OnFootFrom(a, w.stop, x + e.secs)
  BY <1>1, <1>3, OnFootFacts
<1> HIDE DEF w
<1>4. CASE RodeHere(l)
  <2>1. PICK k \in DOMAIN net.conns :
          /\ Rode(k) /\ Allowed(tt, net.conns[k].dropOff)
          /\ l.ctx = ContextOf(k) /\ l.alight = net.conns[k].arrTime
          /\ OnFootFrom(net.conns[k].to, l.stop, l.arrival - net.conns[k].arrTime)
    BY <1>4 DEF RodeHere
  <2>2. /\ l.arrival - net.conns[k].arrTime \in Int
        /\ (l.arrival - net.conns[k].arrTime) + e.secs = w.arrival - net.conns[k].arrTime
    BY <1>1, <1>2
  <2>3. OnFootFrom(net.conns[k].to, w.stop, w.arrival - net.conns[k].arrTime)
    <3>1. OnFootFrom(net.conns[k].to, w.stop, (l.arrival - net.conns[k].arrTime) + e.secs)
      BY <1>2, <1>3, <2>1, <2>2
    <3>q. QED BY <3>1, <2>2
  <2>4. RodeHere(w) BY <1>1, <2>1, <2>3 DEF RodeHere
  <2>q. QED BY <2>4 DEF w
<1>5. CASE WalkedHere(l)
  <2>1. PICK s \in net.sources : OnFootFrom(s.stop, l.stop, l.arrival - net.start - s.walk) BY <1>5 DEF WalkedHere
  <2>2. /\ l.arrival - net.start - s.walk \in Int
        /\ (l.arrival - net.start - s.walk) + e.secs = w.arrival - net.start - s.walk
    BY <1>1, <1>2
  <2>3. OnFootFrom(s.stop, w.stop, w.arrival - net.start - s.walk)
    <3>1. OnFootFrom(s.stop, w.stop, (l.arrival - net.start - s.walk) + e.secs)
      BY <1>2, <1>3, <2>1, <2>2
    <3>q. QED BY <3>1, <2>2
  <2>4. WalkedHere(w) BY <1>1, <1>5, <2>1, <2>3 DEF WalkedHere
  <2>q. QED BY <2>4 DEF w
<1>q. QED BY <1>4, <1>5

\* What was ridden stays ridden, and so explanations stay.
LEMMA ExplanationsLast ==
  ASSUME UNCHANGED <<tt, net>>, \A k \in DOMAIN net.conns : Rode(k) => Rode(k)', NEW l,
         RodeHere(l) \/ WalkedHere(l)
  PROVE  RodeHere(l)' \/ WalkedHere(l)'
<1>1. WalkedHere(l) => WalkedHere(l)' BY DEF WalkedHere, OnFootFrom
<1>2. RodeHere(l) => RodeHere(l)' BY DEF RodeHere, OnFootFrom, ContextOf
<1>q. QED BY <1>1, <1>2

\* Labels that have an explanation are added.
LEMMA WitnessStep ==
  ASSUME WitnessInv, UNCHANGED <<tt, net>>, \A k \in DOMAIN net.conns : Rode(k) => Rode(k)',
         NEW new, \A l \in new : RodeHere(l)' \/ WalkedHere(l)',
         labels' \cup queue' \subseteq labels \cup queue \cup new,
         target' = target \/ (Found' /\ target'.label \in new)
  PROVE  WitnessInv'
<1>1. ASSUME NEW l \in labels' \cup queue' PROVE RodeHere(l)' \/ WalkedHere(l)'
  <2>1. CASE l \in new BY <2>1
  <2>2. CASE l \in labels \cup queue
    <3>1. RodeHere(l) \/ WalkedHere(l) BY <2>2 DEF WitnessInv
    <3>q. QED BY <3>1, ExplanationsLast
  <2>q. QED BY <2>1, <2>2
<1>2. ASSUME Found' PROVE (RodeHere(target.label) \/ WalkedHere(target.label))'
  <2>1. \A l : l = target'.label => RodeHere(l)' \/ WalkedHere(l)'
    <3>1. CASE target' = target
      <4>1. Found BY <1>2, <3>1 DEF Found
      <4>2. RodeHere(target.label) \/ WalkedHere(target.label) BY <4>1 DEF WitnessInv
      <4>3. \A l : l = target.label => RodeHere(l)' \/ WalkedHere(l)' BY <4>2, ExplanationsLast
      <4>q. QED BY <3>1, <4>3
    <3>2. CASE target'.label \in new BY <3>2
    <3>q. QED BY <3>1, <3>2
  <2>q. QED BY <2>1 DEF RodeHere, WalkedHere, Rode, OnTrip, ContextOf, OnFootFrom
<1>q. QED BY <1>1, <1>2 DEF WitnessInv

\* What a connection has led to is still reached when nothing is reached later.
LEMMA HeldLasts ==
  ASSUME UNCHANGED <<tt, net>>, \A s, c : \A by \in Int : Reaches(s, c, by) => Reaches(s, c, by)',
         NEW k, net.conns[k].arrTime \in Int, Reaches(net.conns[k].to, ContextOf(k), net.conns[k].arrTime)
  PROVE  Reaches(net.conns[k].to, ContextOf(k), net.conns[k].arrTime)'
<1> DEFINE s == net.conns[k].to
           c == ContextOf(k)
           by == net.conns[k].arrTime
<1>1. s' = s /\ c' = c /\ by' = by BY DEF ContextOf
<1> HIDE DEF s, c, by
<1>2. \A x, y : \A z \in Int : Reaches(x, y, z) => \E m \in labels' : m.stop = x /\ m.ctx = y /\ m.arrival <= z
  BY DEF Reaches
<1>3. \E m \in labels' : m.stop = s /\ m.ctx = c /\ m.arrival <= by BY <1>2 DEF s, c, by
<1>4. \E m \in labels' : m.stop = s' /\ m.ctx = c' /\ m.arrival <= by' BY <1>1, <1>3
<1>q. QED BY <1>4 DEF Reaches, s, c, by

\* The walks from a queued label are added where they improve.
LEMMA BestRelaxWalk ==
  ASSUME TypeInv, BestInv, RelaxWalk
  PROVE  BestInv'
<1>0. QueryInv /\ LabelsInv /\ WitnessInv /\ HeldInv /\ RelaxedInv /\ TargetLeast /\ RidesInv BY DEF TypeInv, BestInv
<1>1. UNCHANGED <<tt, net, onboard, passVars, outcome>> /\ outcome = "running" BY DEF RelaxWalk
<1>2. PICK l \in queue :
        LET reached == IF l \notin labels THEN {}
                       ELSE {WalkedLabel(l, e) : e \in {w \in net.walk : w.from = l.stop}}
            best == {x \in reached : \A y \in reached : x.stop = y.stop => x.arrival <= y.arrival}
        IN  AddLabels({x \in best : Improves(x)}, queue \ {l})
  BY DEF RelaxWalk
<1> DEFINE reached == IF l \notin labels THEN {}
                      ELSE {WalkedLabel(l, e) : e \in {w \in net.walk : w.from = l.stop}}
           best == {x \in reached : \A y \in reached : x.stop = y.stop => x.arrival <= y.arrival}
           new == {x \in best : Improves(x)}
<1>3. AddLabels(new, queue \ {l}) BY <1>2
<1>4. l \in LabelSet /\ l.arrival \in Int /\ l.arrival >= net.start /\ net.start \in Int
      /\ net.walk \subseteq Edges /\ \A m \in labels : m.arrival \in Int
  BY <1>0, NetFacts DEF LabelsInv, LabelSet
<1>5. \A x \in reached : l \in labels /\ \E e \in net.walk : e.from = l.stop /\ x = WalkedLabel(l, e) OBVIOUS
<1>6. \A x \in reached : /\ x \in LabelSet /\ x.ctx = l.ctx /\ x.alight = l.alight /\ x.arrival \in Int
                         /\ x.arrival >= net.start /\ (RodeHere(x) \/ WalkedHere(x)) /\ l \in labels
  <2>1. ASSUME NEW x \in reached
        PROVE  /\ x \in LabelSet /\ x.ctx = l.ctx /\ x.alight = l.alight /\ x.arrival \in Int
               /\ x.arrival >= net.start /\ (RodeHere(x) \/ WalkedHere(x)) /\ l \in labels
    <3>1. PICK e \in net.walk : e.from = l.stop /\ x = WalkedLabel(l, e) BY <1>5
    <3>2. l \in labels BY <1>5
    <3>3. e \in Edges /\ e.secs \in Nat BY <1>4 DEF Edges
    <3>4. x \in LabelSet /\ x.ctx = l.ctx /\ x.alight = l.alight /\ x.arrival = l.arrival + e.secs
      BY <1>4, <3>1, <3>3, WalkedLabelFacts
    <3>5. RodeHere(l) \/ WalkedHere(l) BY <1>0, <3>2 DEF WitnessInv
    <3>6. RodeHere(x) \/ WalkedHere(x) BY <1>0, <1>4, <3>1, <3>5, WalkIsExplained
    <3>q. QED BY <1>4, <3>2, <3>3, <3>4, <3>6
  <2>q. QED BY <2>1
<1>7. new \subseteq reached /\ \A x \in new : Improves(x) OBVIOUS
<1>8. \A e \in net.walk : l \in labels /\ e.from = l.stop => WalkedLabel(l, e) \in reached OBVIOUS
<1>9. ASSUME NEW x \in reached PROVE \E y \in best : y.stop = x.stop /\ y.arrival <= x.arrival
  <2> DEFINE T == {y.arrival : y \in {z \in reached : z.stop = x.stop}}
  <2> HIDE DEF reached
  <2>1. T \subseteq Int /\ x.arrival \in T /\ \A t \in T : net.start <= t BY <1>6
  <2>2. MinOf(T) \in T /\ \A t \in T : MinOf(T) <= t
    <3> HIDE DEF T
    <3>q. QED BY <2>1, <1>4, LeastInteger
  <2>3. PICK y \in reached : y.stop = x.stop /\ y.arrival = MinOf(T) BY <2>2
  <2>4. \A z \in reached : z.stop = x.stop => z.arrival \in T OBVIOUS
  <2> HIDE DEF T
  <2>5. \A z \in reached : y.stop = z.stop => y.arrival <= z.arrival BY <2>2, <2>3, <2>4
  <2>6. y \in best BY <2>3, <2>5
  <2>7. y.arrival <= x.arrival BY <2>1, <2>2, <2>3
  <2> HIDE DEF best
  <2>q. QED BY <2>3, <2>6, <2>7
<1>10. \A y \in best : y \in reached /\ (y \in new \/ ~Improves(y)) OBVIOUS
<1> HIDE DEF reached, best, new
<1>11. /\ \A s, c : \A by \in Int : Reaches(s, c, by) => Reaches(s, c, by)'
       /\ labels' \subseteq labels \cup new /\ new \subseteq labels' /\ queue' = (queue \ {l}) \cup new
       /\ TargetLeast'
       /\ target' = target \/ (Found' /\ target'.label \in new)
  <2>1. new \subseteq LabelSet BY <1>6, <1>7
  <2>2. UNCHANGED <<tt, net>> BY <1>1
  <2>q. QED BY <1>0, <1>3, <1>7, <2>1, <2>2, AddLabelsImproves
<1>12. \A k \in DOMAIN net.conns : Rode(k)' <=> Rode(k) BY <1>1 DEF Rode, OnTrip
<1>13. WitnessInv'
  <2>1. \A x \in new : RodeHere(x)' \/ WalkedHere(x)'
    <3>1. ASSUME NEW x \in new PROVE RodeHere(x)' \/ WalkedHere(x)'
      <4>1. RodeHere(x) \/ WalkedHere(x) BY <1>6, <1>7
      <4>q. QED BY <1>1, <1>12, <4>1, ExplanationsLast
    <3>q. QED BY <3>1
  <2>2. labels' \cup queue' \subseteq labels \cup queue \cup new BY <1>11
  <2>3. UNCHANGED <<tt, net>> BY <1>1
  <2>q. QED BY <1>0, <1>11, <1>12, <2>1, <2>2, <2>3, WitnessStep
<1>14. HeldInv'
  <2>1. ASSUME NEW s \in net.sources PROVE Reaches(s.stop, NoContext, net.start + s.walk)'
    <3>1. s.walk \in Nat BY <1>0, NetFacts DEF Endpoints
    <3>2. net.start + s.walk \in Int BY <1>4, <3>1
    <3>3. Reaches(s.stop, NoContext, net.start + s.walk) BY <1>0 DEF HeldInv
    <3>q. QED BY <1>1, <1>11, <3>2, <3>3 DEF Reaches
  <2>2. ASSUME NEW k \in DOMAIN net.conns, Rode(k), Allowed(tt, net.conns[k].dropOff)
        PROVE  /\ Reaches(net.conns[k].to, ContextOf(k), net.conns[k].arrTime)'
               /\ \A m \in labels' : m.ctx # NoContext /\ m.ctx = ContextOf(k) => m.alight <= net.conns[k].arrTime
    <3>1. net.conns[k].arrTime \in Int BY <1>0, NetFacts
    <3>2. /\ Reaches(net.conns[k].to, ContextOf(k), net.conns[k].arrTime)
          /\ \A m \in labels : m.ctx # NoContext /\ m.ctx = ContextOf(k) => m.alight <= net.conns[k].arrTime
      BY <1>0, <2>2 DEF HeldInv
    <3>3. Reaches(net.conns[k].to, ContextOf(k), net.conns[k].arrTime)' BY <1>1, <1>11, <3>1, <3>2, HeldLasts
    <3>4. \A m \in labels' : m \in labels \/ (m.ctx = l.ctx /\ m.alight = l.alight /\ l \in labels) BY <1>6, <1>7, <1>11
    <3>q. QED BY <3>2, <3>3, <3>4
  <2>q. QED BY <1>1, <1>12, <2>1, <2>2 DEF HeldInv, ContextOf
<1>15. RelaxedInv'
  <2>1. SUFFICES ASSUME NEW m \in labels' \ queue', NEW e \in net.walk, e.from = m.stop
                 PROVE  Reaches(e.to, m.ctx, m.arrival + e.secs)'
    BY <1>1 DEF RelaxedInv
  <2>2. m \in labels /\ (m \notin queue \/ m = l) BY <2>1, <1>11
  <2>3. e.secs \in Nat /\ e \in Edges /\ m.arrival \in Int BY <1>4, <2>2 DEF Edges
  <2>4. m.arrival + e.secs \in Int BY <2>3
  <2>5. CASE m \notin queue
    <3>1. Reaches(e.to, m.ctx, m.arrival + e.secs) BY <1>0, <2>1, <2>2, <2>5 DEF RelaxedInv
    <3>q. QED BY <1>11, <2>4, <3>1
  <2>6. CASE m = l
    <3> DEFINE x == WalkedLabel(l, e)
    <3>1. x \in reached BY <1>8, <2>1, <2>2, <2>6
    <3>2. x.stop = e.to /\ x.arrival = l.arrival + e.secs /\ x.ctx = l.ctx BY <1>4, <2>3, WalkedLabelFacts
    <3> HIDE DEF x
    <3>3. PICK y \in best : y.stop = x.stop /\ y.arrival <= x.arrival BY <1>9, <3>1
    <3>4. y \in reached /\ (y \in new \/ ~Improves(y)) BY <1>10
    <3>5. y.ctx = l.ctx /\ y.arrival \in Int /\ x.arrival \in Int BY <1>6, <3>1, <3>4
    <3>6. CASE y \in new
      <4>1. y \in labels' /\ y.arrival <= m.arrival + e.secs BY <1>11, <3>2, <3>3, <3>6, <2>6
      <4>q. QED BY <4>1, <3>2, <3>3, <3>5, <2>6 DEF Reaches
    <3>7. CASE ~Improves(y)
      <4>1. PICK z \in labels : SameSlot(z, y) /\ z.arrival <= y.arrival BY <3>7 DEF Improves
      <4>2. z.stop = e.to /\ z.ctx = m.ctx BY <4>1, <3>2, <3>3, <3>5, <2>6 DEF SameSlot
      <4>3. z.arrival <= m.arrival + e.secs BY <4>1, <3>2, <3>3, <3>5, <2>6, <1>4
      <4>4. Reaches(e.to, m.ctx, m.arrival + e.secs) BY <4>2, <4>3 DEF Reaches
      <4>q. QED BY <1>11, <2>4, <4>4
    <3>q. QED BY <3>4, <3>6, <3>7
  <2>q. QED BY <2>2, <2>5, <2>6
<1>16. RidesInv' BY <1>0, <1>1, <1>12 DEF RidesInv, CanRide, RowOf, passVars
<1>17. EndInv' BY <1>1 DEF EndInv
<1>q. QED BY <1>11, <1>13, <1>14, <1>15, <1>16, <1>17 DEF BestInv

(***************************************************************************)
(* A step that rides a connection.                                         *)
(***************************************************************************)

\* A trip that runs forward arrives in the order of its connections.
LEMMA TripArrives ==
  ASSUME QueryInv, RunsForward(tt), NEW k \in 1 .. Len(net.conns), NEW l \in 1 .. Len(net.conns),
         net.conns[k].trip = net.conns[l].trip, k <= l
  PROVE  net.conns[k].arrTime <= net.conns[l].arrTime
<1> DEFINE d == Directed(tt)
           p == Place(d.rows)
<1>1. /\ p[k] \in 1 .. Len(net.conns) /\ p[l] \in 1 .. Len(net.conns)
      /\ net.conns[k] = d.rows[p[k]] /\ net.conns[l] = d.rows[p[l]]
      /\ k < l <=> p[k] < p[l]
      /\ k = l <=> p[k] = p[l]
  BY TripOrder
<1>2. p[k] <= p[l] BY <1>1
<1>3. RunsForward(d) /\ DOMAIN d.rows = 1 .. Len(net.conns) BY NetFacts, NetworkFacts DEF QueryInv
<1> HIDE DEF d, p
<1>q. QED BY <1>1, <1>2, <1>3 DEF RunsForward

\* The scan rides a connection that can be ridden: the label at its end, if it
\* improves, is the one of the earliest segment to lead there.
LEMMA BestRide ==
  ASSUME TypeInv, RunsForward(tt), BestInv, Scanning, NEW i, i = MinOf(todo), CanRide(i),
         NEW s \in States, s.board \in 1 .. Len(net.conns), Ride(i, s),
         \A k \in DOMAIN net.conns : Rode(k)' <=> Rode(k) \/ k = i,
         \A k \in DOMAIN net.conns : Rode(k) /\ net.conns[k].trip = net.conns[i].trip => k < i
  PROVE  BestInv'
<1> DEFINE n == Len(net.conns)
           c == net.conns[i]
           x == TransitLabel([s EXCEPT !.last = i])
<1>0. /\ QueryInv /\ LabelsInv /\ PassInv /\ WitnessInv /\ HeldInv /\ RelaxedInv /\ TargetLeast /\ RidesInv
      /\ queue = {} /\ outcome = "running"
  BY DEF TypeInv, BestInv, Scanning
<1>1. i \in todo /\ (\A k \in todo : i <= k) /\ i \in 1 .. n BY VisitedFacts
<1>2. /\ n \in Nat /\ DOMAIN net.conns = 1 .. n /\ net.start \in Int
      /\ \A k \in 1 .. n : net.conns[k].to \in Stops /\ net.conns[k].arrTime \in Int /\ net.conns[k].trip \in Trips
      /\ \A m \in labels : m.arrival \in Int
  BY <1>0, NetFacts DEF LabelsInv, LabelSet
<1>3. /\ Visit(i, TRUE) /\ UNCHANGED <<tt, net, outcome>>
      /\ IF Allowed(tt, c.dropOff) /\ Improves(x) THEN AddLabels({x}, {}) ELSE UNCHANGED <<labels, queue, target>>
  BY DEF Ride
<1>4. todo' = todo \ {i} /\ retry' = retry /\ next' = next BY <1>3 DEF Visit
<1>5. /\ x \in LabelSet /\ x.stop = c.to /\ x.arrival = c.arrTime /\ x.alight = c.arrTime /\ x.ctx = ContextOf(i)
  <2> DEFINE riding == [s EXCEPT !.last = i]
  <2>1. riding \in States /\ riding.board = s.board /\ riding.last = i BY <1>1 DEF States
  <2> HIDE DEF riding
  <2>2. riding.board \in 1 .. n /\ riding.last \in 1 .. n BY <1>1, <2>1
  <2>q. QED BY <1>0, <2>1, <2>2, TransitLabelFacts DEF riding, ContextOf
<1> HIDE DEF x, n
<1> DEFINE new == IF Allowed(tt, c.dropOff) /\ Improves(x) THEN {x} ELSE {}
<1>6. \A m \in new : m = x /\ Allowed(tt, c.dropOff) /\ Improves(x) OBVIOUS
<1>7. /\ \A a, b : \A by \in Int : Reaches(a, b, by) => Reaches(a, b, by)'
      /\ labels' \subseteq labels \cup new /\ new \subseteq labels' /\ queue' = new
      /\ TargetLeast'
      /\ target' = target \/ (Found' /\ target'.label \in new)
  <2>1. CASE Allowed(tt, c.dropOff) /\ Improves(x)
    <3>1. AddLabels({x}, {}) /\ new = {x} BY <1>3, <2>1
    <3>2. {x} \subseteq LabelSet /\ \A m \in {x} : Improves(m) BY <1>5, <2>1
    <3>3. UNCHANGED <<tt, net>> BY <1>3
    <3> HIDE DEF new
    <3>4. {} \cup new = new OBVIOUS
    <3>5. AddLabels(new, {}) /\ new \subseteq LabelSet /\ \A m \in new : Improves(m) BY <3>1, <3>2
    <3>q. QED BY <1>0, <3>3, <3>4, <3>5, AddLabelsImproves
  <2>2. CASE ~(Allowed(tt, c.dropOff) /\ Improves(x))
    <3>1. UNCHANGED <<labels, queue, target>> /\ new = {} BY <1>3, <2>2
    <3>q. QED BY <1>0, <1>3, <3>1 DEF Reaches, TargetLeast
  <2>q. QED BY <2>1, <2>2
<1>8. Allowed(tt, c.dropOff) => x \in new \/ ~Improves(x) OBVIOUS
<1> HIDE DEF new
<1>9. Allowed(tt, c.dropOff) => Reaches(c.to, ContextOf(i), c.arrTime)'
  <2>1. ASSUME x \in new PROVE Reaches(c.to, ContextOf(i), c.arrTime)'
    <3>1. x \in labels' /\ x.stop = c.to /\ x.ctx = ContextOf(i) /\ x.arrival <= c.arrTime
      BY <2>1, <1>1, <1>2, <1>5, <1>7
    <3>2. c' = c /\ ContextOf(i)' = ContextOf(i) BY <1>3 DEF ContextOf
    <3> HIDE DEF c
    <3>q. QED BY <3>1, <3>2 DEF Reaches, c
  <2>2. ASSUME ~Improves(x) PROVE Reaches(c.to, ContextOf(i), c.arrTime)'
    <3>1. PICK m \in labels : SameSlot(m, x) /\ m.arrival <= x.arrival BY <2>2 DEF Improves
    <3>2. Reaches(c.to, ContextOf(i), c.arrTime) BY <1>5, <3>1 DEF SameSlot, Reaches
    <3>3. net.conns[i].arrTime \in Int BY <1>1, <1>2
    <3>q. QED BY <1>3, <1>7, <3>2, <3>3, HeldLasts
  <2>q. QED BY <1>8, <2>1, <2>2
<1>10. ASSUME NEW k \in DOMAIN net.conns, net.rules # <<>>, ContextOf(k) = ContextOf(i)
       PROVE  net.conns[k].trip = c.trip /\ net.conns[k].to = c.to
  BY <1>10 DEF ContextOf
<1>11. WitnessInv'
  <2>1. \A m \in new : RodeHere(m)' \/ WalkedHere(m)'
    <3>1. ASSUME NEW m \in new PROVE RodeHere(m)'
      <4>0. m = x /\ Allowed(tt, c.dropOff) BY <1>6
      <4>1. OnFootFrom(c.to, m.stop, m.arrival - c.arrTime)
        <5>1. OnFootFrom(c.to, c.to, 0) BY <1>0, <1>1, <1>2, OnFootFacts
        <5>2. m.arrival - c.arrTime = 0 BY <1>1, <1>2, <1>5, <4>0
        <5>q. QED BY <5>1, <5>2, <1>5, <4>0
      <4>2. Rode(i)' BY <1>1, <1>2
      <4>3. i \in DOMAIN net.conns BY <1>1, <1>2
      <4>4. /\ UNCHANGED <<tt, net>> /\ m.ctx = ContextOf(i) /\ m.alight = c.arrTime BY <1>3, <1>5, <4>0
      <4>q. QED BY <4>0, <4>1, <4>2, <4>3, <4>4 DEF RodeHere, OnFootFrom, ContextOf
    <3>q. QED BY <3>1
  <2>2. labels' \cup queue' \subseteq labels \cup queue \cup new BY <1>7
  <2>3. UNCHANGED <<tt, net>> BY <1>3
  <2>q. QED BY <1>0, <1>7, <2>1, <2>2, <2>3, WitnessStep
<1>12. ASSUME NEW k \in DOMAIN net.conns, Rode(k)', Allowed(tt, net.conns[k].dropOff)
       PROVE  Reaches(net.conns[k].to, ContextOf(k), net.conns[k].arrTime)'
  <2>1. CASE k = i BY <1>9, <1>12, <2>1
  <2>2. CASE Rode(k)
    <3>1. Reaches(net.conns[k].to, ContextOf(k), net.conns[k].arrTime) BY <1>0, <1>12, <2>2 DEF HeldInv
    <3>2. net.conns[k].arrTime \in Int BY <1>2
    <3>q. QED BY <1>3, <1>7, <3>1, <3>2, HeldLasts
  <2>q. QED BY <1>12, <2>1, <2>2
<1>13. ASSUME NEW k \in DOMAIN net.conns, Rode(k)', Allowed(tt, net.conns[k].dropOff),
              NEW m \in labels', m.ctx # NoContext, m.ctx = ContextOf(k)
       PROVE  m.alight <= net.conns[k].arrTime
  <2>1. net.rules # <<>> BY <1>13 DEF ContextOf
  <2>2. m \in labels \/ m \in new BY <1>7
  <2>3. Rode(k) \/ k = i BY <1>13
  <2>4. CASE m \in labels /\ Rode(k) BY <2>4, <1>0, <1>13 DEF HeldInv
  <2>5. CASE m \in labels /\ k = i
    <3>1. RodeHere(m)
      <4>1. RodeHere(m) \/ WalkedHere(m) BY <1>0, <2>5 DEF WitnessInv
      <4>q. QED BY <4>1, <1>13 DEF WalkedHere
    <3>2. PICK j \in DOMAIN net.conns : Rode(j) /\ m.ctx = ContextOf(j) /\ m.alight = net.conns[j].arrTime
      BY <3>1 DEF RodeHere
    <3>3. net.conns[j].trip = c.trip BY <1>10, <1>13, <2>1, <2>5, <3>2
    <3>4. j < i /\ j \in 1 .. n BY <1>2, <3>2, <3>3
    <3>5. net.conns[j].arrTime <= net.conns[i].arrTime
      <4>1. j <= i BY <3>4, <1>1
      <4>q. QED BY <4>1, <3>3, <3>4, <1>0, <1>1, TripArrives DEF n
    <3>q. QED BY <3>2, <3>5, <2>5
  <2>6. CASE m \in new /\ Rode(k)
    <3>1. m = x /\ Improves(x) /\ ContextOf(k) = ContextOf(i) BY <1>5, <1>6, <1>13, <2>6
    <3>2. net.conns[k].to = c.to BY <1>10, <2>1, <3>1
    <3>3. Reaches(net.conns[k].to, ContextOf(k), net.conns[k].arrTime) BY <1>0, <1>13, <2>6 DEF HeldInv
    <3>4. PICK z \in labels : z.stop = c.to /\ z.ctx = ContextOf(i) /\ z.arrival <= net.conns[k].arrTime
      BY <3>1, <3>2, <3>3 DEF Reaches
    <3>5. ~(z.arrival <= x.arrival) BY <1>5, <3>1, <3>4 DEF Improves, SameSlot
    <3>6. m.alight = c.arrTime /\ x.arrival = c.arrTime BY <1>5, <3>1
    <3>q. QED BY <3>4, <3>5, <3>6, <1>1, <1>2
  <2>7. CASE m \in new /\ k = i BY <2>7, <1>1, <1>2, <1>5, <1>6
  <2>q. QED BY <2>2, <2>3, <2>4, <2>5, <2>6, <2>7
<1>14. HeldInv'
  <2>1. ASSUME NEW o \in net.sources PROVE Reaches(o.stop, NoContext, net.start + o.walk)'
    <3>1. o.walk \in Nat BY <1>0, NetFacts DEF Endpoints
    <3>2. net.start + o.walk \in Int BY <1>2, <3>1
    <3>3. Reaches(o.stop, NoContext, net.start + o.walk) BY <1>0 DEF HeldInv
    <3> DEFINE by == net.start + o.walk
    <3>4. by' = by /\ by \in Int BY <1>3, <3>2
    <3> HIDE DEF by
    <3>5. Reaches(o.stop, NoContext, by)' BY <1>7, <3>3, <3>4 DEF Reaches, by
    <3>q. QED BY <3>5 DEF by
  <2>q. QED BY <1>3, <2>1, <1>12, <1>13 DEF HeldInv, ContextOf
<1>15. RelaxedInv'
  <2>1. SUFFICES ASSUME NEW m \in labels' \ queue', NEW e \in net.walk, e.from = m.stop
                 PROVE  Reaches(e.to, m.ctx, m.arrival + e.secs)'
    BY <1>3 DEF RelaxedInv
  <2>2. m \in labels BY <1>7
  <2>3. e.secs \in Nat BY <1>0, NetFacts DEF Edges
  <2>4. m.arrival + e.secs \in Int BY <1>2, <2>2, <2>3
  <2>5. Reaches(e.to, m.ctx, m.arrival + e.secs) BY <1>0, <2>1, <2>2 DEF RelaxedInv
  <2>q. QED BY <1>7, <2>4, <2>5
<1>16. RidesInv'
  <2>1. \A k \in DOMAIN net.conns : CanRide(k)' <=> CanRide(k) BY <1>3 DEF CanRide, RowOf
  <2>2. next \in Int /\ todo \subseteq Int
    <3>1. next \in Int BY <1>0, <1>2 DEF PassInv, n
    <3>2. todo \subseteq 1 .. next - 1 BY <1>0 DEF PassInv
    <3>q. QED BY <3>1, <3>2
  <2>3. ASSUME NEW k \in todo', CanRide(k) PROVE k .. next - 1 \subseteq todo'
    <3>1. k .. next - 1 \subseteq todo BY <1>0, <1>4, <2>3 DEF RidesInv
    <3>2. i < k /\ k \in Int BY <1>1, <1>4, <2>2
    <3>q. QED BY <3>1, <3>2, <1>4
  <2>4. \A k \in todo' : CanRide(k)' <=> CanRide(k) BY <1>3 DEF CanRide, RowOf
  <2>5. \A k \in retry' : CanRide(k)' <=> CanRide(k) BY <1>3 DEF CanRide, RowOf
  <2>q. QED BY <1>0, <1>3, <1>4, <2>1, <2>3, <2>4, <2>5 DEF RidesInv
<1>17. EndInv' BY <1>0, <1>3 DEF EndInv
<1>q. QED BY <1>7, <1>11, <1>14, <1>15, <1>16, <1>17 DEF BestInv

(***************************************************************************)
(* Boarding: no connection that can be ridden is set aside.                *)
(***************************************************************************)

\* When a rider is ready is an instant.
LEMMA ReadyIsInteger ==
  ASSUME NEW rules \in Seq(Rules), NEW ms, ms \subseteq DOMAIN rules, NEW arrival \in Int, NEW alight \in Int
  PROVE  ReadyBy(rules, ms, arrival, alight) \in Int
<1> DEFINE c == Champion(rules, ms)
<1>0. ms \subseteq Nat /\ Infinity \in Int BY ConstantsAssumption
<1>1. CASE ms = {} BY <1>1 DEF ReadyBy
<1>2. CASE ms # {}
  <2>1. c \in ms BY <1>0, <1>2, ChampionFacts
  <2>2. rules[c] \in Rules BY <2>1
  <2>3. rules[c].type \in {"recommended", "minimum", "forbidden"} /\ rules[c].min \in Nat
    BY <2>2 DEF Rules
  <2>4. ReadyBy(rules, ms, arrival, alight) = ReadyUnder(rules[c], arrival, alight) BY <1>2 DEF ReadyBy
  <2> HIDE DEF c
  <2>5. CASE rules[c].type = "recommended" BY <2>4, <2>5 DEF ReadyUnder
  <2>6. CASE rules[c].type = "minimum"
    <3>1. ReadyUnder(rules[c], arrival, alight) = MaxOf({arrival, alight + rules[c].min}) BY <2>6 DEF ReadyUnder
    <3>2. alight + rules[c].min \in Int BY <2>3
    <3>3. MaxOf({arrival, alight + rules[c].min}) \in {arrival, alight + rules[c].min} BY <3>2, MaxOfTwo
    <3>q. QED BY <3>1, <3>2, <3>3, <2>4
  <2>7. CASE rules[c].type = "forbidden" BY <2>4, <2>7, <1>0 DEF ReadyUnder
  <2>q. QED BY <2>3, <2>5, <2>6, <2>7
<1>q. QED BY <1>1, <1>2

\* When a label may board in time, one is selected.
LEMMA BoardingIsOpen ==
  ASSUME TypeInv, NEW i \in 1 .. Len(net.conns), NEW l \in labels, l.stop = net.conns[i].from,
         BoardingReady(l, net.conns[i]) <= net.conns[i].depTime
  PROVE  BoardingLabels(net.conns[i]) # {}
<1> DEFINE c == net.conns[i]
           open == {k \in LabelsAt(c.from) : BoardingReady(k, c) <= c.depTime}
           Sooner(k, m) == \/ BoardingReady(k, c) < BoardingReady(m, c)
                           \/ BoardingReady(k, c) = BoardingReady(m, c) /\ k.arrival <= m.arrival
           T == {BoardingReady(k, c) : k \in open}
           U == {k \in open : BoardingReady(k, c) = MinOf(T)}
           A == {k.arrival : k \in U}
<1>1. QueryInv /\ LabelsInv BY DEF TypeInv
<1>2. /\ c.depTime \in Int /\ c.depTime < Infinity /\ Infinity \in Int /\ net.rules \in Seq(Rules) /\ net.start \in Int
  <2>1. /\ c.depTime \in Int /\ c.arrTime \in Int /\ c.depTime <= c.arrTime /\ c.arrTime < Infinity
        /\ Infinity \in Int /\ net.rules \in Seq(Rules) /\ net.start \in Int
    BY <1>1, NetFacts
  <2> HIDE DEF c
  <2>q. QED BY <2>1
<1> HIDE DEF c
<1>3. ASSUME NEW k \in open
      PROVE  BoardingReady(k, c) \in Int /\ k.arrival \in Int /\ net.start <= BoardingReady(k, c) /\ net.start <= k.arrival
  <2> DEFINE ms == RulesFor(k, c)
             r == ReadyBy(net.rules, ms, k.arrival, k.alight)
  <2>1. k \in LabelSet /\ k.arrival >= net.start /\ r <= c.depTime /\ BoardingReady(k, c) = r
    BY <1>1 DEF LabelsInv, LabelsAt, BoardingReady
  <2>2. ms \subseteq DOMAIN net.rules /\ k.arrival \in Int /\ k.alight \in Int
    BY <2>1 DEF RulesFor, MatchingRules, LabelSet
  <2>3. r \in Int
    <3> HIDE DEF ms
    <3>q. QED BY <1>2, <2>2, ReadyIsInteger
  <2>4. r <= r /\ r < Infinity
    <3> HIDE DEF r
    <3>q. QED BY <1>2, <2>1, <2>3
  <2>5. k.arrival <= r
    <3> DEFINE dep == r
    <3>1. dep \in Int /\ dep < Infinity /\ ReadyBy(net.rules, ms, k.arrival, k.alight) <= dep BY <2>3, <2>4
    <3> HIDE DEF ms, dep
    <3>2. k.arrival <= dep BY <1>2, <2>2, <3>1, ReadyMeans
    <3>q. QED BY <3>2 DEF dep, ms
  <2> HIDE DEF r
  <2>q. QED BY <1>2, <2>1, <2>2, <2>3, <2>5
<1>4. l \in open BY DEF c, LabelsAt
<1>5. BoardingLabels(c) = {k \in open : \A m \in open : Sooner(k, m)} BY DEF BoardingLabels
<1> HIDE DEF open
<1>6. T \subseteq Int /\ T # {} /\ \A t \in T : net.start <= t BY <1>3, <1>4
<1>7. MinOf(T) \in T /\ \A t \in T : MinOf(T) <= t
  <2> HIDE DEF T
  <2>q. QED BY <1>2, <1>6, LeastInteger
<1>8. \A k \in open : BoardingReady(k, c) \in T OBVIOUS
<1>9. PICK g \in open : BoardingReady(g, c) = MinOf(T) BY <1>7
<1> HIDE DEF T
<1>10. A \subseteq Int /\ A # {} /\ \A a \in A : net.start <= a
  <2>1. g \in U BY <1>9
  <2>q. QED BY <1>3, <2>1
<1>11. MinOf(A) \in A /\ \A a \in A : MinOf(A) <= a
  <2> HIDE DEF A
  <2>q. QED BY <1>2, <1>10, LeastInteger
<1>12. PICK h \in U : h.arrival = MinOf(A) BY <1>11
<1>13. \A k \in U : k.arrival \in A OBVIOUS
<1>14. h \in open /\ BoardingReady(h, c) = MinOf(T) BY <1>12
<1>15. ASSUME NEW m \in open PROVE Sooner(h, m)
  <2>1. MinOf(T) <= BoardingReady(m, c) /\ BoardingReady(m, c) \in Int /\ BoardingReady(h, c) \in Int
    BY <1>3, <1>7, <1>8, <1>14
  <2>2. CASE BoardingReady(m, c) = MinOf(T)
    <3>1. m \in U BY <2>2
    <3>2. h.arrival <= m.arrival BY <1>11, <1>12, <1>13, <3>1
    <3>q. QED BY <1>14, <2>2, <3>2
  <2>3. CASE BoardingReady(m, c) # MinOf(T) BY <1>14, <2>1, <2>3
  <2>q. QED BY <2>2, <2>3
<1> HIDE DEF Sooner
<1>q. QED BY <1>5, <1>14, <1>15 DEF c

\* The rules for boarding from a label are those of the change it stands for.
LEMMA RulesOfChange ==
  ASSUME QueryInv, NEW k \in 1 .. Len(net.conns), NEW i \in 1 .. Len(net.conns), NEW l, l.ctx = ContextOf(k)
  PROVE  /\ RulesFor(l, net.conns[i]) = ChangeRules(Directed(tt), RowOf(k), RowOf(i))
         /\ l.ctx = NoContext => RulesFor(l, net.conns[i]) = {}
<1> DEFINE d == Directed(tt)
<1>1. /\ net.conns[k] = d.rows[RowOf(k)] /\ net.conns[i] = d.rows[RowOf(i)] /\ net.rules = d.rules
      /\ net.conns[k].trip \in Trips
  BY NetFacts DEF RowOf
<1> HIDE DEF d
<1>2. CASE net.rules = <<>>
  <2>1. l.ctx = NoContext BY <1>2 DEF ContextOf
  <2>2. ChangeRules(d, RowOf(k), RowOf(i)) = {} BY <1>1, <1>2 DEF ChangeRules, MatchingRules
  <2>q. QED BY <2>1, <2>2 DEF RulesFor, d
<1>3. CASE net.rules # <<>>
  <2>1. l.ctx.trip = net.conns[k].trip /\ l.ctx.fromStop = net.conns[k].to BY <1>3 DEF ContextOf
  <2>2. l.ctx # NoContext BY <2>1, <1>1, ConstantsAssumption DEF NoContext
  <2>3. RulesFor(l, net.conns[i]) = ChangeRules(d, RowOf(k), RowOf(i))
    BY <1>1, <2>1, <2>2 DEF RulesFor, ChangeRules
  <2>q. QED BY <2>2, <2>3 DEF d
<1>q. QED BY <1>2, <1>3

\* Where a rider may stay on board there is a link the scan was given.
LEMMA StayLoads ==
  ASSUME NEW q, NEW a \in DOMAIN q.rows, NEW b \in DOMAIN q.rows, IsLast(q, a), IsFirst(q, b),
         MayStay(q, q.rows[a], q.rows[b])
  PROVE  \E l \in LoadedLinks(q) : LinkMatches(l, "stay", q.rows[a], q.rows[b])
<1>1. PICK l \in q.links : LinkMatches(l, "stay", q.rows[a], q.rows[b]) BY DEF MayStay
<1>2. /\ q.rows[a].arrTime <= q.rows[b].depTime
      /\ ~\E f \in q.links : LinkMatches(f, "leave", q.rows[a], q.rows[b])
  BY DEF MayStay
<1>3. l.type = "stay" BY <1>1 DEF LinkMatches
<1>4. l \in LoadedLinks(q) BY <1>1, <1>2, <1>3 DEF LoadedLinks
<1>q. QED BY <1>1, <1>4

LEMMA StayIsLinked ==
  ASSUME QueryInv, NEW k \in 1 .. Len(net.conns), NEW i \in 1 .. Len(net.conns),
         IsLast(Directed(tt), RowOf(k)), IsFirst(Directed(tt), RowOf(i)),
         MayStay(Directed(tt), net.conns[k], net.conns[i])
  PROVE  \E l \in net.links : l.type = "stay" /\ LinkedAt(l, k, i)
<1> DEFINE d == Directed(tt)
           n == Len(net.conns)
           x == RowOf(k)
           y == RowOf(i)
<1>1. /\ net.conns[k] = d.rows[x] /\ net.conns[i] = d.rows[y] /\ DOMAIN d.rows = 1 .. n
      /\ x \in 1 .. n /\ y \in 1 .. n /\ Len(d.rows) = n /\ n \in Nat
  <2> DEFINE p == Place(d.rows)
  <2>1. /\ p \in [1 .. n -> 1 .. n] /\ DOMAIN d.rows = 1 .. n /\ Len(d.rows) = n /\ n \in Nat
        /\ \A m \in 1 .. n : net.conns[m] = d.rows[p[m]]
    BY NetFacts
  <2>2. x = p[k] /\ y = p[i] BY DEF RowOf
  <2> HIDE DEF p, n, x, y, d
  <2>3. k \in 1 .. n /\ i \in 1 .. n BY DEF n
  <2>q. QED BY <2>1, <2>2, <2>3
<1>2. tt \in Queries /\ net = Network(tt) BY TimetablesAssumption DEF QueryInv, WellFormed
<1>3. IsLast(d, x) /\ IsFirst(d, y) /\ MayStay(d, d.rows[x], d.rows[y]) BY <1>1
<1> HIDE DEF x, y
<1>4. \E l \in net.links : LinkMatches(l, "stay", d.rows[x], d.rows[y])
  <2>1. CASE ~tt.latest
    <3>1. d = tt /\ net.links = LoadedLinks(tt) BY <1>2, <2>1 DEF Directed, Network
    <3> HIDE DEF d, n
    <3>q. QED BY <1>1, <1>3, <3>1, StayLoads
  <2>2. CASE tt.latest
    <3> DEFINE a == Len(tt.rows) + 1 - y
               b == Len(tt.rows) + 1 - x
    <3>1. d = Reversal(tt) /\ net.links = {ReversedLink(l) : l \in LoadedLinks(tt)} BY <1>2, <2>2 DEF Directed, Network
    <3>2. Len(tt.rows) = n /\ DOMAIN tt.rows = 1 .. n
      BY <1>1, <1>2, <3>1, ReversalRows
    <3>3. a \in 1 .. n /\ b \in 1 .. n
      <4> HIDE DEF n
      <4>q. QED BY <1>1, <3>2
    <3>4. x \in 1 .. Len(tt.rows) /\ y \in 1 .. Len(tt.rows) BY <1>1, <3>2
    <3>5. IsLast(tt, a) /\ IsFirst(tt, b) BY <1>2, <1>3, <3>1, <3>4, ReversalEnds
    <3>6. MayStay(tt, tt.rows[a], tt.rows[b]) BY <1>2, <1>3, <3>1, <3>4, ReversalMayStay
    <3> HIDE DEF a, b, d, n
    <3>7. PICK l \in LoadedLinks(tt) : LinkMatches(l, "stay", tt.rows[a], tt.rows[b])
      BY <3>2, <3>3, <3>5, <3>6, StayLoads
    <3>8. l \in Links BY <1>2, <3>7, LoadedLinkFacts DEF Queries
    <3>9. LinkMatches(ReversedLink(l), "stay", d.rows[x], d.rows[y])
      BY <1>2, <3>1, <3>4, <3>7, <3>8, ReversalLinkMatches DEF a, b
    <3>q. QED BY <3>1, <3>7, <3>9
  <2>q. QED BY <2>1, <2>2
<1>5. PICK l \in net.links : LinkMatches(l, "stay", net.conns[k], net.conns[i]) BY <1>1, <1>4
<1>6. l.type = "stay" /\ l.fromTrip = net.conns[k].trip /\ l.toTrip = net.conns[i].trip BY <1>5 DEF LinkMatches
<1>7. LinkedAt(l, k, i)
  <2>1. IsLast(d, Place(d.rows)[k]) /\ IsFirst(d, Place(d.rows)[i]) BY <1>3 DEF x, y, RowOf
  <2>q. QED BY <1>5, <1>6, <2>1 DEF LinkedAt
<1>q. QED BY <1>6, <1>7

\* Connections and rows.
LEMMA RowFacts ==
  ASSUME QueryInv
  PROVE  LET d == Directed(tt)
             n == Len(net.conns)
         IN  /\ WellFormed(tt) /\ tt \in Queries /\ WellFormed(d) /\ d \in Queries
             /\ Len(tt.rows) = n /\ n \in Nat /\ DOMAIN net.conns = 1 .. n /\ DOMAIN d.rows = 1 .. n
             /\ \A k \in 1 .. n : RowOf(k) \in 1 .. n /\ net.conns[k] = d.rows[RowOf(k)]
             /\ \A j \in 1 .. n : \E k \in 1 .. n : RowOf(k) = j
             /\ \A k, l \in 1 .. n : Before(d.rows, RowOf(k), RowOf(l)) => k < l
             /\ \A r : Allowed(d, r) <=> Allowed(tt, r)
<1> DEFINE d == Directed(tt)
           n == Len(net.conns)
           p == Place(d.rows)
<1>1. tt \in Timetables /\ WellFormed(tt) /\ tt \in Queries BY TimetablesAssumption DEF QueryInv, WellFormed
<1>2. WellFormed(d) /\ d \in Queries BY <1>1, NetworkFacts
<1>3. /\ n \in Nat /\ Len(d.rows) = n /\ DOMAIN net.conns = 1 .. n /\ DOMAIN d.rows = 1 .. n
      /\ p \in [1 .. n -> 1 .. n] /\ d.conditional = tt.conditional
      /\ \A k \in 1 .. n : net.conns[k] = d.rows[p[k]] /\ net.conns[k].depTime \in Int
  BY NetFacts
<1>4. Len(tt.rows) = n
  <2>1. Len(Reversal(tt).rows) = Len(tt.rows) BY <1>1, ReversalRows
  <2>q. QED BY <1>3, <2>1 DEF Directed
<1>5. /\ \A i \in 1 .. n : \E k \in 1 .. n : p[k] = i
      /\ \A k, l \in 1 .. n : k < l => Before(d.rows, p[k], p[l])
      /\ d.rows \in Seq(Rows)
  <2> HIDE DEF d, n, p
  <2>q. QED BY <1>2, <1>3, SortedFacts DEF p
<1>6. \A k : RowOf(k) = p[k] BY DEF RowOf
<1> HIDE DEF d, n, p
<1>7. ASSUME NEW k \in 1 .. n, NEW l \in 1 .. n, Before(d.rows, p[k], p[l]) PROVE k < l
  <2>1. SUFFICES ASSUME ~(k < l) PROVE FALSE OBVIOUS
  <2>2. p[k] \in 1 .. n /\ p[l] \in 1 .. n BY <1>3
  <2>3. \A j \in 1 .. n : d.rows[j].depTime \in Int
    <3> SUFFICES ASSUME NEW j \in 1 .. n PROVE d.rows[j].depTime \in Int OBVIOUS
    <3>a. j \in 1 .. Len(d.rows) BY <1>3
    <3>b. d.rows \in Seq(Rows) BY <1>5
    <3> DEFINE z == d.rows
    <3> HIDE DEF z
    <3>c. z \in Seq(Rows) /\ j \in 1 .. Len(z) BY <3>a, <3>b DEF z
    <3>d. z[j] \in Rows BY <3>c
    <3>1. d.rows[j] \in Rows BY <3>d DEF z
    <3>q. QED BY <3>1, RowFields
  <2>4. k = l \/ l < k BY <1>3, <2>1
  <2>5. CASE k = l BY <1>7, <2>2, <2>3, <2>5 DEF Before
  <2>6. CASE l < k
    <3>1. Before(d.rows, p[l], p[k]) BY <1>5, <2>6
    <3>q. QED BY <1>7, <2>2, <2>3, <3>1 DEF Before
  <2>q. QED BY <2>4, <2>5, <2>6
<1>8. \A r : Allowed(d, r) <=> Allowed(tt, r) BY <1>3 DEF Allowed
<1>9. \A k \in 1 .. n : RowOf(k) \in 1 .. n /\ net.conns[k] = d.rows[RowOf(k)] BY <1>3, <1>6
<1>10. \A j \in 1 .. n : \E k \in 1 .. n : RowOf(k) = j BY <1>5, <1>6
<1>11. \A k, l \in 1 .. n : Before(d.rows, RowOf(k), RowOf(l)) => k < l BY <1>6, <1>7
<1>q. QED BY <1>1, <1>2, <1>3, <1>4, <1>8, <1>9, <1>10, <1>11 DEF d, n

\* A connection that can be ridden first has a label to board from.
LEMMA FirstIsOpen ==
  ASSUME TypeInv, BestInv, queue = {}, NEW i \in 1 .. Len(net.conns), RowOf(i) \in FirstRides(tt)
  PROVE  Allowed(tt, net.conns[i].pickup) /\ BoardingLabels(net.conns[i]) # {}
<1> DEFINE d == Directed(tt)
           c == net.conns[i]
<1>1. QueryInv /\ LabelsInv /\ HeldInv /\ RelaxedInv BY DEF TypeInv, BestInv
<1>2. c = d.rows[RowOf(i)] /\ \A r : Allowed(d, r) <=> Allowed(tt, r) BY <1>1, RowFacts
<1>3. d.sources = net.sources /\ d.at = net.start /\ net.start \in Int /\ c.from \in Stops /\ c.depTime \in Int
      /\ \A s \in net.sources : s.stop \in Stops /\ s.walk \in Nat
  BY <1>1, NetFacts DEF Endpoints
<1>4. Starts(d, RowOf(i), d.at) BY DEF FirstRides
<1>5. Allowed(tt, c.pickup) BY <1>2, <1>4 DEF Starts
<1>6. PICK s \in net.sources : OnFootFrom(s.stop, c.from, c.depTime - net.start - s.walk)
  BY <1>2, <1>3, <1>4 DEF Starts, OnFootFrom
<1> HIDE DEF c, d
<1>7. Reaches(s.stop, NoContext, net.start + s.walk) BY <1>1 DEF HeldInv
<1>8. /\ net.start + s.walk \in Int /\ c.depTime - net.start - s.walk \in Int
      /\ (net.start + s.walk) + (c.depTime - net.start - s.walk) = c.depTime
  BY <1>3
<1>9. Reaches(c.from, NoContext, c.depTime)
  <2> DEFINE a0 == net.start + s.walk
             x0 == c.depTime - net.start - s.walk
  <2>1. a0 \in Int /\ x0 \in Int /\ a0 + x0 = c.depTime BY <1>8
  <2>2. s.stop \in Stops BY <1>3
  <2>3. Reaches(s.stop, NoContext, a0) /\ OnFootFrom(s.stop, c.from, x0) BY <1>6, <1>7
  <2> HIDE DEF a0, x0
  <2>4. Reaches(c.from, NoContext, a0 + x0) BY <1>1, <1>3, <2>1, <2>2, <2>3, WalksAreDone
  <2>q. QED BY <2>1, <2>4
<1>10. PICK l \in labels : l.stop = c.from /\ l.ctx = NoContext /\ l.arrival <= c.depTime BY <1>9 DEF Reaches
<1>11. BoardingReady(l, c) = l.arrival BY <1>10 DEF BoardingReady, RulesFor, ReadyBy
<1>12. BoardingLabels(c) # {} BY <1>10, <1>11, BoardingIsOpen DEF c
<1>q. QED BY <1>5, <1>12 DEF c

\* A connection that can be changed to from one that was ridden has a label to
\* board from, unless the rules contradict each other.
LEMMA ChangeIsOpen ==
  ASSUME TypeInv, BestInv, queue = {}, NEW i \in 1 .. Len(net.conns), NEW k \in 1 .. Len(net.conns), Rode(k),
         Turns(tt, RowOf(k), RowOf(i))
  PROVE  Allowed(tt, net.conns[i].pickup) /\ (RulesConflict(net.conns[i]) \/ BoardingLabels(net.conns[i]) # {})
<1> DEFINE d == Directed(tt)
           c == net.conns[i]
           g == net.conns[k]
           ms == ChangeRules(d, RowOf(k), RowOf(i))
<1>1. QueryInv /\ LabelsInv /\ HeldInv /\ RelaxedInv BY DEF TypeInv, BestInv
<1>2. /\ c = d.rows[RowOf(i)] /\ g = d.rows[RowOf(k)] /\ \A r : Allowed(d, r) <=> Allowed(tt, r)
      /\ RowOf(k) \in 1 .. Len(tt.rows) /\ RowOf(i) \in 1 .. Len(tt.rows) /\ WellFormed(tt)
      /\ k \in DOMAIN net.conns
  BY <1>1, RowFacts
<1>3. /\ c.from \in Stops /\ g.to \in Stops /\ c.depTime \in Int /\ g.arrTime \in Int
      /\ net.rules = d.rules /\ net.rules \in Seq(Rules) /\ c.depTime < Infinity
  <2>1. /\ c.from \in Stops /\ g.to \in Stops /\ c.depTime \in Int /\ g.arrTime \in Int
        /\ net.rules = d.rules /\ net.rules \in Seq(Rules)
        /\ c.depTime <= c.arrTime /\ c.arrTime < Infinity /\ c.arrTime \in Int /\ Infinity \in Int
    BY <1>1, NetFacts
  <2> HIDE DEF c, g, d
  <2>q. QED BY <2>1
<1>4. OnTime(d, RowOf(k), RowOf(i)) BY <1>2, TurnsMean
<1>5. /\ Allowed(tt, g.dropOff) /\ Allowed(tt, c.pickup) /\ OnFootFrom(g.to, c.from, c.depTime - g.arrTime)
  BY <1>2, <1>4 DEF OnTime, Connects, OnFootFrom
<1>6. /\ Reaches(g.to, ContextOf(k), g.arrTime)
      /\ \A l \in labels : l.ctx # NoContext /\ l.ctx = ContextOf(k) => l.alight <= g.arrTime
  BY <1>1, <1>2, <1>5 DEF HeldInv
<1> HIDE DEF c, g, d
<1>7. Reaches(c.from, ContextOf(k), c.depTime)
  <2>1. c.depTime - g.arrTime \in Int /\ g.arrTime + (c.depTime - g.arrTime) = c.depTime BY <1>3
  <2>2. Reaches(c.from, ContextOf(k), g.arrTime + (c.depTime - g.arrTime))
    BY <1>1, <1>3, <1>5, <1>6, <2>1, WalksAreDone
  <2>q. QED BY <2>1, <2>2
<1>8. PICK l \in labels : l.stop = c.from /\ l.ctx = ContextOf(k) /\ l.arrival <= c.depTime BY <1>7 DEF Reaches
<1>9. RulesFor(l, c) = ms /\ (l.ctx = NoContext => RulesFor(l, c) = {}) BY <1>1, <1>8, RulesOfChange DEF c, d
<1>10. l.arrival \in Int /\ l.alight \in Int BY <1>1 DEF LabelsInv, LabelSet
<1>11. ASSUME ~RulesConflict(c) PROVE BoardingReady(l, c) <= c.depTime
  <2>1. CASE l.ctx = NoContext
    <3>1. BoardingReady(l, c) = l.arrival BY <1>9, <2>1 DEF BoardingReady, ReadyBy
    <3>q. QED BY <1>8, <3>1
  <2>2. CASE l.ctx # NoContext
    <3>1. ~Conflicting(net.rules, ms) BY <1>8, <1>9, <1>11 DEF RulesConflict, LabelsAt
    <3>2. Allows(d, RowOf(k), RowOf(i)) BY <1>2, <1>3, <3>1, TurnsMean DEF d
    <3>3. ChampionAllows(net.rules, ms, g.arrTime, c.depTime) BY <1>2, <1>3, <3>2 DEF Allows, g, c, d
    <3>4. ms \subseteq DOMAIN net.rules BY <1>3 DEF ChangeRules, MatchingRules
    <3> HIDE DEF ms
    <3>5. ReadyBy(net.rules, ms, g.arrTime, g.arrTime) <= c.depTime \/ ~(g.arrTime <= c.depTime)
      BY <1>3, <3>3, <3>4, ReadyMeans
    <3>6. l.alight <= g.arrTime BY <1>6, <1>8, <2>2
    <3>7. ChampionAllows(net.rules, ms, l.alight, c.depTime)
      <4> SUFFICES ASSUME ms # {}, net.rules[Champion(net.rules, ms)].type = "minimum"
                   PROVE  l.alight + net.rules[Champion(net.rules, ms)].min <= c.depTime
        BY <3>3 DEF ChampionAllows
      <4>1. g.arrTime + net.rules[Champion(net.rules, ms)].min <= c.depTime BY <3>3 DEF ChampionAllows
      <4>2. ms \subseteq Nat BY <3>4, <1>3
      <4>3. Champion(net.rules, ms) \in DOMAIN net.rules BY <3>4, <4>2, ChampionFacts
      <4>4. net.rules[Champion(net.rules, ms)] \in Rules BY <4>3, <1>3
      <4>5. net.rules[Champion(net.rules, ms)].min \in Nat BY <4>4 DEF Rules
      <4>q. QED BY <4>1, <4>5, <3>6, <1>3, <1>10
    <3>8. ReadyBy(net.rules, ms, l.arrival, l.alight) <= c.depTime
      BY <1>3, <1>8, <1>10, <3>4, <3>7, ReadyMeans
    <3>q. QED BY <3>8, <1>9 DEF BoardingReady
  <2>q. QED BY <2>1, <2>2
<1>12. RulesConflict(c) \/ BoardingLabels(c) # {} BY <1>8, <1>11, BoardingIsOpen DEF c
<1>q. QED BY <1>5, <1>12 DEF c

\* So a connection that can be ridden is never set aside.
LEMMA RideableIsOpen ==
  ASSUME TypeInv, OrderInv, RunsForward(tt), Sequenced(tt), BestInv, Scanning, NEW i, i = MinOf(todo), CanRide(i),
         ~Boarded(i), Continuations(i) = {}
  PROVE  Allowed(tt, net.conns[i].pickup) /\ (RulesConflict(net.conns[i]) \/ BoardingLabels(net.conns[i]) # {})
<1> DEFINE d == Directed(tt)
           n == Len(net.conns)
<1>1. /\ i \in todo /\ (\A k \in todo : i <= k) /\ i \in 1 .. next - 1 /\ i \in 1 .. n /\ queue = {}
  BY VisitedFacts
<1>2. QueryInv /\ BoardInv /\ RidesInv /\ next \in 1 .. n + 1 BY DEF TypeInv, BestInv, PassInv
<1>3. /\ WellFormed(tt) /\ Len(tt.rows) = n /\ n \in Nat /\ DOMAIN net.conns = 1 .. n
      /\ \A k \in 1 .. n : RowOf(k) \in 1 .. n /\ net.conns[k] = d.rows[RowOf(k)]
      /\ \A j \in 1 .. n : \E k \in 1 .. n : RowOf(k) = j
      /\ \A k, l \in 1 .. n : Before(d.rows, RowOf(k), RowOf(l)) => k < l
  BY <1>2, RowFacts
<1> HIDE DEF n
<1>4. CASE RowOf(i) \in FirstRides(tt) BY <1>1, <1>4, FirstIsOpen DEF n
<1>5. CASE RowOf(i) \notin FirstRides(tt)
  <2>1. PICK j \in Rides(tt) : j # RowOf(i) /\ Joined(tt, j, RowOf(i)) BY <1>3, <1>5, RidesFacts DEF CanRide
  <2>2. j \in 1 .. n /\ RowOf(i) \in 1 .. n BY <1>1, <1>3, RidesFacts
  <2>3. PICK k \in 1 .. n : RowOf(k) = j BY <1>3, <2>2
  <2>4. Before(d.rows, j, RowOf(i)) BY <1>3, <2>1, <2>2, JoinedInOrder
  <2>5. k < i BY <1>1, <1>3, <2>3, <2>4
  <2>6. Rode(k)
    <3>1. CanRide(k) BY <2>1, <2>3 DEF CanRide
    <3>2. Rode(k) \/ k \in todo \/ k >= next BY <1>2, <1>3, <3>1 DEF RidesInv
    <3>3. k \notin todo BY <1>1, <1>3, <2>5
    <3>4. ~(k >= next) BY <1>1, <1>2, <1>3, <2>5
    <3>q. QED BY <3>2, <3>3, <3>4
  <2>7. ~Adjoin(d, j, RowOf(i))
    <3>1. SUFFICES ASSUME Adjoin(d, j, RowOf(i)) PROVE FALSE OBVIOUS
    <3>2. net.conns[k].trip = net.conns[i].trip BY <1>1, <1>3, <2>3, <3>1 DEF Adjoin
    <3>q. QED BY <2>6, <3>2 DEF Rode, OnTrip, Boarded
  <2>8. ~(IsLast(d, j) /\ IsFirst(d, RowOf(i)) /\ MayStay(d, d.rows[j], d.rows[RowOf(i)]))
    <3>1. SUFFICES ASSUME IsLast(d, j), IsFirst(d, RowOf(i)), MayStay(d, d.rows[j], d.rows[RowOf(i)]) PROVE FALSE
      OBVIOUS
    <3>2. PICK l \in net.links : l.type = "stay" /\ LinkedAt(l, k, i)
      BY <1>1, <1>2, <1>3, <2>3, <3>1, StayIsLinked DEF n
    <3>3. l.fromTrip = net.conns[k].trip /\ \A m \in 1 .. n : net.conns[m].trip = l.fromTrip => m <= k
      <4>1. l.fromTrip = net.conns[k].trip BY <3>2 DEF LinkedAt
      <4>q. QED BY <1>2, <3>2, <4>1, LinkEnds DEF n
    <3>4. OnTrip(l.fromTrip) /\ k <= onboard[l.fromTrip].last BY <2>6, <3>3 DEF Rode
    <3>5. /\ onboard[l.fromTrip].last \in 1 .. next - 1
          /\ net.conns[onboard[l.fromTrip].last].trip = l.fromTrip
      <4>1. l.fromTrip \in Trips BY <1>2, <2>3, <3>3, NetFacts DEF n
      <4>q. QED BY <1>2, <3>4, <4>1 DEF BoardInv
    <3>6. onboard[l.fromTrip].last = k
      <4> DEFINE z == onboard[l.fromTrip].last
      <4>1. k <= z /\ z \in 1 .. next - 1 /\ (z \in 1 .. n => z <= k) BY <3>3, <3>4, <3>5
      <4> HIDE DEF z
      <4>2. z = k BY <1>2, <1>3, <2>3, <4>1
      <4>q. QED BY <4>2 DEF z
    <3>7. Continuations(i) # {} BY <1>1, <1>2, <3>2, <3>4, <3>6, ContinuationIsOpen DEF n
    <3>q. QED BY <3>7
  <2>9. Turns(tt, j, RowOf(i)) BY <1>3, <2>1, <2>2, <2>7, <2>8, JoinedMeans
  <2>q. QED BY <1>1, <2>3, <2>6, <2>9, ChangeIsOpen DEF n
<1>q. QED BY <1>4, <1>5

(***************************************************************************)
(* Visits of a connection.                                                 *)
(***************************************************************************)

\* A ride adds its connection to those that were ridden.
LEMMA RideRode ==
  ASSUME TypeInv, NEW i \in 1 .. Len(net.conns), NEW s \in States, Ride(i, s), s.board <= i,
         \A k \in DOMAIN net.conns : net.conns[k].trip = net.conns[i].trip /\ k # i =>
           (Rode(k) <=> s.board <= k /\ k <= i)
  PROVE  \A k \in DOMAIN net.conns : Rode(k)' <=> Rode(k) \/ k = i
<1> DEFINE t == net.conns[i].trip
           riding == [s EXCEPT !.last = i]
<1>0. QueryInv /\ BoardInv BY DEF TypeInv
<1>1. t \in Trips /\ \A k \in DOMAIN net.conns : net.conns[k].trip \in Trips BY <1>0, NetFacts
<1>2. riding.board = s.board /\ riding.last = i BY DEF States
<1>3. onboard' = [onboard EXCEPT ![t] = riding] /\ net' = net BY DEF Ride
<1>4. riding # NotBoarded
  <2>1. riding.last # 0 BY <1>2
  <2>2. NotBoarded.last = 0 BY DEF NotBoarded
  <2> HIDE DEF riding
  <2>q. QED BY <2>1, <2>2
<1> HIDE DEF riding
<1>5. onboard'[t] = riding /\ \A u \in Trips \ {t} : onboard'[u] = onboard[u] BY <1>0, <1>1, <1>3 DEF BoardInv
<1> SUFFICES ASSUME NEW k \in DOMAIN net.conns PROVE Rode(k)' <=> Rode(k) \/ k = i OBVIOUS
<1>6. Rode(k)' <=> /\ onboard'[net.conns[k].trip] # NotBoarded
                   /\ onboard'[net.conns[k].trip].board <= k /\ k <= onboard'[net.conns[k].trip].last
  BY <1>3 DEF Rode, OnTrip
<1>7. CASE net.conns[k].trip # t
  <2>1. onboard'[net.conns[k].trip] = onboard[net.conns[k].trip] BY <1>1, <1>5, <1>7
  <2>2. k # i BY <1>7
  <2>q. QED BY <1>6, <2>1, <2>2 DEF Rode, OnTrip
<1>8. CASE net.conns[k].trip = t /\ k # i BY <1>2, <1>4, <1>5, <1>6, <1>8
<1>9. CASE k = i BY <1>2, <1>4, <1>5, <1>6, <1>9
<1>q. QED BY <1>7, <1>8, <1>9

\* A trip that is boarded was not ridden before.
LEMMA BoardingRode ==
  ASSUME TypeInv, NEW i \in 1 .. Len(net.conns), ~Boarded(i), NEW s \in States, s.board = i, Ride(i, s)
  PROVE  /\ \A k \in DOMAIN net.conns : Rode(k)' <=> Rode(k) \/ k = i
         /\ \A k \in DOMAIN net.conns : ~(Rode(k) /\ net.conns[k].trip = net.conns[i].trip)
<1>1. \A k \in DOMAIN net.conns : net.conns[k].trip = net.conns[i].trip => ~Rode(k) BY DEF Rode, OnTrip, Boarded
<1>2. DOMAIN net.conns = 1 .. Len(net.conns) BY NetFacts DEF TypeInv
<1>3. \A k \in DOMAIN net.conns : k # i => ~(s.board <= k /\ k <= i) BY <1>2
<1>q. QED BY <1>1, <1>3, RideRode

\* A trip that is ridden on is ridden one segment further.
LEMMA RideOnFacts ==
  ASSUME TypeInv, OrderInv, RunsForward(tt), Scanning, NEW i, i = MinOf(todo), RideOn(i)
  PROVE  LET s == onboard[net.conns[i].trip]
         IN  /\ s \in States /\ Ride(i, s) /\ s.board \in 1 .. Len(net.conns) /\ s.last \in 1 .. Len(net.conns)
             /\ s.board <= s.last /\ s.last < i /\ i \in 1 .. Len(net.conns)
             /\ net.conns[s.last].trip = net.conns[i].trip
             /\ OnTrip(net.conns[i].trip)
             /\ Adjoin(Directed(tt), RowOf(s.last), RowOf(i))
             /\ \A k \in DOMAIN net.conns : net.conns[k].trip = net.conns[i].trip /\ k > s.last => k >= i
<1> DEFINE t == net.conns[i].trip
           s == onboard[t]
           n == Len(net.conns)
           q == Directed(tt)
           p == Place(q.rows)
<1>1. /\ i \in todo /\ \A k \in todo : i <= k
      /\ i \in group /\ i \in 1 .. next - 1 /\ i \in 1 .. n /\ queue = {}
  BY VisitedFacts
<1>2. QueryInv /\ PassInv /\ BoardInv /\ next \in 1 .. n + 1 BY DEF TypeInv, PassInv
<1>3. t \in Trips /\ DOMAIN net.conns = 1 .. n /\ n \in Nat /\ net.conns[i].depTime \in Int
  BY <1>1, <1>2, NetFacts
<1>4. OnTrip(t) /\ Ride(i, s) /\ net.conns[s.last].to = net.conns[i].from
      /\ ~(net.conns[s.last].arrTime > net.conns[i].depTime)
  BY DEF RideOn, Boarded, Detached, OnTrip
<1>5. /\ s \in States /\ s.board \in 1 .. next - 1 /\ s.last \in 1 .. next - 1
      /\ net.conns[s.board].trip = t /\ net.conns[s.last].trip = t
  BY <1>2, <1>3, <1>4 DEF BoardInv
<1>6. s.board \in 1 .. n /\ s.last \in 1 .. n
  <2> HIDE DEF n, s
  <2>q. QED BY <1>2, <1>3, <1>5
<1>7. /\ s.board <= s.last
      /\ \A k \in DOMAIN net.conns : net.conns[k].trip = t /\ k > s.last => k \in todo \/ k >= next
      /\ \A k \in todo : net.conns[k].trip = t => k < s.board \/ k > s.last
  BY <1>3, <1>4 DEF OrderInv
<1>8. i > s.last
  <2>2. i < s.board \/ i > s.last BY <1>1, <1>7
  <2>3. ~(i < s.last)
    <3>1. ASSUME i < s.last PROVE FALSE
      <4>1. net.conns[s.last].to # net.conns[i].from \/ net.conns[s.last].arrTime > net.conns[i].depTime
        <5> HIDE DEF s
        <5>q. QED BY <1>1, <1>2, <1>5, <1>6, <3>1, EarlierIsDetached DEF t, n
      <4>q. QED BY <1>4, <4>1
    <3>q. QED BY <3>1
  <2> HIDE DEF s, n
  <2>q. QED BY <1>1, <1>3, <1>6, <1>7, <2>2, <2>3
<1>9. /\ p[i] = p[s.last] + 1 /\ p[i] \in 1 .. n /\ p[s.last] \in 1 .. n
      /\ net.conns[i] = q.rows[p[i]] /\ net.conns[s.last] = q.rows[p[s.last]]
  BY <1>1, <1>3, <1>4, <1>8, RidesInOrder
<1>10. Adjoin(q, p[s.last], p[i])
  <2>1. net.conns[s.last].arrTime \in Int BY <1>2, <1>6, NetFacts
  <2>3. net.conns[s.last].trip = net.conns[i].trip BY <1>5
  <2> HIDE DEF s, p, q
  <2>q. QED BY <1>3, <1>4, <1>9, <2>1, <2>3 DEF Adjoin
<1>11. ASSUME NEW k \in DOMAIN net.conns, net.conns[k].trip = t, k > s.last PROVE k >= i
  <2>1. k \in todo \/ k >= next BY <1>7, <1>11
  <2>2. k \in todo => i <= k BY <1>1
  <2>3. k \in Int /\ next \in Int /\ i < next BY <1>1, <1>2, <1>3
  <2>q. QED BY <1>1, <2>1, <2>2, <2>3
<1> HIDE DEF s, n, q, p
<1>12. s.last < i BY <1>1, <1>6, <1>8
<1>q. QED BY <1>1, <1>4, <1>5, <1>6, <1>7, <1>10, <1>11, <1>12 DEF s, n, q, p, RowOf

\* What follows a connection that was ridden can be ridden.
LEMMA NextIsRideable ==
  ASSUME QueryInv, RidesInv, NEW k \in 1 .. Len(net.conns), NEW i \in 1 .. Len(net.conns), Rode(k),
         Joined(tt, RowOf(k), RowOf(i))
  PROVE  CanRide(i)
<1>1. /\ WellFormed(tt) /\ Len(tt.rows) = Len(net.conns) /\ DOMAIN net.conns = 1 .. Len(net.conns)
      /\ RowOf(i) \in 1 .. Len(net.conns)
  BY RowFacts
<1>2. RowOf(k) \in Rides(tt) BY <1>1 DEF RidesInv, CanRide
<1>q. QED BY <1>1, <1>2, RidesFacts DEF CanRide

\* Riding on keeps the invariant.
LEMMA BestRideOn ==
  ASSUME TypeInv, OrderInv, RunsForward(tt), BestInv, Scanning, NEW i, i = MinOf(todo), RideOn(i)
  PROVE  BestInv'
<1> DEFINE t == net.conns[i].trip
           s == onboard[t]
           n == Len(net.conns)
           d == Directed(tt)
<1>1. /\ s \in States /\ Ride(i, s) /\ s.board \in 1 .. n /\ s.last \in 1 .. n
      /\ s.board <= s.last /\ s.last < i /\ i \in 1 .. n
      /\ net.conns[s.last].trip = t /\ OnTrip(t)
      /\ Adjoin(d, RowOf(s.last), RowOf(i))
      /\ \A k \in DOMAIN net.conns : net.conns[k].trip = t /\ k > s.last => k >= i
  BY RideOnFacts
<1>2. QueryInv /\ RidesInv /\ DOMAIN net.conns = 1 .. n /\ n \in Nat BY NetFacts DEF TypeInv, BestInv
<1>3. /\ WellFormed(tt) /\ Len(tt.rows) = n /\ \A k \in 1 .. n : RowOf(k) \in 1 .. n
  BY <1>2, RowFacts
<1> HIDE DEF n
<1>4. \A k \in DOMAIN net.conns : net.conns[k].trip = t => (Rode(k) <=> s.board <= k /\ k <= s.last)
  BY <1>1 DEF Rode
<1>5. CanRide(i)
  <2> DEFINE x == s.last
  <2>a. x \in 1 .. n /\ net.conns[x].trip = t /\ s.board <= x BY <1>1
  <2>b. \A u \in 1 .. n : u <= u BY <1>2
  <2>1. x \in 1 .. n /\ net.conns[x].trip = t /\ s.board <= x /\ x <= x BY <2>a, <2>b
  <2>2. Rode(x) BY <1>2, <1>4, <2>1
  <2>3. RowOf(x) \in 1 .. n /\ RowOf(i) \in 1 .. n BY <1>1, <1>3, <2>1
  <2>4. Joined(tt, RowOf(x), RowOf(i)) BY <1>1, <1>3, <2>3, JoinedMeans
  <2> HIDE DEF x
  <2>q. QED BY <1>1, <1>2, <2>1, <2>2, <2>4, NextIsRideable DEF n
<1> HIDE DEF s
<1>6. ASSUME NEW k \in DOMAIN net.conns, net.conns[k].trip = t, k # i
      PROVE  Rode(k) <=> s.board <= k /\ k <= i
  <2>1. k \in Int BY <1>2
  <2>2. k > s.last => k >= i BY <1>1, <1>6
  <2>q. QED BY <1>1, <1>4, <1>6, <2>1, <2>2
<1>7. \A k \in DOMAIN net.conns : Rode(k)' <=> Rode(k) \/ k = i
  <2>1. s.board <= i BY <1>1
  <2>q. QED BY <1>1, <1>6, <2>1, RideRode DEF n
<1>8. \A k \in DOMAIN net.conns : Rode(k) /\ net.conns[k].trip = t => k < i BY <1>1, <1>2, <1>4
<1>q. QED BY <1>1, <1>5, <1>7, <1>8, BestRide DEF n

\* Boarding a trip as the continuation of one that was ridden keeps it.
LEMMA BestStayOnboard ==
  ASSUME TypeInv, OrderInv, LinkInv, Orderly(tt), BestInv, Scanning, NEW i, i = MinOf(todo), StayOnboard(i)
  PROVE  BestInv'
<1> DEFINE n == Len(net.conns)
           c == net.conns[i]
           d == Directed(tt)
<1>1. i \in 1 .. n /\ ~Boarded(i) BY VisitedFacts DEF StayOnboard
<1>2. PICK s \in Continuations(i) : Ride(i, s) BY DEF StayOnboard
<1>3. PICK l \in net.links :
        /\ l.type = "stay" /\ l.toTrip = c.trip /\ l.fromTrip \in Trips /\ OnTrip(l.fromTrip)
        /\ s \in States /\ s.board = i
  BY <1>1, ContinuationFacts
<1> DEFINE k == onboard[l.fromTrip].last
<1>4. LinkedAt(l, k, i) BY <1>1, <1>3, ContinuationIsFromTheEnd
<1>5. QueryInv /\ BoardInv /\ RidesInv /\ RunsForward(tt) BY DEF TypeInv, BestInv, Orderly
<1>6. /\ k \in 1 .. n /\ net.conns[k].trip = l.fromTrip /\ IsLast(d, RowOf(k)) /\ IsFirst(d, RowOf(i))
      /\ MayStay(d, net.conns[k], net.conns[i])
  BY <1>4 DEF LinkedAt, RowOf
<1>7. Rode(k)
  <2>1. onboard[l.fromTrip].board <= k BY <1>3 DEF OrderInv
  <2>2. k <= k BY <1>6
  <2>q. QED BY <1>3, <1>6, <2>1, <2>2 DEF Rode
<1>8. /\ WellFormed(tt) /\ Len(tt.rows) = n /\ \A m \in 1 .. n : RowOf(m) \in 1 .. n /\ net.conns[m] = d.rows[RowOf(m)]
  BY <1>5, RowFacts
<1>9. CanRide(i)
  <2> HIDE DEF k, n
  <2>1. RowOf(k) \in 1 .. n /\ RowOf(i) \in 1 .. n
        /\ MayStay(d, d.rows[RowOf(k)], d.rows[RowOf(i)])
    BY <1>1, <1>6, <1>8
  <2>2. Joined(tt, RowOf(k), RowOf(i)) BY <1>6, <1>8, <2>1, JoinedMeans
  <2>q. QED BY <1>1, <1>5, <1>6, <1>7, <2>2, NextIsRideable DEF n
<1>10. /\ \A m \in DOMAIN net.conns : Rode(m)' <=> Rode(m) \/ m = i
       /\ \A m \in DOMAIN net.conns : ~(Rode(m) /\ net.conns[m].trip = net.conns[i].trip)
  BY <1>1, <1>2, <1>3, BoardingRode
<1>11. s.board \in 1 .. n BY <1>1, <1>3
<1>q. QED BY <1>2, <1>3, <1>5, <1>9, <1>10, <1>11, BestRide

\* A passenger who may board at a label can ride the connection.
LEMMA BoardedIsRideable ==
  ASSUME TypeInv, BestInv, NEW i \in 1 .. Len(net.conns), NEW l \in BoardingLabels(net.conns[i]),
         Allowed(tt, net.conns[i].pickup), ~RulesConflict(net.conns[i])
  PROVE  CanRide(i)
<1> DEFINE d == Directed(tt)
           c == net.conns[i]
           n == Len(net.conns)
<1>1. QueryInv /\ RidesInv /\ WitnessInv /\ LabelsInv BY DEF TypeInv, BestInv
<1>2. l \in labels /\ l \in LabelSet /\ l.stop = c.from /\ BoardingReady(l, c) <= c.depTime BY BoardingFacts
<1>3. l.arrival \in Int /\ l.alight \in Int /\ l.arrival >= net.start BY <1>1, <1>2 DEF LabelSet, LabelsInv
<1>4. /\ WellFormed(tt) /\ Len(tt.rows) = n /\ n \in Nat /\ DOMAIN net.conns = 1 .. n
      /\ \A m \in 1 .. n : RowOf(m) \in 1 .. n /\ net.conns[m] = d.rows[RowOf(m)]
      /\ \A r : Allowed(d, r) <=> Allowed(tt, r)
  BY <1>1, RowFacts
<1>5. /\ c.from \in Stops /\ c.depTime \in Int /\ c.arrTime \in Int /\ c.depTime <= c.arrTime /\ c.arrTime < Infinity
      /\ net.rules = d.rules /\ net.rules \in Seq(Rules) /\ net.start \in Int /\ Infinity \in Int
      /\ d.sources = net.sources /\ d.at = net.start
      /\ \A k \in 1 .. n : net.conns[k].to \in Stops /\ net.conns[k].arrTime \in Int
      /\ \A s \in net.sources : s.stop \in Stops /\ s.walk \in Nat
  BY <1>1, NetFacts DEF Endpoints
<1> HIDE DEF c, n
<1>6. c.depTime < Infinity BY <1>5
<1>7. CASE WalkedHere(l)
  <2>1. PICK s \in net.sources : OnFootFrom(s.stop, l.stop, l.arrival - net.start - s.walk)
    BY <1>7 DEF WalkedHere
  <2>2. l.arrival <= c.depTime
    <3>1. RulesFor(l, c) = {} BY <1>7 DEF WalkedHere, RulesFor
    <3>q. QED BY <1>2, <3>1 DEF BoardingReady, ReadyBy
  <2> DEFINE x == l.arrival - net.start - s.walk
             y == c.depTime - net.start - s.walk
  <2>a. /\ s.walk \in Nat /\ l.arrival \in Int /\ c.depTime \in Int /\ net.start \in Int
        /\ l.arrival <= c.depTime
    BY <1>3, <1>5, <2>2
  <2>b. \A u, v, w, z \in Int : u <= v => u - w - z \in Int /\ v - w - z \in Int /\ u - w - z <= v - w - z
    OBVIOUS
  <2>c. s.walk \in Int BY <2>a
  <2>3. s.walk \in Nat /\ x \in Int /\ y \in Int /\ x <= y BY <2>a, <2>b, <2>c
  <2>4. s.stop \in Stops /\ OnFootFrom(s.stop, c.from, x) BY <1>2, <1>5, <2>1
  <2> HIDE DEF x, y
  <2>5. OnFootFrom(s.stop, c.from, y) BY <1>1, <2>3, <2>4, OnFootFacts
  <2>6. OnFootFrom(s.stop, d.rows[RowOf(i)].from, d.rows[RowOf(i)].depTime - d.at - s.walk)
    BY <1>4, <1>5, <2>5 DEF y, c, n
  <2>7. Allowed(d, d.rows[RowOf(i)].pickup) BY <1>4 DEF n
  <2>8. Starts(d, RowOf(i), d.at) BY <1>5, <2>6, <2>7 DEF Starts, OnFootFrom
  <2>9. RowOf(i) \in FirstRides(tt) BY <1>4, <2>8 DEF FirstRides, n
  <2>q. QED BY <1>4, <2>9, RidesFacts DEF CanRide
<1>8. CASE RodeHere(l)
  <2>1. PICK k \in DOMAIN net.conns :
          /\ Rode(k) /\ Allowed(tt, net.conns[k].dropOff)
          /\ l.ctx = ContextOf(k) /\ l.alight = net.conns[k].arrTime
          /\ OnFootFrom(net.conns[k].to, l.stop, l.arrival - net.conns[k].arrTime)
    BY <1>8 DEF RodeHere
  <2> DEFINE g == net.conns[k]
             ms == ChangeRules(d, RowOf(k), RowOf(i))
             x == l.arrival - g.arrTime
             y == c.depTime - g.arrTime
  <2>2. k \in 1 .. n /\ g = d.rows[RowOf(k)] /\ g.to \in Stops /\ g.arrTime \in Int BY <1>4, <1>5, <2>1
  <2>3. RulesFor(l, c) = ms /\ (l.ctx = NoContext => RulesFor(l, c) = {}) BY <1>1, <2>1, <2>2, RulesOfChange DEF c, n
  <2>4. ~Conflicting(net.rules, ms) BY <1>2, <2>3 DEF RulesConflict, LabelsAt, c
  <2>5. ms \subseteq DOMAIN net.rules BY <1>5 DEF ChangeRules, MatchingRules
  <2> HIDE DEF ms, g
  <2>6. l.arrival <= c.depTime /\ ChampionAllows(net.rules, ms, g.arrTime, c.depTime)
    <3>1. CASE l.ctx = NoContext
      <4>1. ms = {} BY <2>3, <3>1
      <4>2. l.arrival <= c.depTime BY <1>2, <2>3, <4>1 DEF BoardingReady, ReadyBy
      <4>q. QED BY <4>1, <4>2 DEF ChampionAllows
    <3>2. CASE l.ctx # NoContext
      <4>1. BoardingReady(l, c) = ReadyBy(net.rules, ms, l.arrival, l.alight) BY <2>3, <3>2 DEF BoardingReady
      <4>2. l.alight = g.arrTime BY <2>1 DEF g
      <4>3. ReadyBy(net.rules, ms, l.arrival, g.arrTime) <= c.depTime BY <1>2, <4>1, <4>2
      <4>q. QED BY <1>3, <1>5, <1>6, <2>2, <2>5, <4>3, ReadyMeans
    <3>q. QED BY <3>1, <3>2
  <2>7. OnFootFrom(g.to, c.from, y)
    <3>1. x \in Int /\ y \in Int /\ x <= y BY <1>3, <1>5, <2>2, <2>6
    <3>2. OnFootFrom(g.to, c.from, x) BY <1>2, <2>1 DEF g
    <3> HIDE DEF x, y
    <3>q. QED BY <1>1, <2>2, <3>1, <3>2, OnFootFacts
  <2>8. c = d.rows[RowOf(i)] /\ RowOf(i) \in 1 .. Len(tt.rows) /\ RowOf(k) \in 1 .. Len(tt.rows)
    BY <1>4, <2>2 DEF c, n
  <2>9. Allowed(d, g.dropOff) /\ Allowed(d, c.pickup) BY <1>4, <2>1 DEF c, g
  <2>10. OnTime(d, RowOf(k), RowOf(i)) /\ Allows(d, RowOf(k), RowOf(i))
    BY <1>5, <2>2, <2>6, <2>7, <2>8, <2>9 DEF OnTime, Connects, OnFootFrom, Allows, ms
  <2>11. Turns(tt, RowOf(k), RowOf(i)) BY <1>4, <1>5, <2>4, <2>8, <2>10, TurnsMean DEF ms
  <2>12. Joined(tt, RowOf(k), RowOf(i)) BY <1>4, <2>8, <2>11, JoinedMeans
  <2>q. QED BY <1>1, <2>1, <2>2, <2>12, NextIsRideable DEF n
<1>q. QED BY <1>1, <1>2, <1>7, <1>8 DEF WitnessInv

\* Boarding a trip at a stop keeps it.
LEMMA BestBoard ==
  ASSUME TypeInv, RunsForward(tt), BestInv, Scanning, NEW i, i = MinOf(todo), Board(i)
  PROVE  BestInv'
<1>1. i \in 1 .. Len(net.conns) /\ ~Boarded(i) BY VisitedFacts DEF Board, MayBoard
<1>2. PICK l \in BoardingLabels(net.conns[i]) :
        Ride(i, [board |-> i, legs |-> l.legs, stay |-> FALSE, last |-> i])
  BY DEF Board
<1> DEFINE s == [board |-> i, legs |-> l.legs, stay |-> FALSE, last |-> i]
<1>3. s \in States /\ s.board = i /\ Ride(i, s) BY <1>1, <1>2, BoardingFacts
<1>4. CanRide(i) BY <1>1, <1>2, BoardedIsRideable DEF Board, MayBoard
<1> HIDE DEF s
<1>5. /\ \A m \in DOMAIN net.conns : Rode(m)' <=> Rode(m) \/ m = i
      /\ \A m \in DOMAIN net.conns : ~(Rode(m) /\ net.conns[m].trip = net.conns[i].trip)
  BY <1>1, <1>3, BoardingRode
<1>6. s.board \in 1 .. Len(net.conns) BY <1>1, <1>3
<1>q. QED BY <1>3, <1>4, <1>5, <1>6, BestRide

\* What the invariant says of labels and of the target depends on nothing else.
LEMMA BestKept ==
  ASSUME BestInv, UNCHANGED <<tt, net, scanVars>>, RidesInv', EndInv'
  PROVE  BestInv'
<1>1. /\ labels' = labels /\ queue' = queue /\ target' = target /\ onboard' = onboard
      /\ tt' = tt /\ net' = net
  BY DEF scanVars
<1>2. \A k : Rode(k)' <=> Rode(k) BY <1>1 DEF Rode, OnTrip
<1>3. \A s, c, by : Reaches(s, c, by)' <=> Reaches(s, c, by) BY <1>1 DEF Reaches
<1>4. WitnessInv'
  <2> DEFINE new == {}
  <2>1. labels' \cup queue' \subseteq labels \cup queue \cup new BY <1>1
  <2>2. \A k \in DOMAIN net.conns : Rode(k) => Rode(k)' BY <1>2
  <2>3. WitnessInv /\ UNCHANGED <<tt, net>> BY DEF BestInv
  <2>4. \A l \in new : RodeHere(l)' \/ WalkedHere(l)' OBVIOUS
  <2> HIDE DEF new
  <2>q. QED BY <1>1, <2>1, <2>2, <2>3, <2>4, WitnessStep
<1>5. HeldInv'
  <2>1. HeldInv BY DEF BestInv
  <2>q. QED BY <1>1, <2>1 DEF HeldInv, Rode, OnTrip, Reaches, ContextOf
<1>6. RelaxedInv' /\ TargetLeast' BY <1>1 DEF BestInv, RelaxedInv, TargetLeast, Reaches
<1>q. QED BY <1>4, <1>5, <1>6 DEF BestInv

\* A visit that comes to nothing, of a connection that cannot be ridden.
LEMMA BestVisit ==
  ASSUME TypeInv, BestInv, Scanning, NEW i, i = MinOf(todo), ~CanRide(i), NEW reached \in BOOLEAN, Visit(i, reached),
         UNCHANGED <<tt, net, scanVars, outcome>>
  PROVE  BestInv'
<1>1. i \in todo /\ (\A k \in todo : i <= k) /\ i \in 1 .. Len(net.conns) /\ outcome = "running" BY VisitedFacts
<1>2. /\ todo' = todo \ {i} /\ retry' \subseteq retry \cup {i} /\ next' = next
      /\ onboard' = onboard /\ tt' = tt /\ net' = net /\ outcome' = outcome
  BY DEF Visit, scanVars
<1>3. next \in Int /\ todo \subseteq Int
  <2>1. /\ Len(net.conns) \in Nat /\ next \in 1 .. Len(net.conns) + 1 /\ todo \subseteq 1 .. next - 1
    BY NetFacts DEF TypeInv, PassInv
  <2>q. QED BY <2>1
<1>4. RidesInv BY DEF BestInv
<1>5. \A k : (Rode(k)' <=> Rode(k)) /\ (CanRide(k)' <=> CanRide(k)) BY <1>2 DEF Rode, OnTrip, CanRide, RowOf
<1>6. ASSUME NEW k \in todo', CanRide(k) PROVE k .. next - 1 \subseteq todo'
  <2>1. k .. next - 1 \subseteq todo BY <1>2, <1>4, <1>6 DEF RidesInv
  <2>2. i < k /\ k \in Int BY <1>1, <1>2, <1>3
  <2>q. QED BY <1>2, <2>1, <2>2
<1>7. ASSUME NEW k \in DOMAIN net.conns, CanRide(k) PROVE Rode(k) \/ k \in todo' \/ k >= next
  <2>1. k # i BY <1>7
  <2>q. QED BY <1>2, <1>4, <1>7, <2>1 DEF RidesInv
<1>8. \A k \in retry' : ~CanRide(k) BY <1>2, <1>4 DEF RidesInv
<1>9. \A k \in DOMAIN net.conns : Rode(k) => CanRide(k) BY <1>4 DEF RidesInv
<1>10. RidesInv' BY <1>2, <1>5, <1>6, <1>7, <1>8, <1>9 DEF RidesInv
<1>11. EndInv' BY <1>1, <1>2 DEF EndInv
<1>q. QED BY <1>10, <1>11, BestKept

\* A visit of a connection keeps the invariant.
LEMMA BestScanConnection ==
  ASSUME TypeInv, OrderInv, LinkInv, Orderly(tt), Sequenced(tt), BestInv, ScanConnection
  PROVE  BestInv'
<1> DEFINE i == MinOf(todo)
           t == net.conns[i].trip
           n == Len(net.conns)
<1>0. Scanning /\ ProcessConnection(i) /\ RunsForward(tt) BY DEF ScanConnection, Orderly
<1>1. /\ i \in todo /\ (\A k \in todo : i <= k) /\ i \in 1 .. next - 1 /\ i \in 1 .. n
  BY <1>0, VisitedFacts
<1>2. QueryInv /\ BoardInv /\ RidesInv /\ n \in Nat /\ DOMAIN net.conns = 1 .. n BY NetFacts DEF TypeInv, BestInv
<1> HIDE DEF i
<1>3. CASE BeforeBoarding(i)
  <2>1. OnTrip(t) /\ onboard[t].board > i BY <1>3 DEF BeforeBoarding, Boarded, OnTrip
  <2>2. t \in Trips BY <1>1, <1>2, NetFacts
  <2>3. /\ onboard[t].board \in 1 .. next - 1 /\ net.conns[onboard[t].board].trip = t
        /\ onboard[t].board <= onboard[t].last /\ onboard[t].last \in 1 .. next - 1
        /\ \A k \in todo : net.conns[k].trip = t => k < onboard[t].board \/ k > onboard[t].last
    BY <1>2, <2>1, <2>2 DEF BoardInv, OrderInv
  <2>4. ~CanRide(i)
    <3> DEFINE b == onboard[t].board
    <3>1. SUFFICES ASSUME CanRide(i) PROVE FALSE OBVIOUS
    <3>2. i .. next - 1 \subseteq todo BY <1>1, <1>2, <3>1 DEF RidesInv
    <3>3. /\ b > i /\ b \in 1 .. next - 1 /\ net.conns[b].trip = t
          /\ b <= onboard[t].last /\ onboard[t].last \in 1 .. next - 1
          /\ \A k \in todo : net.conns[k].trip = t => k < b \/ k > onboard[t].last
      BY <2>1, <2>3
    <3> HIDE DEF b
    <3>4. b \in i .. next - 1 BY <1>1, <3>3
    <3>5. b \in todo BY <3>2, <3>4
    <3>q. QED BY <3>3, <3>5
  <2>5. Visit(i, TRUE) /\ UNCHANGED <<tt, net, scanVars, outcome>> BY <1>3 DEF BeforeBoarding
  <2>q. QED BY <1>0, <2>4, <2>5, BestVisit DEF i
<1>4. CASE NotContiguous(i) \/ RuleError(i)
  <2>1. UNCHANGED <<tt, net, scanVars, passVars>> /\ outcome' = "failed" BY <1>4 DEF NotContiguous, RuleError
  <2>2. RidesInv' BY <1>2, <2>1 DEF RidesInv, scanVars, passVars, Rode, OnTrip, CanRide, RowOf
  <2>3. EndInv' BY <2>1 DEF EndInv
  <2>q. QED BY <2>1, <2>2, <2>3, BestKept
<1>5. CASE RideOn(i) BY <1>0, <1>5, BestRideOn DEF i
<1>6. CASE StayOnboard(i) BY <1>0, <1>6, BestStayOnboard DEF i
<1>7. CASE Board(i) BY <1>0, <1>7, BestBoard DEF i
<1>8. CASE NotReachable(i)
  <2>1. /\ ~Boarded(i) /\ Continuations(i) = {}
        /\ Allowed(tt, net.conns[i].pickup) => ~RulesConflict(net.conns[i]) /\ BoardingLabels(net.conns[i]) = {}
        /\ Visit(i, FALSE) /\ UNCHANGED <<tt, net, scanVars, outcome>>
    BY <1>8 DEF NotReachable
  <2>2. ~CanRide(i)
    <3>1. SUFFICES ASSUME CanRide(i) PROVE FALSE OBVIOUS
    <3>2. /\ Allowed(tt, net.conns[i].pickup)
          /\ RulesConflict(net.conns[i]) \/ BoardingLabels(net.conns[i]) # {}
      BY <1>0, <2>1, <3>1, RideableIsOpen DEF i
    <3>q. QED BY <2>1, <3>2
  <2>q. QED BY <1>0, <2>1, <2>2, BestVisit DEF i
<1>q. QED BY <1>0, <1>3, <1>4, <1>5, <1>6, <1>7, <1>8 DEF ProcessConnection

\* After a pass, whatever can be ridden has been; so another is of no use to it.
LEMMA BestNextPass ==
  ASSUME BestInv, NextPass
  PROVE  BestInv'
<1>1. /\ todo = {} /\ todo' = retry /\ retry' = {} /\ next' = next /\ outcome = "running"
      /\ UNCHANGED <<tt, net, scanVars>> /\ outcome' = outcome /\ onboard' = onboard /\ tt' = tt /\ net' = net
  BY DEF NextPass, PassOver, scanVars
<1>2. \A k : (Rode(k)' <=> Rode(k)) /\ (CanRide(k)' <=> CanRide(k)) BY <1>1 DEF Rode, OnTrip, CanRide, RowOf
<1>3. RidesInv' BY <1>1, <1>2 DEF BestInv, RidesInv
<1>4. EndInv' BY <1>1 DEF EndInv
<1>q. QED BY <1>1, <1>3, <1>4, BestKept

\* A group that is taken up is visited whole.
LEMMA BestNextGroup ==
  ASSUME TypeInv, GroupInv, BestInv, NextGroup
  PROVE  BestInv'
<1>0. QueryInv /\ PassInv BY DEF TypeInv
<1>1. /\ next \in 1 .. Len(net.conns) /\ next' \in next + 1 .. Len(net.conns) + 1
      /\ todo' = next .. next' - 1 /\ retry' = {}
      /\ UNCHANGED <<tt, net, scanVars>> /\ outcome' = outcome
  BY <1>0, NextGroupFacts
<1>2. todo = {} /\ outcome = "running" /\ onboard' = onboard /\ tt' = tt /\ net' = net
  BY DEF NextGroup, PassOver, scanVars
<1>3. DOMAIN net.conns = 1 .. Len(net.conns) BY <1>0, NetFacts
<1>4. \A k : (Rode(k)' <=> Rode(k)) /\ (CanRide(k)' <=> CanRide(k)) BY <1>2 DEF Rode, OnTrip, CanRide, RowOf
<1>5. RidesInv BY DEF BestInv
<1> DEFINE a == next
           b == next'
<1>6. a \in Int /\ b \in Int /\ todo' = a .. b - 1
  <2>1. Len(net.conns) \in Nat BY <1>0, NetFacts
  <2>q. QED BY <1>1, <2>1
<1> HIDE DEF a, b
<1>7. ASSUME NEW k \in DOMAIN net.conns, CanRide(k) PROVE Rode(k) \/ k \in todo' \/ k >= b
  <2>1. Rode(k) \/ k >= a BY <1>2, <1>5, <1>7 DEF RidesInv, a
  <2>2. k \in Int BY <1>3
  <2>q. QED BY <1>6, <2>1, <2>2
<1>8. \A k \in todo' : k .. b - 1 \subseteq todo' BY <1>6
<1>9. RidesInv' BY <1>1, <1>2, <1>4, <1>5, <1>7, <1>8 DEF RidesInv, b
<1>10. EndInv' BY <1>1, <1>2 DEF EndInv
<1>q. QED BY <1>1, <1>9, <1>10, BestKept

\* The scan ends when what is left departs too late; or it is cancelled, or nothing happens.
LEMMA BestFinish ==
  ASSUME BestInv, Finish \/ Cancel \/ UNCHANGED vars
  PROVE  BestInv'
<1>1. UNCHANGED <<tt, net, scanVars, passVars>> BY DEF Finish, Cancel, vars
<1>2. RidesInv' BY <1>1 DEF BestInv, RidesInv, scanVars, passVars, Rode, OnTrip, CanRide, RowOf
<1>3. EndInv'
  <2>1. Exhausted' <=> Exhausted BY <1>1 DEF Exhausted, Found, scanVars, passVars
  <2>2. queue' = queue /\ todo' = todo BY <1>1 DEF scanVars, passVars
  <2>3. CASE Finish BY <2>1, <2>2, <2>3 DEF Finish, PassOver, EndInv
  <2>4. CASE Cancel BY <2>4 DEF Cancel, EndInv
  <2>5. CASE UNCHANGED vars BY <2>1, <2>2, <2>5 DEF vars, BestInv, EndInv
  <2>q. QED BY <2>3, <2>4, <2>5
<1>q. QED BY <1>1, <1>2, <1>3, BestKept

\* The scan starts with a label for every source, and with nothing ridden that
\* could not be.
LEMMA BestInit ==
  ASSUME Init
  PROVE  BestInv
<1> DEFINE n == Len(net.conns)
           d == Directed(tt)
           seeds == {s \in net.sources : \A o \in net.sources : o.stop = s.stop => s.walk <= o.walk}
<1>1. TypeInv BY TypeInit
<1>2. QueryInv /\ LabelsInv BY <1>1 DEF TypeInv
<1>3. /\ labels = {SeedLabel(net, e) : e \in seeds} /\ queue = labels
      /\ onboard = [t \in Trips |-> NotBoarded] /\ next = FirstAfter(net)
      /\ todo = {} /\ retry = {} /\ outcome = "running"
  BY DEF Init
<1>4. /\ n \in Nat /\ DOMAIN net.conns = 1 .. n /\ net.start \in Int /\ d.at = net.start /\ Infinity \in Int
      /\ \A k \in 1 .. n : net.conns[k].trip \in Trips /\ net.conns[k].depTime \in Int
      /\ \A s \in net.sources : s.stop \in Stops /\ s.walk \in Nat
      /\ \A t \in net.targets : t.stop \in Stops /\ t.walk \in Nat
  BY <1>2, NetFacts DEF Endpoints
<1>5. \A k \in DOMAIN net.conns : ~Rode(k) BY <1>3, <1>4 DEF Rode, OnTrip
<1>6. \A l \in labels : l.arrival \in Int BY <1>2 DEF LabelsInv, LabelSet
<1>7. ASSUME NEW l \in labels PROVE WalkedHere(l)
  <2>1. PICK e \in net.sources : l = SeedLabel(net, e) BY <1>3
  <2>2. l.stop = e.stop /\ l.arrival = net.start + e.walk /\ l.ctx = NoContext BY <1>2, <2>1, SeedLabelFacts
  <2>3. e.stop \in Stops /\ e.walk \in Nat BY <1>4
  <2>4. OnFootFrom(e.stop, e.stop, 0) BY <1>2, <2>3, OnFootFacts
  <2>5. l.arrival - net.start - e.walk = 0 BY <1>4, <2>2, <2>3
  <2>q. QED BY <2>2, <2>4, <2>5 DEF WalkedHere
<1> DEFINE ends == {[total |-> l.arrival + e.walk, label |-> l, egress |-> e] :
                      l \in labels, e \in net.targets}
           here == {t \in ends : t.label.stop = t.egress.stop /\ t.total < Infinity}
<1>8. target \in IF here = {} THEN {NoTarget} ELSE {t \in here : \A u \in here : t.total <= u.total}
  BY DEF Init
<1>9. \/ target.total = Infinity /\ here = {}
      \/ target \in here /\ \A u \in here : target.total <= u.total
  <2> HIDE DEF here
  <2>q. QED BY <1>8 DEF NoTarget
<1>10. \A t \in here : /\ t.total \in Int /\ t.total < Infinity /\ t.label \in labels
  <2>1. SUFFICES ASSUME NEW t \in here PROVE t.total \in Int /\ t.total < Infinity /\ t.label \in labels OBVIOUS
  <2>2. PICK l \in labels, e \in net.targets : t = [total |-> l.arrival + e.walk, label |-> l, egress |-> e]
    OBVIOUS
  <2>3. t.total = l.arrival + e.walk /\ t.label = l /\ t.total < Infinity BY <2>2
  <2>4. l.arrival \in Int /\ e.walk \in Nat BY <1>4, <1>6
  <2>q. QED BY <2>3, <2>4
<1>11. WitnessInv
  <2>1. Found => target.label \in labels
    <3> HIDE DEF here
    <3>q. QED BY <1>4, <1>9, <1>10 DEF Found
  <2>q. QED BY <1>3, <1>7, <2>1 DEF WitnessInv
<1>12. TargetLeast
  <2>1. target.total \in Int /\ target.total <= Infinity
    <3> HIDE DEF here
    <3>q. QED BY <1>4, <1>9, <1>10
  <2>2. ASSUME NEW l \in labels, NEW t \in net.targets, t.stop = l.stop PROVE target.total <= l.arrival + t.walk
    <3> DEFINE z == [total |-> l.arrival + t.walk, label |-> l, egress |-> t]
    <3>1. z \in ends /\ z.total = l.arrival + t.walk /\ z.label.stop = z.egress.stop BY <2>2
    <3>2. z.total < Infinity => z \in here
      <4> HIDE DEF z, ends
      <4>q. QED BY <3>1
    <3>3. l.arrival + t.walk \in Int
      <4>1. l.arrival \in Int /\ t.walk \in Nat BY <1>4, <1>6
      <4>q. QED BY <4>1
    <3> HIDE DEF z, here
    <3>4. CASE z.total < Infinity BY <1>9, <3>1, <3>2, <3>4
    <3>5. CASE ~(z.total < Infinity) BY <1>4, <2>1, <3>1, <3>3, <3>5
    <3>q. QED BY <3>4, <3>5
  <2>q. QED BY <2>1, <2>2 DEF TargetLeast
<1> HIDE DEF here, ends
<1>13. HeldInv
  <2>1. ASSUME NEW s \in net.sources PROVE Reaches(s.stop, NoContext, net.start + s.walk)
    <3> DEFINE same == {o \in net.sources : o.stop = s.stop}
               T == {o.walk : o \in same}
    <3>1. T \subseteq Nat /\ T # {} BY <1>4
    <3>2. MinOf(T) \in T /\ \A y \in T : MinOf(T) <= y
      <4> HIDE DEF T
      <4>q. QED BY <3>1, MinOfNaturals
    <3>3. PICK e \in same : e.walk = MinOf(T) BY <3>2
    <3>4. \A o \in same : e.walk <= o.walk BY <3>2, <3>3
    <3>5. e \in seeds BY <3>3, <3>4
    <3>6. SeedLabel(net, e) \in labels BY <1>3, <3>5
    <3>7. /\ SeedLabel(net, e).stop = s.stop /\ SeedLabel(net, e).ctx = NoContext
          /\ SeedLabel(net, e).arrival = net.start + e.walk
      BY <1>2, <3>3, SeedLabelFacts
    <3>8. net.start + e.walk <= net.start + s.walk
      <4>1. e.walk <= s.walk /\ e.walk \in Nat /\ s.walk \in Nat BY <1>4, <3>4
      <4>q. QED BY <1>4, <4>1
    <3>q. QED BY <3>6, <3>7, <3>8 DEF Reaches
  <2>q. QED BY <1>5, <2>1 DEF HeldInv
<1>14. RelaxedInv BY <1>3 DEF RelaxedInv
<1>15. RidesInv
  <2>1. ASSUME NEW k \in DOMAIN net.conns, CanRide(k) PROVE k >= next
    <3> DEFINE S == {i \in DOMAIN net.conns : net.conns[i].depTime < net.start}
               m == Cardinality(S)
    <3>1. m \in 0 .. n /\ S = 1 .. m /\ next = m + 1 BY <1>2, <1>3, TooEarlyFacts DEF FirstAfter
    <3>2. /\ WellFormed(tt) /\ Len(tt.rows) = n /\ RowOf(k) \in 1 .. n /\ net.conns[k] = d.rows[RowOf(k)]
      BY <1>2, <1>4, RowFacts
    <3>3. net.conns[k].depTime >= net.start BY <1>4, <2>1, <3>2, RidesFacts DEF CanRide
    <3>4. net.conns[k].depTime \in Int BY <1>4
    <3>5. k \notin S BY <1>4, <3>3, <3>4
    <3> HIDE DEF S, m
    <3>q. QED BY <1>4, <3>1, <3>5
  <2>q. QED BY <1>3, <1>5, <2>1 DEF RidesInv
<1>16. EndInv BY <1>3 DEF EndInv
<1>q. QED BY <1>11, <1>12, <1>13, <1>14, <1>15, <1>16 DEF BestInv

(***************************************************************************)
(* The optimum.                                                            *)
(***************************************************************************)

\* In order, every step keeps the invariant.
LEMMA BestStep ==
  ASSUME TypeInv, GroupInv, OrderInv, LinkInv, Orderly(tt), Sequenced(tt), BestInv, [Next]_vars
  PROVE  BestInv'
<1>1. CASE RelaxWalk BY <1>1, BestRelaxWalk
<1>2. CASE ScanConnection BY <1>2, BestScanConnection
<1>3. CASE NextPass BY <1>3, BestNextPass
<1>4. CASE NextGroup BY <1>4, BestNextGroup
<1>5. CASE Finish \/ Cancel \/ UNCHANGED vars BY <1>5, BestFinish
<1>q. QED BY <1>1, <1>2, <1>3, <1>4, <1>5 DEF Next, Step

\* What a passenger on foot, or off a connection, gets to, a label holds by then.
LEMMA TargetIsReached ==
  ASSUME QueryInv, LabelsInv, RelaxedInv, TargetLeast, queue = {}, NEW ctx, NEW a \in Stops, NEW t \in net.targets,
         NEW at \in Int, NEW by \in Int, Reaches(a, ctx, at), OnFootFrom(a, t.stop, by - at - t.walk)
  PROVE  target.total <= by
<1>1. t.stop \in Stops /\ t.walk \in Nat BY NetFacts DEF Endpoints
<1> DEFINE x == by - at - t.walk
<1>2. x \in Int /\ at + x = by - t.walk BY <1>1
<1>3. OnFootFrom(a, t.stop, x) OBVIOUS
<1> HIDE DEF x
<1>4. Reaches(t.stop, ctx, at + x) BY <1>1, <1>2, <1>3, WalksAreDone
<1>5. PICK l \in labels : l.stop = t.stop /\ l.arrival <= by - t.walk BY <1>2, <1>4 DEF Reaches
<1>6. l.arrival \in Int BY DEF LabelsInv, LabelSet
<1>7. target.total \in Int /\ target.total <= l.arrival + t.walk BY <1>5 DEF TargetLeast
<1>q. QED BY <1>1, <1>5, <1>6, <1>7

\* The target is no later than anyone can be there.
LEMMA NobodyIsEarlier ==
  ASSUME TypeInv, BestInv, outcome \in {"found", "none"}, NEW by \in Int, Gets(tt, by)
  PROVE  target.total <= by
<1> DEFINE d == Directed(tt)
           n == Len(net.conns)
<1>1. QueryInv /\ LabelsInv /\ HeldInv /\ RelaxedInv /\ TargetLeast /\ RidesInv /\ PassInv BY DEF TypeInv, BestInv
<1>2. queue = {} /\ todo = {} /\ Exhausted BY DEF BestInv, EndInv
<1>3. /\ n \in Nat /\ DOMAIN net.conns = 1 .. n /\ net.start \in Int /\ d.at = net.start
      /\ d.sources = net.sources /\ d.targets = net.targets
      /\ \A k \in 1 .. n : /\ net.conns[k].to \in Stops
                           /\ net.conns[k].arrTime \in Int /\ net.conns[k].depTime \in Int
                           /\ net.conns[k].depTime <= net.conns[k].arrTime
      /\ \A k, l \in 1 .. n : k <= l => net.conns[k].depTime <= net.conns[l].depTime
      /\ \A s \in net.sources : s.stop \in Stops /\ s.walk \in Nat
      /\ \A t \in net.targets : t.stop \in Stops /\ t.walk \in Nat
  BY <1>1, NetFacts DEF Endpoints
<1>4. /\ WellFormed(tt) /\ Len(tt.rows) = n
      /\ \A k \in 1 .. n : net.conns[k] = d.rows[RowOf(k)]
      /\ \A j \in 1 .. n : \E k \in 1 .. n : RowOf(k) = j
      /\ \A r : Allowed(d, r) <=> Allowed(tt, r)
  BY <1>1, RowFacts
<1> HIDE DEF d, n
<1>5. CASE OnFoot(d, d.at, by)
  <2>1. PICK s \in net.sources, t \in net.targets : OnFootFrom(s.stop, t.stop, by - net.start - s.walk - t.walk)
    BY <1>3, <1>5 DEF OnFoot, OnFootFrom, d
  <2>2. s.stop \in Stops /\ s.walk \in Nat /\ t.walk \in Nat BY <1>3
  <2>3. Reaches(s.stop, NoContext, net.start + s.walk) BY <1>1 DEF HeldInv
  <2> DEFINE a == net.start + s.walk
  <2>4. a \in Int /\ by - net.start - s.walk - t.walk = by - a - t.walk BY <1>3, <2>2
  <2>5. OnFootFrom(s.stop, t.stop, by - a - t.walk) BY <2>1, <2>4
  <2> HIDE DEF a
  <2>6. Reaches(s.stop, NoContext, a) BY <2>3 DEF a
  <2>q. QED BY <1>1, <1>2, <2>2, <2>4, <2>5, <2>6, TargetIsReached
<1>6. CASE \E i \in Rides(tt) : Ends(d, i, by)
  <2>1. PICK i \in Rides(tt) : Ends(d, i, by) BY <1>6
  <2>2. i \in 1 .. n BY <1>4, RidesFacts
  <2>3. PICK k \in 1 .. n : RowOf(k) = i BY <1>4, <2>2
  <2>4. CanRide(k) BY <2>3 DEF CanRide
  <2>5. PICK t \in net.targets :
          /\ Allowed(tt, net.conns[k].dropOff)
          /\ OnFootFrom(net.conns[k].to, t.stop, by - net.conns[k].arrTime - t.walk)
    BY <1>3, <1>4, <2>1, <2>3 DEF Ends, OnFootFrom, d
  <2>6. net.conns[k].to \in Stops /\ net.conns[k].arrTime \in Int /\ t.walk \in Nat BY <1>3
  <2>7. CASE Rode(k)
    <3>1. Reaches(net.conns[k].to, ContextOf(k), net.conns[k].arrTime) BY <1>1, <1>3, <2>5, <2>7 DEF HeldInv
    <3>q. QED BY <1>1, <1>2, <2>5, <2>6, <3>1, TargetIsReached
  <2>8. CASE ~Rode(k)
    <3>1. k >= next BY <1>1, <1>2, <1>3, <2>4, <2>8 DEF RidesInv
    <3>2. next \in 1 .. n BY <1>1, <1>3, <3>1 DEF PassInv, n
    <3>3. net.conns[next].depTime > target.total BY <1>2, <3>2 DEF Exhausted, n
    <3>4. net.conns[next].depTime <= net.conns[k].depTime BY <1>3, <3>1, <3>2
    <3> DEFINE x == by - net.conns[k].arrTime - t.walk
    <3>5. x \in Int BY <2>6
    <3>6. OnFootFrom(net.conns[k].to, t.stop, x) BY <2>5
    <3> HIDE DEF x
    <3>7. x >= 0 BY <1>1, <2>6, <3>5, <3>6, OnFootFacts
    <3>8. net.conns[k].arrTime <= by
      <4>1. by - net.conns[k].arrTime - t.walk >= 0 BY <3>7 DEF x
      <4>q. QED BY <2>6, <4>1
    <3>9. target.total \in Int BY <1>1 DEF TargetLeast
    <3>10. /\ net.conns[next].depTime \in Int /\ net.conns[k].depTime \in Int
           /\ net.conns[k].depTime <= net.conns[k].arrTime
      BY <1>3, <3>2
    <3>q. QED BY <2>6, <3>3, <3>4, <3>8, <3>9, <3>10
  <2>q. QED BY <2>7, <2>8
<1>q. QED BY <1>5, <1>6 DEF Gets, Arrives, d

\* And someone can be there then.
LEMMA SomebodyIsThere ==
  ASSUME TypeInv, BestInv, NEW by \in Int, by < Infinity, target.total <= by
  PROVE  Gets(tt, by)
<1> DEFINE d == Directed(tt)
           n == Len(net.conns)
           l == target.label
           t == target.egress
<1>1. QueryInv /\ TargetLeast /\ RidesInv /\ WitnessInv BY DEF TypeInv, BestInv
<1>2. Found
  <2>1. target.total \in Int /\ Infinity \in Int BY <1>1, ConstantsAssumption DEF TargetLeast
  <2>q. QED BY <2>1 DEF Found
<1>3. target \in TargetSet(net) /\ l.stop = t.stop /\ target.total = l.arrival + t.walk
  BY <1>2 DEF TypeInv, TargetInv
<1>4. l \in LabelSet /\ t \in net.targets BY <1>3 DEF TargetSet
<1>5. /\ n \in Nat /\ DOMAIN net.conns = 1 .. n /\ net.start \in Int /\ d.at = net.start
      /\ d.sources = net.sources /\ d.targets = net.targets
      /\ \A k \in 1 .. n : net.conns[k].to \in Stops /\ net.conns[k].arrTime \in Int
      /\ \A s \in net.sources : s.stop \in Stops /\ s.walk \in Nat
      /\ \A e \in net.targets : e.stop \in Stops /\ e.walk \in Nat
  BY <1>1, NetFacts DEF Endpoints
<1>6. l.arrival \in Int /\ t.walk \in Nat BY <1>4, <1>5 DEF LabelSet
<1>7. /\ WellFormed(tt) /\ Len(tt.rows) = n
      /\ \A k \in 1 .. n : RowOf(k) \in 1 .. n /\ net.conns[k] = d.rows[RowOf(k)]
      /\ \A r : Allowed(d, r) <=> Allowed(tt, r)
  BY <1>1, RowFacts
<1>8. RodeHere(l) \/ WalkedHere(l) BY <1>1, <1>2 DEF WitnessInv
<1>9. l.arrival + t.walk <= by BY <1>3
<1> HIDE DEF l, t, d, n
<1>10. CASE WalkedHere(l)
  <2>1. PICK s \in net.sources : OnFootFrom(s.stop, l.stop, l.arrival - net.start - s.walk) BY <1>10 DEF WalkedHere
  <2>2. s.stop \in Stops /\ s.walk \in Nat BY <1>5
  <2> DEFINE x == l.arrival - net.start - s.walk
             y == by - net.start - s.walk - t.walk
  <2>3. x \in Int /\ y \in Int /\ x <= y
    <3>1. \A u, v, w, z \in Int, b \in Int : u + v <= b =>
            u - w - z \in Int /\ b - w - z - v \in Int /\ u - w - z <= b - w - z - v
      OBVIOUS
    <3>2. s.walk \in Int /\ t.walk \in Int /\ net.start \in Int BY <1>5, <1>6, <2>2
    <3>q. QED BY <1>6, <1>9, <3>1, <3>2
  <2>4. OnFootFrom(s.stop, t.stop, x) BY <1>3, <2>1 DEF l, t
  <2> HIDE DEF x, y
  <2>5. OnFootFrom(s.stop, t.stop, y) BY <1>1, <2>2, <2>3, <2>4, OnFootFacts
  <2>6. OnFoot(d, d.at, by) BY <1>4, <1>5, <2>5 DEF OnFoot, OnFootFrom, y, d
  <2>q. QED BY <2>6 DEF Gets, Arrives, d
<1>11. CASE RodeHere(l)
  <2>1. PICK k \in DOMAIN net.conns :
          /\ Rode(k) /\ Allowed(tt, net.conns[k].dropOff)
          /\ OnFootFrom(net.conns[k].to, l.stop, l.arrival - net.conns[k].arrTime)
    BY <1>11 DEF RodeHere
  <2> DEFINE g == net.conns[k]
             x == l.arrival - g.arrTime
             y == by - g.arrTime - t.walk
  <2>2. k \in 1 .. n /\ g.to \in Stops /\ g.arrTime \in Int /\ g = d.rows[RowOf(k)] /\ RowOf(k) \in Rides(tt)
    BY <1>1, <1>5, <1>7, <2>1 DEF RidesInv, CanRide
  <2> HIDE DEF g
  <2>3. x \in Int /\ y \in Int /\ x <= y
    <3>1. \A u, v, w \in Int, b \in Int : u + v <= b => u - w \in Int /\ b - w - v \in Int /\ u - w <= b - w - v
      OBVIOUS
    <3>2. t.walk \in Int BY <1>6
    <3>q. QED BY <1>6, <1>9, <2>2, <3>1, <3>2
  <2>4. OnFootFrom(g.to, t.stop, x) BY <1>3, <2>1 DEF l, t, g
  <2> HIDE DEF x, y
  <2>5. OnFootFrom(g.to, t.stop, y) BY <1>1, <2>2, <2>3, <2>4, OnFootFacts
  <2>6. Allowed(d, g.dropOff) BY <1>7, <2>1 DEF g
  <2>7. Ends(d, RowOf(k), by) BY <1>4, <1>5, <2>2, <2>5, <2>6 DEF Ends, OnFootFrom, y, d
  <2>q. QED BY <2>2, <2>7 DEF Gets, Arrives, d
<1>q. QED BY <1>8, <1>10, <1>11

\* The greatest of some integers.
LEMMA MaxIs ==
  ASSUME NEW S, S \subseteq Int, NEW x \in S, \A y \in S : y <= x
  PROVE  MaxOf(S) = x
<1>1. x \in S /\ \A y \in S : x >= y OBVIOUS
<1>2. MaxOf(S) \in S /\ \A y \in S : MaxOf(S) >= y
  <2> HIDE DEF MaxOf
  <2>1. \E z \in S : \A y \in S : z >= y BY <1>1
  <2>q. QED BY <2>1 DEF MaxOf
<1> DEFINE m == MaxOf(S)
<1>3. m \in S /\ m >= x /\ x >= m BY <1>1, <1>2
<1> HIDE DEF m
<1>4. m \in Int /\ x \in Int BY <1>3
<1>5. m = x BY <1>3, <1>4
<1>q. QED BY <1>5 DEF m

\* So an answer is the optimum of the reference.
LEMMA AnswerIsBest ==
  ASSUME TypeInv, BestInv
  PROVE  Optimal
<1> SUFFICES ASSUME outcome \in {"found", "none"}
             PROVE  IF tt.latest
                    THEN -target.total = LatestDeparture(tt, IF Found THEN -target.total ELSE tt.at - MaxDuration)
                    ELSE target.total = EarliestArrival(tt, tt.at)
  BY DEF Optimal
<1>1. QueryInv /\ TargetLeast BY DEF TypeInv, BestInv
<1>2. WellFormed(tt) /\ tt \in Queries BY <1>1, RowFacts
<1>3. /\ target.total \in Int /\ target.total <= Infinity /\ Infinity \in Int /\ MaxDuration \in Int
      /\ tt.at \in Int /\ tt.at < Infinity
  BY <1>1, <1>2, ConstantsAssumption DEF TargetLeast, WellFormed, Queries
<1>4. \A by \in Int : by < Infinity => (Gets(tt, by) <=> target.total <= by)
  BY NobodyIsEarlier, SomebodyIsThere
<1>5. CASE ~tt.latest
  <2> DEFINE best == EarliestArrival(tt, tt.at)
  <2>1. /\ best \in Int /\ best <= Infinity
        /\ \A by \in Int : by < Infinity =>
             (best <= by <=> Arrives(tt, Rideable(tt, Walks(tt), tt.at), tt.at, by))
    BY <1>2, <1>3, EarliestFacts
  <2>2. \A by \in Int : Gets(tt, by) <=> Arrives(tt, Rideable(tt, Walks(tt), tt.at), tt.at, by)
    BY <1>2, <1>5, GetsForward
  <2> HIDE DEF best
  <2>3. \A by \in Int : by < Infinity => (best <= by <=> target.total <= by) BY <1>4, <2>1, <2>2
  <2>4. target.total = best
    <3> DEFINE g == target.total
    <3>1. g \in Int /\ g <= Infinity /\ \A by \in Int : by < Infinity => (best <= by <=> g <= by) BY <1>3, <2>3
    <3> HIDE DEF g
    <3>2. g < Infinity => best <= g BY <3>1
    <3>3. best < Infinity => g <= best BY <2>1, <3>1
    <3>4. g = best BY <1>3, <2>1, <3>1, <3>2, <3>3
    <3>q. QED BY <3>4 DEF g
  <2>q. QED BY <1>5, <2>4 DEF best
<1>6. CASE tt.latest
  <2> DEFINE since == IF Found THEN -target.total ELSE tt.at - MaxDuration
             late == {e \in since .. tt.at : EarliestArrival(tt, e) <= tt.at}
             S == {-Infinity} \cup late
             g == -target.total
  <2>1. ASSUME NEW e \in Int, e > -Infinity PROVE EarliestArrival(tt, e) <= tt.at <=> e <= g
    <3>1. EarliestArrival(tt, e) <= tt.at <=> Arrives(tt, Rideable(tt, Walks(tt), e), e, tt.at)
      BY <1>2, <1>3, EarliestFacts
    <3>2. Gets(tt, -e) <=> Arrives(tt, Rideable(tt, Walks(tt), e), e, tt.at) BY <1>2, <1>6, GetsBackward
    <3>3. -e \in Int /\ -e < Infinity BY <1>3, <2>1
    <3>4. Gets(tt, -e) <=> target.total <= -e BY <1>4, <3>3
    <3>5. target.total <= -e <=> e <= g BY <1>3
    <3>q. QED BY <3>1, <3>2, <3>4, <3>5
  <2>2. g \in Int /\ since \in Int /\ -Infinity \in Int /\ -Infinity <= g BY <1>3
  <2>3. Found => g <= tt.at /\ since = g /\ g > -Infinity
    <3>1. SUFFICES ASSUME Found PROVE g <= tt.at /\ since = g /\ g > -Infinity OBVIOUS
    <3>2. /\ target.label.arrival >= net.start /\ target \in TargetSet(net)
          /\ target.total = target.label.arrival + target.egress.walk
      BY <3>1 DEF TypeInv, TargetInv
    <3>3. target.label.arrival \in Int BY <3>2 DEF TargetSet, LabelSet
    <3>4. target.egress \in Endpoints BY <1>1, <3>2, NetFacts DEF TargetSet
    <3>5. target.egress.walk \in Nat BY <3>4 DEF Endpoints
    <3>6. net.start = -tt.at BY <1>1, <1>6 DEF QueryInv, Network
    <3>7. target.total < Infinity BY <3>1 DEF Found
    <3>q. QED BY <1>3, <3>1, <3>2, <3>3, <3>5, <3>6, <3>7
  <2>4. ~Found => g = -Infinity BY <1>3 DEF Found
  <2> HIDE DEF since, g
  <2>5. S \subseteq Int /\ g \in S
    <3>1. late \subseteq Int BY <1>3, <2>2
    <3>2. CASE Found
      <4>1. g \in since .. tt.at /\ g <= g BY <1>3, <2>2, <2>3, <3>2
      <4>2. EarliestArrival(tt, g) <= tt.at BY <2>1, <2>2, <2>3, <3>2, <4>1
      <4>q. QED BY <2>2, <3>1, <4>1, <4>2
    <3>3. CASE ~Found BY <2>2, <2>4, <3>1, <3>3
    <3>q. QED BY <3>2, <3>3
  <2>6. ASSUME NEW y \in S PROVE y <= g
    <3>1. CASE y = -Infinity BY <2>2, <3>1
    <3>2. CASE y \in late /\ y > -Infinity
      <4>1. y \in Int /\ EarliestArrival(tt, y) <= tt.at BY <2>5, <3>2
      <4>q. QED BY <2>1, <3>2, <4>1
    <3>3. CASE y \in late /\ ~(y > -Infinity)
      <4>1. y \in Int BY <2>5
      <4>q. QED BY <2>2, <3>3, <4>1
    <3>q. QED BY <3>1, <3>2, <3>3
  <2>7. LatestDeparture(tt, since) = MaxOf(S) BY DEF LatestDeparture
  <2> HIDE DEF S, late
  <2>8. MaxOf(S) = g BY <2>5, <2>6, MaxIs
  <2>q. QED BY <1>6, <2>7, <2>8 DEF g, since
<1>q. QED BY <1>5, <1>6

\* Where trips and continuations run forward and what can be ridden next comes
\* next, the answer is the optimum: nobody arrives earlier, nobody who arrives
\* in time sets out later, and "none" means that there is no journey.
THEOREM AnswersAreOptimal == Spec => [](Orderly(tt) /\ Sequenced(tt) => Optimal)
<1> DEFINE Inv == IInv /\ (Orderly(tt) /\ Sequenced(tt) => BestInv)
<1>1. Init => Inv BY IInvInit, BestInit
<1>2. Inv /\ [Next]_vars => Inv'
  <2>1. SUFFICES ASSUME Inv, [Next]_vars PROVE Inv' OBVIOUS
  <2>2. IInv' BY <2>1, IInvStep
  <2>3. tt' = tt BY <2>1, QueryIsFixed
  <2>4. ASSUME Orderly(tt), Sequenced(tt) PROVE BestInv'
    <3>1. TypeInv /\ GroupInv /\ OrderInv /\ LinkInv /\ BestInv BY <2>1, <2>4 DEF IInv, Orderly
    <3>q. QED BY <2>1, <2>4, <3>1, BestStep
  <2>5. (Orderly(tt) /\ Sequenced(tt))' => Orderly(tt) /\ Sequenced(tt) BY <2>3
  <2>q. QED BY <2>2, <2>4, <2>5
<1>3. Inv => (Orderly(tt) /\ Sequenced(tt) => Optimal)
  <2>1. SUFFICES ASSUME Inv, Orderly(tt), Sequenced(tt) PROVE Optimal OBVIOUS
  <2>2. TypeInv /\ BestInv BY <2>1 DEF IInv
  <2>q. QED BY <2>2, AnswerIsBest
<1> HIDE DEF Inv
<1>q. QED BY <1>1, <1>2, <1>3, PTL DEF Spec
=============================================================================
