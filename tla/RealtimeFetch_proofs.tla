------------------------ MODULE RealtimeFetch_proofs ------------------------
(***************************************************************************)
(* Theorems about RealtimeFetch, for any number of callers, feeds, tokens  *)
(* and ticks: callers of a feed share one fetch, and an endpoint is not    *)
(* called more often than its bucket allows.  Then about VehicleLookup,    *)
(* for any modes, feeds and messages: the position shown is the best there *)
(* is, and what is said not to be there was looked for.                    *)
(***************************************************************************)
EXTENDS RealtimeFetch, VehicleLookup, FiniteSetTheorems, WellFoundedInduction, TLAPS

Fetching == {"limiter", "sleeping", "calling"}
Kinds == {"ok", "authentication", "canceled", "request"}
Outcomes == [kind : Kinds, snapshot : Kept \cup {None}]

(***************************************************************************)
(* The cache.                                                              *)
(***************************************************************************)
Types ==
  /\ clock \in Nat
  /\ pc \in [Callers -> Fetching \cup {"idle", "waiting", "done"}]
  /\ asked \in [Callers -> Feeds \cup {None}]
  /\ waitsFor \in [Callers -> Callers \cup {None}]
  /\ result \in [Callers -> Outcomes \cup {None}]
  /\ snapshots \in [Feeds -> Kept \cup {None}]
  /\ inFlight \in [Feeds -> Callers \cup {None}]
  /\ \A c \in Callers : pc[c] # "idle" => asked[c] \in Feeds

\* Whoever fetches is registered, and nothing is kept before it is done.
Registered ==
  \A c \in Callers : pc[c] \in Fetching => inFlight[asked[c]] = c /\ snapshots[asked[c]] = None

\* Who is registered fetches that feed.
UnderWay ==
  \A f \in Feeds : inFlight[f] # None => asked[inFlight[f]] = f /\ pc[inFlight[f]] \in Fetching

\* A waiter waits for a caller of its own feed, which fetches or has fetched it.
Waiters ==
  \A c \in Callers : pc[c] = "waiting" =>
    /\ waitsFor[c] \in Callers
    /\ asked[waitsFor[c]] = asked[c]
    /\ pc[waitsFor[c]] \in Fetching \cup {"done"}

\* Whoever is done has an outcome, a snapshot only if it is the one kept.
Returned ==
  \A c \in Callers : pc[c] = "done" =>
    /\ result[c] \in Outcomes
    /\ result[c].kind = "ok" => result[c].snapshot # None /\ result[c].snapshot = snapshots[asked[c]]

CacheInv == Types /\ Registered /\ UnderWay /\ Waiters /\ Returned

\* A failure is an outcome.
LEMMA FailedOutcome ==
  ASSUME NEW k \in Kinds
  PROVE  Failed(k) \in Outcomes /\ Failed(k).kind = k /\ Failed(k).snapshot = None
BY DEF Failed, Outcomes

\* So is a snapshot.
LEMMA FetchedOutcome ==
  ASSUME NEW s \in Kept
  PROVE  /\ Fetched(s) \in Outcomes /\ Fetched(s).kind = "ok" /\ Fetched(s).snapshot = s
         /\ s # None
BY NoneAssumption DEF Fetched, Outcomes, Kinds

\* Nobody has asked yet.
LEMMA CacheStart == FetchInit => CacheInv
BY NoneAssumption DEF FetchInit, CacheInv, Types, Registered, UnderWay, Waiters, Returned, Fetching

\* Asking: the snapshot is there, is being fetched, or is fetched now.
LEMMA Asking ==
  ASSUME CacheInv, NEW c \in Callers, NEW f \in Feeds, GetOrFetch(c, f)
  PROVE  CacheInv'
<1> USE NoneAssumption DEF CacheInv, GetOrFetch
<1>1. CASE snapshots[f] # None
  <2>1. snapshots[f] \in Kept
    BY <1>1 DEF Types
  <2>2. /\ pc' = [pc EXCEPT ![c] = "done"] /\ result' = [result EXCEPT ![c] = Fetched(snapshots[f])]
        /\ asked' = [asked EXCEPT ![c] = f] /\ UNCHANGED <<waitsFor, inFlight, snapshots, clock>>
    BY <1>1 DEF Return
  <2>3. Fetched(snapshots[f]) \in Outcomes /\ Fetched(snapshots[f]).snapshot = snapshots[f]
    BY <2>1, FetchedOutcome
  <2>4. Types'
    BY <2>2, <2>3 DEF Types
  <2>5. Registered' /\ UnderWay'
    BY <2>2 DEF Types, Registered, UnderWay, Fetching
  <2>6. Waiters'
    BY <2>2 DEF Types, Waiters, Fetching
  <2>7. Returned'
    BY <1>1, <2>2, <2>3 DEF Types, Returned
  <2> QED BY <2>4, <2>5, <2>6, <2>7
<1>2. CASE snapshots[f] = None /\ inFlight[f] # None
  <2>1. /\ pc' = [pc EXCEPT ![c] = "waiting"] /\ waitsFor' = [waitsFor EXCEPT ![c] = inFlight[f]]
        /\ asked' = [asked EXCEPT ![c] = f] /\ UNCHANGED <<result, inFlight, snapshots, clock>>
    BY <1>2
  <2>2. inFlight[f] \in Callers /\ inFlight[f] # c
    BY <1>2 DEF Types, UnderWay, Fetching
  <2>3. Types'
    BY <2>1, <2>2 DEF Types
  <2>4. Registered' /\ UnderWay'
    BY <2>1 DEF Types, Registered, UnderWay, Fetching
  <2>5. Waiters'
    BY <1>2, <2>1, <2>2 DEF Types, UnderWay, Waiters, Fetching
  <2>6. Returned'
    BY <2>1 DEF Types, Returned
  <2> QED BY <2>3, <2>4, <2>5, <2>6
<1>3. CASE snapshots[f] = None /\ inFlight[f] = None
  <2>1. /\ pc' = [pc EXCEPT ![c] = "limiter"] /\ inFlight' = [inFlight EXCEPT ![f] = c]
        /\ asked' = [asked EXCEPT ![c] = f] /\ UNCHANGED <<result, waitsFor, snapshots, clock>>
    BY <1>3
  <2>2. Types'
    BY <2>1 DEF Types, Fetching
  <2>3. Registered' /\ UnderWay'
    BY <1>3, <2>1 DEF Types, Registered, UnderWay, Fetching
  <2>4. Waiters'
    BY <2>1 DEF Types, Waiters, Fetching
  <2>5. Returned'
    BY <2>1 DEF Types, Returned
  <2> QED BY <2>2, <2>3, <2>4, <2>5
<1> QED BY <1>1, <1>2, <1>3

\* A waiter takes over the outcome of the caller it waits for, or gives up.
LEMMA WaitingEnds ==
  ASSUME CacheInv, NEW c \in Callers, StopWaiting(c)
  PROVE  CacheInv'
<1> USE DEF CacheInv
<1>1. PICK r \in Outcomes :
        /\ pc' = [pc EXCEPT ![c] = "done"] /\ result' = [result EXCEPT ![c] = r]
        /\ r.kind = "ok" => r.snapshot # None /\ r.snapshot = snapshots[asked[c]]
  <2>1. CASE pc[waitsFor[c]] = "done" /\ Return(c, result[waitsFor[c]])
    <3>1. waitsFor[c] \in Callers /\ asked[waitsFor[c]] = asked[c]
      BY DEF StopWaiting, Waiters
    <3> QED BY <2>1, <3>1 DEF Return, Returned
  <2>2. CASE Return(c, Failed("canceled"))
    <3>1. Failed("canceled") \in Outcomes /\ Failed("canceled").kind = "canceled"
      BY FailedOutcome DEF Kinds
    <3> QED BY <2>2, <3>1 DEF Return
  <2> QED BY <2>1, <2>2 DEF StopWaiting
<1>2. pc[c] = "waiting" /\ UNCHANGED <<clock, snapshots, inFlight, asked, waitsFor>>
  BY DEF StopWaiting, cacheVars
<1>3. Types'
  BY <1>1, <1>2 DEF Types
<1>4. Registered' /\ UnderWay'
  BY <1>1, <1>2 DEF Types, Registered, UnderWay, Fetching
<1>5. Waiters'
  BY <1>1, <1>2 DEF Types, Waiters, Fetching
<1>6. Returned'
  BY <1>1, <1>2 DEF Types, Returned
<1> QED BY <1>3, <1>4, <1>5, <1>6

\* A fetch ends, and its snapshot is kept if there is one.
LEMMA FetchEnds ==
  ASSUME CacheInv, NEW c \in Callers, pc[c] \in Fetching,
         NEW r \in Outcomes, r.kind = "ok" <=> r.snapshot # None, Finish(c, r)
  PROVE  CacheInv'
<1> USE NoneAssumption DEF CacheInv
<1> DEFINE f == asked[c]
<1>1. f \in Feeds /\ inFlight[f] = c /\ snapshots[f] = None
  BY DEF Types, Registered, Fetching
<1>2. /\ pc' = [pc EXCEPT ![c] = "done"] /\ result' = [result EXCEPT ![c] = r]
      /\ snapshots' = [snapshots EXCEPT ![f] = r.snapshot]
      /\ inFlight' = [inFlight EXCEPT ![f] = None] /\ UNCHANGED <<clock, asked, waitsFor>>
  <2>1. ~(r.kind = "ok") => snapshots = [snapshots EXCEPT ![f] = r.snapshot]
    BY <1>1 DEF Types
  <2> QED BY <2>1 DEF Finish, Return
<1>3. r.snapshot \in Kept \cup {None}
  BY DEF Outcomes
<1>4. Types'
  BY <1>1, <1>2, <1>3 DEF Types
<1>5. Registered'
  BY <1>1, <1>2 DEF Types, Registered, Fetching
<1>6. UnderWay'
  BY <1>1, <1>2 DEF Types, UnderWay, Fetching
<1>7. Waiters'
  BY <1>2 DEF Types, Waiters
<1>8. Returned'
  BY <1>1, <1>2 DEF Types, Returned
<1> QED BY <1>4, <1>5, <1>6, <1>7, <1>8

\* The caller goes on to another stage of the same fetch.
LEMMA FetchGoesOn ==
  ASSUME CacheInv, NEW c \in Callers, pc[c] \in Fetching, NEW stage \in Fetching,
         pc' = [pc EXCEPT ![c] = stage],
         UNCHANGED <<clock, cacheVars, asked, waitsFor, result>>
  PROVE  CacheInv'
<1> USE DEF CacheInv, cacheVars, Fetching
<1>1. Types'
  BY DEF Types
<1>2. Registered' /\ UnderWay'
  BY DEF Types, Registered, UnderWay
<1>3. Waiters' /\ Returned'
  BY DEF Types, Waiters, Returned
<1> QED BY <1>1, <1>2, <1>3

\* Every step of the limiter and the request is one of the two.
LEMMA Working ==
  ASSUME CacheInv, NEW c \in Callers,
         TakeToken(c) \/ SleepForToken(c) \/ WakeUp(c) \/ Answer(c)
  PROVE  CacheInv'
<1>1. CASE TakeToken(c) \/ WakeUp(c) \/ Answer(c)
  <2>1. pc[c] \in Fetching
    BY <1>1 DEF TakeToken, WakeUp, Answer, Fetching
  <2>2. CASE \E k \in Kinds \ {"ok"} : Finish(c, Failed(k))
    BY <2>1, <2>2, FailedOutcome, FetchEnds
  <2>3. CASE \E s \in Kept : Finish(c, Fetched(s))
    BY <2>1, <2>3, FetchedOutcome, FetchEnds
  <2>4. CASE /\ \E stage \in Fetching : pc' = [pc EXCEPT ![c] = stage]
             /\ UNCHANGED <<clock, cacheVars, asked, waitsFor, result>>
    BY <2>1, <2>4, FetchGoesOn
  <2>5. TakeToken(c) => \/ \E k \in Kinds \ {"ok"} : Finish(c, Failed(k))
                        \/ /\ \E stage \in Fetching : pc' = [pc EXCEPT ![c] = stage]
                           /\ UNCHANGED <<clock, cacheVars, asked, waitsFor, result>>
    BY DEF TakeToken, Kinds, Fetching
  <2>6. WakeUp(c) => \/ \E k \in Kinds \ {"ok"} : Finish(c, Failed(k))
                     \/ /\ \E stage \in Fetching : pc' = [pc EXCEPT ![c] = stage]
                        /\ UNCHANGED <<clock, cacheVars, asked, waitsFor, result>>
    BY DEF WakeUp, Kinds, Fetching
  <2>7. Answer(c) => \/ \E k \in Kinds \ {"ok"} : Finish(c, Failed(k))
                     \/ \E s \in Kept : Finish(c, Fetched(s))
    BY DEF Answer, Kinds, CacheInv, Types, Kept
  <2> QED BY <1>1, <2>2, <2>3, <2>4, <2>5, <2>6, <2>7
<1>2. CASE SleepForToken(c)
  <2>1. /\ pc[c] \in Fetching /\ pc' = [pc EXCEPT ![c] = "sleeping"]
        /\ UNCHANGED <<clock, cacheVars, asked, waitsFor, result>>
    BY <1>2 DEF SleepForToken, Fetching
  <2> QED BY <2>1, FetchGoesOn DEF Fetching
<1> QED BY <1>1, <1>2

\* Every step keeps the cache in order.
LEMMA CacheStep == CacheInv /\ [FetchNext]_fetchVars => CacheInv'
<1> SUFFICES ASSUME CacheInv, [FetchNext]_fetchVars PROVE CacheInv'
  OBVIOUS
<1>1. CASE UNCHANGED fetchVars
  BY <1>1 DEF fetchVars, cacheVars, callVars, CacheInv, Types, Registered, UnderWay, Waiters, Returned
<1>2. CASE \E c \in Callers, f \in Feeds : GetOrFetch(c, f)
  BY <1>2, Asking
<1>3. CASE \E c \in Callers : Goroutine(c)
  BY <1>3, WaitingEnds, Working DEF Goroutine
<1>4. CASE Tick \/ \E c \in Callers : Cancel(c)
  BY <1>4 DEF Tick, Cancel, cacheVars, callVars, CacheInv, Types, Registered, UnderWay, Waiters, Returned
<1> QED BY <1>1, <1>2, <1>3, <1>4 DEF FetchNext

\* Callers of a feed share one fetch, and all who succeed hold its snapshot
\* (InvocationCache.GetOrFetch), however many call and whoever is cancelled.
THEOREM FetchIsShared == FetchSpec => []SharedFetch
<1>1. CacheInv => SharedFetch
  <2> SUFFICES ASSUME CacheInv, NEW f \in Feeds
               PROVE  /\ Cardinality(Busy(f)) <= 1
                      /\ snapshots[f] # None => Busy(f) = {}
                      /\ \A c \in Callers : asked[c] = f /\ pc[c] = "done" /\ result[c].kind = "ok"
                                              => result[c].snapshot # None /\ result[c].snapshot = snapshots[f]
    BY DEF SharedFetch
  <2>1. \A c \in Busy(f) : c = inFlight[f] /\ snapshots[f] = None
    BY DEF CacheInv, Registered, Busy, Fetching
  <2>2. Cardinality(Busy(f)) <= 1
    <3>1. Busy(f) \subseteq {inFlight[f]}
      BY <2>1
    <3>2. IsFiniteSet({inFlight[f]}) /\ Cardinality({inFlight[f]}) = 1
      BY FS_Singleton
    <3>3. Cardinality(Busy(f)) <= Cardinality({inFlight[f]})
      BY <3>1, <3>2, FS_Subset
    <3> QED BY <3>2, <3>3
  <2>3. snapshots[f] # None => Busy(f) = {}
    BY <2>1
  <2>4. \A c \in Callers : asked[c] = f /\ pc[c] = "done" /\ result[c].kind = "ok"
                             => result[c].snapshot # None /\ result[c].snapshot = snapshots[f]
    BY DEF CacheInv, Returned
  <2> QED BY <2>2, <2>3, <2>4
<1> QED BY <1>1, CacheStart, CacheStep, PTL DEF FetchSpec

(***************************************************************************)
(* The limiter.                                                            *)
(***************************************************************************)

\* What n calls take from a bucket.
Worth(n) == n * Refill

\* What one more token is worth.
LEMMA OneMore ==
  ASSUME NEW n \in Int
  PROVE  Worth(n) \in Int /\ Worth(n + 1) = Worth(n) + Refill
BY BucketAssumption DEF Worth

\* A token is worth at least a tick, a full bucket at least a token.
LEMMA RefillFacts == Refill \in Nat \ {0} /\ Worth(1) = Refill /\ Worth(Burst) \in Nat /\ Refill <= Worth(Burst)
<1>1. Refill \in Nat \ {0} /\ Burst \in Nat \ {0} /\ Worth(1) = Refill
  BY BucketAssumption DEF Worth
<1>2. Burst * Refill \in Nat /\ Refill <= Burst * Refill
  BY <1>1
<1> QED BY <1>1, <1>2 DEF Worth

\* What has been taken since any call, and what is left, is no more than a
\* full bucket and what has flowed into it since.
Level(calls, i, credit, now) == Worth(Len(calls) - i + 1) + credit <= Worth(Burst) + now - calls[i]

Levels(calls, credit, now) == \A i \in 1 .. Len(calls) : Level(calls, i, credit, now)

\* No stretch of time holds too many calls.
Paced(calls) ==
  \A i, j \in 1 .. Len(calls) : i <= j => Worth(j - i + 1) <= Worth(Burst) + calls[j] - calls[i]

BucketInv ==
  /\ clock \in Nat
  /\ buckets \in [Feeds -> [credit : Nat, last : Nat]]
  /\ requests \in [Feeds -> Seq(Nat)]
  /\ asked \in [Callers -> Feeds \cup {None}]
  /\ \A c \in Callers : pc[c] # "idle" => asked[c] \in Feeds
  /\ \A f \in Feeds : /\ buckets[f].last <= clock
                      /\ buckets[f].credit <= Worth(Burst)
                      /\ Levels(requests[f], buckets[f].credit, buckets[f].last)
                      /\ Paced(requests[f])

\* As time passes the credit may grow by as much.
LEMMA LevelsRise ==
  ASSUME NEW calls \in Seq(Nat), NEW credit \in Int, NEW last \in Int, NEW now \in Int,
         NEW more \in Int, more <= credit + (now - last), Levels(calls, credit, last)
  PROVE  Levels(calls, more, now)
<1> SUFFICES ASSUME NEW i \in 1 .. Len(calls) PROVE Level(calls, i, more, now)
  BY DEF Levels
<1> DEFINE taken == Worth(Len(calls) - i + 1)
<1>1. Len(calls) - i + 1 \in Int /\ calls[i] \in Nat
  OBVIOUS
<1>2. taken \in Int /\ Worth(Burst) \in Int
  BY <1>1, OneMore, RefillFacts
<1>3. taken + credit <= Worth(Burst) + last - calls[i]
  BY DEF Levels, Level
<1>4. taken + more <= Worth(Burst) + now - calls[i]
  <2> HIDE DEF taken
  <2> QED BY <1>1, <1>2, <1>3
<1> QED BY <1>4 DEF Level

\* One more call takes one more token, and is followed by what is left.
LEMMA LevelsWithOneMore ==
  ASSUME NEW calls \in Seq(Nat), NEW now \in Nat, NEW credit \in Int,
         Refill <= credit, credit <= Worth(Burst), Levels(calls, credit, now), Paced(calls)
  PROVE  /\ Levels(Append(calls, now), credit - Refill, now)
         /\ Paced(Append(calls, now))
<1> DEFINE more == Append(calls, now)
           n == Len(calls)
<1>1. /\ n \in Nat /\ Len(more) = n + 1 /\ more[n + 1] = now
      /\ \A i \in 1 .. n : more[i] = calls[i] /\ calls[i] \in Nat
  OBVIOUS
<1>2. ASSUME NEW i \in 1 .. n
      PROVE  Worth(n + 1 - i + 1) + (credit - Refill) <= Worth(Burst) + now - calls[i]
  <2>1. n - i + 1 \in Int /\ (n - i + 1) + 1 = n + 1 - i + 1
    BY <1>1
  <2>2. Worth(n + 1 - i + 1) = Worth(n - i + 1) + Refill /\ Worth(n - i + 1) \in Int
    <3> HIDE DEF n
    <3> QED BY <2>1, OneMore
  <2>3. Worth(n - i + 1) + credit <= Worth(Burst) + now - calls[i]
    BY DEF Levels, Level
  <2> HIDE DEF n
  <2> QED BY <1>1, <2>2, <2>3, RefillFacts
<1>3. Levels(more, credit - Refill, now)
  <2>1. ASSUME NEW i \in 1 .. n PROVE Level(more, i, credit - Refill, now)
    BY <1>1, <1>2, <2>1 DEF Level
  <2>2. Level(more, n + 1, credit - Refill, now)
    <3>1. Len(more) - (n + 1) + 1 = 1
      BY <1>1
    <3>2. Worth(1) + (credit - Refill) <= Worth(Burst) + now - now
      BY RefillFacts
    <3> QED BY <1>1, <3>1, <3>2 DEF Level
  <2> QED BY <1>1, <2>1, <2>2 DEF Levels
<1>4. Paced(more)
  <2> SUFFICES ASSUME NEW i \in 1 .. n + 1, NEW j \in 1 .. n + 1, i <= j
               PROVE  Worth(j - i + 1) <= Worth(Burst) + more[j] - more[i]
    BY <1>1 DEF Paced
  <2>1. CASE j \in 1 .. n
    <3>1. i \in 1 .. n
      BY <1>1, <2>1
    <3> QED BY <1>1, <2>1, <3>1 DEF Paced
  <2>2. CASE j = n + 1 /\ i \in 1 .. n
    <3>1. Worth(n + 1 - i + 1) \in Int
      BY <1>1, OneMore
    <3>2. Worth(n + 1 - i + 1) <= Worth(Burst) + now - calls[i]
      <4> DEFINE taken == Worth(n + 1 - i + 1)
      <4>1. taken + (credit - Refill) <= Worth(Burst) + now - calls[i] /\ taken \in Int
        BY <1>2, <2>2, <3>1
      <4>2. calls[i] \in Nat
        BY <1>1, <2>2
      <4> HIDE DEF taken
      <4>3. taken <= Worth(Burst) + now - calls[i]
        BY <4>1, <4>2, RefillFacts
      <4> QED BY <4>3 DEF taken
    <3> QED BY <1>1, <2>2, <3>2
  <2>3. CASE j = n + 1 /\ i = n + 1
    <3>1. j - i + 1 = 1
      BY <1>1, <2>3
    <3> QED BY <1>1, <2>3, <3>1, RefillFacts
  <2> QED BY <1>1, <2>1, <2>2, <2>3
<1> QED BY <1>3, <1>4

\* The buckets are full.
LEMMA BucketStart == FetchInit => BucketInv
<1> SUFFICES ASSUME FetchInit PROVE BucketInv
  OBVIOUS
<1>1. \A f \in Feeds : requests[f] = <<>> /\ Len(requests[f]) = 0
  BY DEF FetchInit
<1>2. \A f \in Feeds : buckets[f].credit = Worth(Burst) /\ buckets[f].last = 0
  BY DEF FetchInit, Worth
<1>3. /\ buckets \in [Feeds -> [credit : Nat, last : Nat]] /\ requests \in [Feeds -> Seq(Nat)]
      /\ clock = 0 /\ asked \in [Callers -> {None}] /\ pc \in [Callers -> {"idle"}]
  BY RefillFacts DEF FetchInit, Worth
<1> QED BY <1>1, <1>2, <1>3, RefillFacts DEF BucketInv, Levels, Paced

\* The credit grows by the time that has passed, to a full bucket at most.
LEMMA CreditGrows ==
  ASSUME BucketInv, NEW f \in Feeds
  PROVE  /\ Credit(f) \in Nat
         /\ Credit(f) <= Worth(Burst)
         /\ Credit(f) <= buckets[f].credit + (clock - buckets[f].last)
         /\ Levels(requests[f], Credit(f), clock)
<1>1. /\ clock \in Nat /\ buckets[f].credit \in Nat /\ buckets[f].last \in Nat
      /\ buckets[f].last <= clock /\ requests[f] \in Seq(Nat)
  BY DEF BucketInv
<1>2. Credit(f) = IF buckets[f].credit + (clock - buckets[f].last) > Worth(Burst) THEN Worth(Burst)
                  ELSE buckets[f].credit + (clock - buckets[f].last)
  BY DEF Credit, Worth
<1>3. /\ Credit(f) \in Nat /\ Credit(f) <= Worth(Burst)
      /\ Credit(f) <= buckets[f].credit + (clock - buckets[f].last)
  BY <1>1, <1>2, RefillFacts
<1>4. Levels(requests[f], Credit(f), clock)
  BY <1>1, <1>3, LevelsRise DEF BucketInv
<1> QED BY <1>3, <1>4

\* The bucket of one feed is counted, perhaps with a call of it.
LEMMA BucketCounted ==
  ASSUME BucketInv, NEW f \in Feeds, NEW credit \in Nat, credit <= Worth(Burst),
         NEW calls \in Seq(Nat), Levels(calls, credit, clock), Paced(calls),
         buckets' = [buckets EXCEPT ![f] = [credit |-> credit, last |-> clock]],
         requests' = [requests EXCEPT ![f] = calls],
         NEW c \in Callers, pc[c] # "idle", NEW stage, pc' = [pc EXCEPT ![c] = stage],
         UNCHANGED <<clock, asked>>
  PROVE  BucketInv'
<1>1. /\ buckets' \in [Feeds -> [credit : Nat, last : Nat]] /\ requests' \in [Feeds -> Seq(Nat)]
      /\ clock' \in Nat /\ asked' \in [Callers -> Feeds \cup {None}]
  BY DEF BucketInv
<1>2. \A d \in Callers : pc'[d] # "idle" => asked'[d] \in Feeds
  <2>1. \A d \in Callers : d # c => pc'[d] = pc[d] \/ pc'[d] = "idle"
    OBVIOUS
  <2> QED BY <2>1 DEF BucketInv
<1>3. \A g \in Feeds : /\ buckets'[g].last <= clock'
                       /\ buckets'[g].credit <= Worth(Burst)
                       /\ Levels(requests'[g], buckets'[g].credit, buckets'[g].last)
                       /\ Paced(requests'[g])
  <2>1. /\ buckets'[f].credit = credit /\ buckets'[f].last = clock /\ requests'[f] = calls
        /\ \A g \in Feeds \ {f} : buckets'[g] = buckets[g] /\ requests'[g] = requests[g]
    BY DEF BucketInv
  <2>2. clock' = clock /\ clock \in Nat
    BY DEF BucketInv
  <2> QED BY <2>1, <2>2 DEF BucketInv
<1> QED BY <1>1, <1>2, <1>3 DEF BucketInv

\* Looking at a bucket brings its credit up to date.
LEMMA Counting ==
  ASSUME BucketInv, NEW c \in Callers, TakeToken(c) \/ SleepForToken(c)
  PROVE  BucketInv'
<1> DEFINE f == asked[c]
<1>1. f \in Feeds /\ pc[c] # "idle" /\ requests[f] \in Seq(Nat) /\ clock \in Nat
  BY DEF TakeToken, SleepForToken, BucketInv
<1>2. /\ Credit(f) \in Nat /\ Credit(f) <= Worth(Burst) /\ Levels(requests[f], Credit(f), clock)
      /\ Paced(requests[f])
  BY <1>1, CreditGrows DEF BucketInv
<1>3. UNCHANGED <<clock, asked>> /\ \E stage : pc' = [pc EXCEPT ![c] = stage]
  BY DEF TakeToken, SleepForToken, Finish, Return
<1>4. CASE SleepForToken(c)
  <2>1. /\ buckets' = [buckets EXCEPT ![f] = [credit |-> Credit(f), last |-> clock]]
        /\ requests' = [requests EXCEPT ![f] = requests[f]]
    BY <1>1, <1>4 DEF SleepForToken, Count, BucketInv
  <2> QED BY <1>1, <1>2, <1>3, <2>1, BucketCounted
<1>5. CASE TakeToken(c)
  <2>1. /\ Refill <= Credit(f)
        /\ buckets' = [buckets EXCEPT ![f] = [credit |-> Credit(f) - Refill, last |-> clock]]
        /\ \/ requests' = [requests EXCEPT ![f] = requests[f]]
           \/ requests' = [requests EXCEPT ![f] = Append(requests[f], clock)]
    BY <1>1, <1>2, <1>5, RefillFacts DEF TakeToken, Count, BucketInv
  <2>2. Credit(f) - Refill \in Nat /\ Credit(f) - Refill <= Worth(Burst)
    BY <1>2, <2>1, RefillFacts
  <2>3. Levels(requests[f], Credit(f) - Refill, clock)
    <3>1. Credit(f) - Refill <= Credit(f) + (clock - clock)
      BY <1>1, <1>2, RefillFacts
    <3> HIDE DEF f
    <3> QED BY <1>1, <1>2, <2>2, <3>1, LevelsRise
  <2>4. /\ Levels(Append(requests[f], clock), Credit(f) - Refill, clock)
        /\ Paced(Append(requests[f], clock)) /\ Append(requests[f], clock) \in Seq(Nat)
    <3> HIDE DEF f
    <3> QED BY <1>1, <1>2, <2>1, LevelsWithOneMore
  <2>5. CASE requests' = [requests EXCEPT ![f] = requests[f]]
    BY <1>1, <1>2, <1>3, <2>1, <2>2, <2>3, <2>5, BucketCounted
  <2>6. CASE requests' = [requests EXCEPT ![f] = Append(requests[f], clock)]
    BY <1>1, <1>3, <2>1, <2>2, <2>4, <2>6, BucketCounted
  <2> QED BY <2>1, <2>5, <2>6
<1> QED BY <1>4, <1>5

\* Every step keeps the buckets in order.
LEMMA BucketStep == BucketInv /\ [FetchNext]_fetchVars => BucketInv'
<1> SUFFICES ASSUME BucketInv, [FetchNext]_fetchVars PROVE BucketInv'
  OBVIOUS
<1>1. CASE UNCHANGED fetchVars
  BY <1>1 DEF fetchVars, callVars, BucketInv
<1>2. ASSUME NEW c \in Callers, NEW f \in Feeds, GetOrFetch(c, f)
      PROVE  BucketInv'
  <2>1. /\ asked' = [asked EXCEPT ![c] = f] /\ \E stage : pc' = [pc EXCEPT ![c] = stage]
        /\ UNCHANGED <<clock, buckets, requests>>
    BY <1>2 DEF GetOrFetch, Return
  <2>2. /\ asked' \in [Callers -> Feeds \cup {None}]
        /\ \A d \in Callers : pc'[d] # "idle" => asked'[d] \in Feeds
    <3>1. \A d \in Callers : d # c => asked'[d] = asked[d] /\ (pc'[d] = pc[d] \/ pc'[d] = "idle")
      BY <2>1
    <3> QED BY <2>1, <3>1 DEF BucketInv
  <2> QED BY <2>1, <2>2 DEF BucketInv
<1>3. ASSUME NEW c \in Callers, StopWaiting(c) \/ WakeUp(c) \/ Answer(c)
      PROVE  BucketInv'
  <2>1. /\ \E stage : pc' = [pc EXCEPT ![c] = stage]
        /\ pc[c] # "idle" /\ UNCHANGED <<clock, asked, buckets, requests>>
    BY <1>3 DEF StopWaiting, WakeUp, Answer, Finish, Return
  <2>2. \A d \in Callers : pc'[d] # "idle" => asked'[d] \in Feeds
    <3>1. \A d \in Callers : d # c => pc'[d] = pc[d] \/ pc'[d] = "idle"
      BY <2>1
    <3> QED BY <2>1, <3>1 DEF BucketInv
  <2> QED BY <2>1, <2>2 DEF BucketInv
<1>4. CASE Tick
  <2>1. clock' = clock + 1 /\ UNCHANGED <<buckets, requests, asked, pc>>
    BY <1>4 DEF Tick, callVars
  <2>2. clock' \in Nat /\ \A f \in Feeds : buckets[f].last <= clock'
    BY <2>1 DEF BucketInv
  <2> QED BY <2>1, <2>2 DEF BucketInv
<1>5. ASSUME NEW c \in Callers, Cancel(c)
      PROVE  BucketInv'
  BY <1>5 DEF Cancel, callVars, BucketInv
<1> QED BY <1>1, <1>2, <1>3, <1>4, <1>5, Counting DEF FetchNext, Goroutine

\* No stretch of time holds more calls of an endpoint than a full bucket and
\* what flows into it meanwhile (endpointLimiter.wait), whoever calls.
THEOREM CallsAreThrottled == FetchSpec => []Throttled
<1>1. BucketInv => Throttled
  <2> SUFFICES ASSUME BucketInv, NEW f \in Feeds, NEW i \in DOMAIN requests[f],
                      NEW j \in DOMAIN requests[f], i <= j
               PROVE  (j - i + 1) * Refill <= Burst * Refill + requests[f][j] - requests[f][i]
    BY DEF Throttled
  <2>1. requests[f] \in Seq(Nat) /\ Paced(requests[f])
    BY DEF BucketInv
  <2>2. i \in 1 .. Len(requests[f]) /\ j \in 1 .. Len(requests[f])
    BY <2>1
  <2>3. Worth(j - i + 1) <= Worth(Burst) + requests[f][j] - requests[f][i]
    BY <2>1, <2>2 DEF Paced
  <2> QED BY <2>3 DEF Worth
<1> QED BY <1>1, BucketStart, BucketStep, PTL DEF FetchSpec

(***************************************************************************)
(* Sequences of the members of a sequence (RealtimeSnapshot, At).          *)
(***************************************************************************)
\* A set of naturals has a least element.
LEMMA LeastNatural ==
  ASSUME NEW T, T \subseteq Nat, T # {}
  PROVE  \E x \in T : \A y \in T : x <= y
<1>1. PICK x \in T : \A y \in T : ~(<<y, x>> \in OpToRel(<, Nat))
  BY WFMin, NatLessThanWellFounded
<1>2. \A y \in T : x <= y
  <2>1. TAKE y \in T
  <2>2. x \in Nat /\ y \in Nat OBVIOUS
  <2>3. ~(y < x) BY <1>1, <2>2 DEF OpToRel
  <2>q. QED BY <2>2, <2>3
<1>q. QED BY <1>2

Below(S, t) == S \cap 1 .. t - 1

\* How many positions are below one.
LEMMA BelowFacts ==
  ASSUME NEW n \in Nat, NEW S \in SUBSET (1 .. n)
  PROVE  /\ IsFiniteSet(S) /\ Cardinality(S) \in Nat
         /\ \A t \in Int : /\ IsFiniteSet(Below(S, t)) /\ Cardinality(Below(S, t)) \in Nat
                           /\ Cardinality(Below(S, t)) <= Cardinality(S)
                           /\ Cardinality(Below(S, t + 1))
                                = Cardinality(Below(S, t)) + IF t \in S THEN 1 ELSE 0
         /\ Cardinality(Below(S, 1)) = 0 /\ Cardinality(Below(S, n + 1)) = Cardinality(S)
<1>0. \A x \in S : x \in Int /\ 1 <= x /\ x <= n OBVIOUS
<1>1. IsFiniteSet(1 .. n) BY FS_Interval
<1>2. IsFiniteSet(S) /\ Cardinality(S) \in Nat BY <1>1, FS_Subset, FS_CardinalityType
<1>3. ASSUME NEW t \in Int
      PROVE  /\ IsFiniteSet(Below(S, t)) /\ Cardinality(Below(S, t)) \in Nat
             /\ Cardinality(Below(S, t)) <= Cardinality(S)
             /\ Cardinality(Below(S, t + 1)) = Cardinality(Below(S, t)) + IF t \in S THEN 1 ELSE 0
  <2>1. Below(S, t) \subseteq S BY DEF Below
  <2>2. IsFiniteSet(Below(S, t)) /\ Cardinality(Below(S, t)) \in Nat /\ Cardinality(Below(S, t)) <= Cardinality(S)
    BY <1>2, <2>1, FS_Subset, FS_CardinalityType
  <2>3. CASE t \in S
    <3>1. Below(S, t + 1) = Below(S, t) \cup {t} BY <1>0, <2>3 DEF Below
    <3>2. t \notin Below(S, t) BY DEF Below
    <3>q. QED BY <2>2, <2>3, <3>1, <3>2, FS_AddElement
  <2>4. CASE t \notin S
    <3>1. Below(S, t + 1) = Below(S, t) BY <1>0, <2>4 DEF Below
    <3>q. QED BY <2>2, <2>4, <3>1
  <2>q. QED BY <2>2, <2>3, <2>4
<1>4. Below(S, 1) = {} BY <1>0 DEF Below
<1>5. Below(S, n + 1) = S
  <2>1. S \cap 1 .. n = S OBVIOUS
  <2>2. (n + 1) - 1 = n OBVIOUS
  <2>q. QED BY <2>1, <2>2 DEF Below
<1>q. QED BY <1>2, <1>3, <1>4, <1>5, FS_EmptySet

\* It grows with the position.
LEMMA BelowGrows ==
  ASSUME NEW n \in Nat, NEW S \in SUBSET (1 .. n), NEW i \in S, NEW j \in S, i < j
  PROVE  Cardinality(Below(S, i)) < Cardinality(Below(S, j))
<1>0. i \in Int /\ j \in Int /\ \A x \in S : x \in Int OBVIOUS
<1>1. Below(S, i + 1) \subseteq Below(S, j) BY <1>0 DEF Below
<1>2. Cardinality(Below(S, i + 1)) <= Cardinality(Below(S, j))
  BY <1>0, <1>1, BelowFacts, FS_Subset
<1>3. /\ Cardinality(Below(S, i + 1)) = Cardinality(Below(S, i)) + 1
      /\ Cardinality(Below(S, i)) \in Nat /\ Cardinality(Below(S, j)) \in Nat
  BY <1>0, BelowFacts
<1>q. QED BY <1>2, <1>3

\* Every number below the size of the set is that of one position.
LEMMA BelowReached ==
  ASSUME NEW n \in Nat, NEW S \in SUBSET (1 .. n), NEW k \in 1 .. Cardinality(S)
  PROVE  \E i \in S : Cardinality(Below(S, i)) = k - 1
<1> DEFINE c(t) == Cardinality(Below(S, t))
           T == {t \in 1 .. n + 1 : c(t) >= k}
<1>1. Cardinality(S) \in Nat /\ c(1) = 0 /\ c(n + 1) = Cardinality(S)
      /\ \A t \in Int : c(t) \in Nat /\ c(t + 1) = c(t) + IF t \in S THEN 1 ELSE 0
  BY BelowFacts
<1> HIDE DEF c
<1>2. T \subseteq Nat /\ T # {} BY SMTT(30), <1>1
<1>3. PICK t \in T : \A u \in T : t <= u BY <1>2, LeastNatural
<1>4. t \in 1 .. n + 1 /\ c(t) >= k /\ t # 1 BY <1>1
<1>5. t - 1 \in 1 .. n + 1 /\ ~(t <= t - 1) BY <1>4
<1>6. ~(c(t - 1) >= k) BY <1>3, <1>5
<1>7. c(t - 1) \in Nat /\ c(t) = c(t - 1) + IF t - 1 \in S THEN 1 ELSE 0
  <2>1. t - 1 \in Int /\ (t - 1) + 1 = t BY <1>4
  <2>q. QED BY <1>1, <2>1
<1>8. t - 1 \in S /\ c(t - 1) = k - 1 BY <1>1, <1>4, <1>6, <1>7
<1>q. QED BY <1>8 DEF c

\* At(s, S) holds the members of s at S, each of them once, and no others.
LEMMA AtFacts ==
  ASSUME NEW s, NEW n \in Nat, NEW S \in SUBSET (1 .. n)
  PROVE  LET a == At(s, S)
         IN  /\ Cardinality(S) \in Nat /\ DOMAIN a = 1 .. Cardinality(S) /\ Len(a) = Cardinality(S)
             /\ \A k \in DOMAIN a : \E i \in S : a[k] = s[i]
             /\ \A i \in S : \E k \in DOMAIN a : a[k] = s[i]
             /\ a = <<>> <=> S = {}
<1> DEFINE p(k) == CHOOSE i \in S : Cardinality(Below(S, i)) = k - 1
           N == Cardinality(S)
           a == At(s, S)
<1>1. N \in Nat /\ a = [k \in 1 .. N |-> s[p(k)]] BY BelowFacts DEF At, Below
<1>2. \A k \in 1 .. N : p(k) \in S /\ Cardinality(Below(S, p(k))) = k - 1 BY BelowReached
<1>3. ASSUME NEW i \in S PROVE \E k \in 1 .. N : p(k) = i
  <2> DEFINE k == Cardinality(Below(S, i)) + 1
  <2>1. i \in Int /\ k \in 1 .. N /\ k - 1 = Cardinality(Below(S, i))
    <3>1. i \in Int OBVIOUS
    <3>2. Cardinality(Below(S, i)) \in Nat /\ Cardinality(Below(S, i + 1)) <= N
          /\ Cardinality(Below(S, i + 1)) = Cardinality(Below(S, i)) + 1
      <4>1. i + 1 \in Int BY <3>1
      <4>q. QED BY <3>1, <4>1, BelowFacts
    <3>q. QED BY <1>1, <3>1, <3>2
  <2> HIDE DEF k
  <2>2. p(k) \in S /\ Cardinality(Below(S, p(k))) = Cardinality(Below(S, i)) BY <1>2, <2>1
  <2>3. ~(p(k) < i) /\ ~(i < p(k))
    <3> DEFINE j == p(k)
    <3>1. j \in S /\ Cardinality(Below(S, j)) = Cardinality(Below(S, i)) BY <2>2
    <3>2. Cardinality(Below(S, i)) \in Nat BY <2>1, BelowFacts
    <3> HIDE DEF j, p
    <3>3. ASSUME j < i PROVE FALSE
      <4>1. Cardinality(Below(S, j)) < Cardinality(Below(S, i)) BY <3>1, <3>3, BelowGrows
      <4>q. QED BY <3>1, <3>2, <4>1
    <3>4. ASSUME i < j PROVE FALSE
      <4>1. Cardinality(Below(S, i)) < Cardinality(Below(S, j)) BY <3>1, <3>4, BelowGrows
      <4>q. QED BY <3>1, <3>2, <4>1
    <3>q. QED BY <3>3, <3>4 DEF j
  <2>4. p(k) = i BY <2>1, <2>2, <2>3
  <2>q. QED BY <2>1, <2>4
<1> HIDE DEF p, a, N
<1>4. DOMAIN a = 1 .. N /\ \A k \in 1 .. N : a[k] = s[p(k)] BY <1>1
<1>5. Len(a) = N BY <1>1
<1>6. S = {} => a = <<>>
  <2>1. SUFFICES ASSUME S = {} PROVE a = <<>> OBVIOUS
  <2>2. N = 0 BY <2>1, FS_EmptySet DEF N
  <2>q. QED BY <1>1, <2>2
<1>7. S # {} => a # <<>>
  <2>1. SUFFICES ASSUME NEW i \in S PROVE a # <<>> OBVIOUS
  <2>2. PICK k \in 1 .. N : p(k) = i BY <1>3
  <2>3. DOMAIN a # {} BY <1>4, <2>2
  <2>q. QED BY <2>3
<1>q. QED BY <1>1, <1>2, <1>3, <1>4, <1>5, <1>6, <1>7 DEF a, N

(***************************************************************************)
(* The calls of a lookup.                                                  *)
(***************************************************************************)
Calls == [kind : {"next", "past"}, type : TypeSet] \cup [kind : {"scan", "run"}, type : {None}]

\* The places the options name, all of which have to be asked.
Required ==
  {Call("run", None)}
    \cup (IF hints.scan THEN {Call("scan", None)} ELSE {})
    \cup IF hints.stop # "none" /\ hints.route = "none"
         THEN {Call(kind, t) : kind \in {"next", "past"}, t \in TypeSet} ELSE {}

\* The later departures of a mode are looked at before the earlier ones.
LaterFirst(calls, before) ==
  \A i \in DOMAIN calls : calls[i].kind = "past" =>
    \/ Call("next", calls[i].type) \in before
    \/ \E j \in 1 .. i - 1 : calls[j] = Call("next", calls[i].type)

Asked(calls) == {calls[i] : i \in DOMAIN calls}

Typed ==
  /\ hints \in Hints
  /\ step \in {"start", "lookup", "enrich", "feeds", "printed", "failed"}
  /\ todo \in Seq(Calls)
  /\ read \in Seq([type : FeedTypeSet, message : Positions])
  /\ sources \in Seq(FeedTypeSet)
  /\ step \in {"start", "lookup", "enrich"} => read = <<>> /\ notices = {}
  /\ step \in {"enrich", "feeds", "printed"} =>
       found \in [by : {"none", "next", "past", "scan", "run", "public_label"},
                  type : TypeSet \cup FeedTypeSet \cup {None}, label : Descriptors \cup {{Queried}},
                  realtime : Sightings \cup {None}]
  /\ step \in {"enrich", "feeds"} => found.realtime = None
  /\ step \in {"enrich", "feeds"} /\ found.by = "none" => found = NoResult
  /\ step \in {"enrich", "feeds"} => found.by # "public_label"
  /\ step \in {"enrich", "feeds", "printed"} /\ found.by # "none" => found.type # None
  /\ step = "feeds" => found.label # {}

Looking == step = "lookup" => Required \subseteq missed \cup Asked(todo) /\ LaterFirst(todo, missed)

Looked ==
  step \in {"enrich", "feeds", "printed"} =>
    /\ found.by = "none" => Required \subseteq missed
    /\ found.by = "past" => Call("next", found.type) \in missed

FeedsRead ==
  /\ step \in {"feeds", "printed"} /\ found.by = "none" =>
       \A i \in DOMAIN read : Candidates(read[i].message) = {}
  /\ step = "feeds" /\ found.by = "none" /\ notices = {} =>
       FeedTypeSet = {read[i].type : i \in DOMAIN read} \cup {sources[i] : i \in DOMAIN sources}
  /\ step = "printed" /\ found.by = "none" /\ notices = {} =>
       FeedTypeSet = {read[i].type : i \in DOMAIN read}
  /\ step = "feeds" /\ found.type # None => \A i \in DOMAIN sources : sources[i] = found.type

LookupInv == Typed /\ Looking /\ Looked /\ FeedsRead /\ BestObservation

(***************************************************************************)
(* The freshest of several observations.                                   *)
(***************************************************************************)

\* Freshness is a strict order in which every two either compare or are alike.
LEMMA FresherIsOrder ==
  ASSUME NEW a \in Sightings, NEW b \in Sightings, NEW c \in Sightings
  PROVE  /\ ~FresherObservation(a, a)
         /\ FresherObservation(a, b) /\ FresherObservation(b, c) => FresherObservation(a, c)
         /\ ~FresherObservation(a, b) /\ ~FresherObservation(b, c) => ~FresherObservation(a, c)
<1>1. /\ Rank(a.state) \in Int /\ Rank(b.state) \in Int /\ Rank(c.state) \in Int
  BY DEF Rank, Sightings
<1>2. /\ a.stamp \in Int \cup {None} /\ b.stamp \in Int \cup {None} /\ c.stamp \in Int \cup {None}
      /\ None \notin Int
  BY TypesAssumption DEF Sightings
<1> DEFINE ra == Rank(a.state)
           rb == Rank(b.state)
           rc == Rank(c.state)
           sa == a.stamp
           sb == b.stamp
           sc == c.stamp
           F(rx, x, ry, y) == rx < ry \/ (rx = ry /\ x # None /\ (y = None \/ x > y))
<1>3. /\ FresherObservation(a, a) <=> F(ra, sa, ra, sa)
      /\ FresherObservation(a, b) <=> F(ra, sa, rb, sb)
      /\ FresherObservation(b, c) <=> F(rb, sb, rc, sc)
      /\ FresherObservation(a, c) <=> F(ra, sa, rc, sc)
  BY DEF FresherObservation
<1>4. ra \in Int /\ rb \in Int /\ rc \in Int /\ sa \in Int \cup {None} /\ sb \in Int \cup {None}
      /\ sc \in Int \cup {None}
  BY <1>1, <1>2
<1> HIDE DEF ra, rb, rc, sa, sb, sc
<1>5. ~F(ra, sa, ra, sa) BY <1>2, <1>4
<1>6. F(ra, sa, rb, sb) /\ F(rb, sb, rc, sc) => F(ra, sa, rc, sc) BY <1>2, <1>4
<1>7. ~F(ra, sa, rb, sb) /\ ~F(rb, sb, rc, sc) => ~F(ra, sa, rc, sc) BY <1>2, <1>4
<1>q. QED BY <1>3, <1>5, <1>6, <1>7

\* One of the first m that no other is fresher than, and the first such.
FirstFreshest(known, m, i) ==
  \A j \in 1 .. m : /\ ~FresherObservation(known[j], known[i])
                    /\ j < i => FresherObservation(known[i], known[j])

\* Among the first observations there is one that none is fresher than, and that
\* is fresher than those before it.
LEMMA FreshestExists ==
  ASSUME NEW known, NEW n \in Nat \ {0}, \A i \in 1 .. n : known[i] \in Sightings
  PROVE  \E i \in 1 .. n : FirstFreshest(known, n, i)
<1> DEFINE Has(m) == \E i \in 1 .. m : FirstFreshest(known, m, i)
           T == {m \in 1 .. n : ~Has(m)}
<1>1. SUFFICES ASSUME T # {} PROVE FALSE
  <2>1. n \in 1 .. n OBVIOUS
  <2>2. Has(n) BY <1>1, <2>1
  <2>q. QED BY <2>2
<1>2. T \subseteq Nat OBVIOUS
<1>3. PICK m \in T : \A k \in T : m <= k BY <1>1, <1>2, LeastNatural
<1>4. m \in 1 .. n /\ ~Has(m) BY <1>3
<1>5. CASE m = 1
  <2>1. FirstFreshest(known, 1, 1) BY <1>4, <1>5, FresherIsOrder DEF FirstFreshest
  <2>q. QED BY <1>4, <1>5, <2>1
<1>6. CASE m # 1
  <2>1. m - 1 \in 1 .. n /\ ~(m <= m - 1) BY <1>4, <1>6
  <2>2. Has(m - 1) BY <1>3, <2>1
  <2>3. PICK i \in 1 .. m - 1 : FirstFreshest(known, m - 1, i) BY <2>2
  <2> HIDE DEF T
  <2>4. i \in 1 .. m /\ m \in 1 .. m /\ i < m /\ \A j \in 1 .. m : known[j] \in Sightings /\ (j # m => j \in 1 .. m - 1)
    BY <1>4, <2>1, <2>3
  <2>5. CASE FresherObservation(known[m], known[i])
    <3>1. ASSUME NEW j \in 1 .. m
          PROVE  ~FresherObservation(known[j], known[m]) /\ (j < m => FresherObservation(known[m], known[j]))
      <4>1. CASE j = m BY <2>4, <4>1, FresherIsOrder
      <4>2. CASE j # m
        <5>1. ~FresherObservation(known[j], known[i]) BY <2>3, <2>4, <4>2 DEF FirstFreshest
        <5>2. known[j] \in Sightings /\ known[m] \in Sightings /\ known[i] \in Sightings BY <2>4
        <5>3. ~FresherObservation(known[j], known[m]) BY <2>5, <5>1, <5>2, FresherIsOrder
        <5>4. FresherObservation(known[m], known[j]) BY <2>5, <5>1, <5>2, FresherIsOrder
        <5>q. QED BY <5>3, <5>4
      <4>q. QED BY <4>1, <4>2
    <3>2. FirstFreshest(known, m, m) BY <3>1 DEF FirstFreshest
    <3>q. QED BY <1>4, <2>4, <3>2
  <2>6. CASE ~FresherObservation(known[m], known[i])
    <3>1. FirstFreshest(known, m, i)
      <4>1. ASSUME NEW j \in 1 .. m
            PROVE  ~FresherObservation(known[j], known[i]) /\ (j < i => FresherObservation(known[i], known[j]))
        <5>1. CASE j = m BY <2>4, <2>6, <5>1
        <5>2. CASE j # m BY <2>3, <2>4, <5>2 DEF FirstFreshest
        <5>q. QED BY <5>1, <5>2
      <4>q. QED BY <4>1 DEF FirstFreshest
    <3>q. QED BY <1>4, <2>4, <3>1
  <2>q. QED BY <2>5, <2>6
<1>q. QED BY <1>5, <1>6

(***************************************************************************)
(* What a snapshot shows of a message.                                     *)
(***************************************************************************)
\* A vehicle of a message as a snapshot has it.
Judged(m, v) == [v EXCEPT !.state = CombineFreshness(ClassifyTimestamp(m.stamp, Now), ClassifyTimestamp(v.stamp, Now))]

\* The vehicles of a message that have the label.
LabelledAs(m, label) == {v \in Vehicles(m) : label \in LabelKeys(v.label)}

\* Judging a vehicle by its age changes its state alone.
LEMMA JudgedFacts ==
  ASSUME NEW m, NEW v \in Sightings
  PROVE  /\ Judged(m, v) \in Sightings /\ Judged(m, v).label = v.label /\ Judged(m, v).stamp = v.stamp
         /\ Judged(m, v).state = CombineFreshness(ClassifyTimestamp(m.stamp, Now), ClassifyTimestamp(v.stamp, Now))
         /\ Judged(m, v) # None
<1>1. CombineFreshness(ClassifyTimestamp(m.stamp, Now), ClassifyTimestamp(v.stamp, Now))
        \in {"current", "stale", "unknown", "future"}
  BY DEF CombineFreshness
<1>2. Judged(m, v) \in Sightings BY <1>1 DEF Judged, Sightings
<1>q. QED BY <1>2, TypesAssumption DEF Judged, Sightings

\* The vehicles of a snapshot are those of the message, judged, in some order.
LEMMA SnapshotVehicles ==
  ASSUME NEW m \in Positions
  PROVE  LET s == NormalizeSnapshot(m, Now)
         IN  \E n \in Nat : /\ DOMAIN s.vehicles = 1 .. n
                            /\ \A i \in 1 .. n : \E v \in Vehicles(m) : v \in Sightings /\ s.vehicles[i] = Judged(m, v)
                            /\ \A v \in Vehicles(m) : v \in Sightings /\ \E i \in 1 .. n : s.vehicles[i] = Judged(m, v)
<1> DEFINE s == NormalizeSnapshot(m, Now)
           e == m.entities
           S == {i \in DOMAIN e : ~e[i].deleted /\ e[i].vehicle # None}
           moving == At(e, S)
           rows == [i \in DOMAIN moving |-> moving[i].vehicle]
<1>1. s.vehicles = Observations(rows, ClassifyTimestamp(m.stamp, Now), Now)
  BY DEF NormalizeSnapshot
<1>2. /\ Len(e) \in Nat /\ DOMAIN e = 1 .. Len(e)
      /\ \A i \in DOMAIN e : e[i].vehicle \in Sightings \cup {None}
  <2> DEFINE R == {m.entities[i] : i \in DOMAIN m.entities}
  <2>1. e \in Seq(R) /\ \A i \in DOMAIN e : e[i].vehicle \in Sightings \cup {None} BY PositionsAssumption
  <2> HIDE DEF e, R
  <2>q. QED BY <2>1
<1>3. S \in SUBSET (1 .. Len(e)) BY <1>2
<1> HIDE DEF e
<1>4. /\ Cardinality(S) \in Nat /\ DOMAIN moving = 1 .. Cardinality(S)
      /\ \A k \in DOMAIN moving : \E i \in S : moving[k] = e[i]
      /\ \A i \in S : \E k \in DOMAIN moving : moving[k] = e[i]
  BY <1>2, <1>3, AtFacts
<1> DEFINE n == Cardinality(S)
<1>5. Vehicles(m) = {e[i].vehicle : i \in S}
  <2>1. Vehicles(m) = {e[i].vehicle : i \in {j \in DOMAIN e : ~e[j].deleted}} \ {None} BY DEF Vehicles, e
  <2>q. QED BY <2>1
<1>6. \A i \in S : e[i].vehicle \in Sightings BY <1>2
<1> HIDE DEF S, moving
<1>7. DOMAIN s.vehicles = 1 .. n /\ \A k \in 1 .. n : s.vehicles[k] = Judged(m, moving[k].vehicle)
  BY <1>1, <1>4 DEF Observations, Judged
<1> HIDE DEF s
<1>8. \A k \in 1 .. n : \E v \in Vehicles(m) : v \in Sightings /\ s.vehicles[k] = Judged(m, v)
  <2>1. TAKE k \in 1 .. n
  <2>2. PICK i \in S : moving[k] = e[i] BY <1>4
  <2>q. QED BY <1>5, <1>6, <1>7, <2>2
<1>9. \A v \in Vehicles(m) : v \in Sightings /\ \E k \in 1 .. n : s.vehicles[k] = Judged(m, v)
  <2>1. TAKE v \in Vehicles(m)
  <2>2. PICK i \in S : v = e[i].vehicle BY <1>5
  <2>3. PICK k \in 1 .. n : moving[k] = e[i] BY <1>4
  <2>q. QED BY <1>6, <1>7, <2>2, <2>3
<1>10. n \in Nat BY <1>4
<1> HIDE DEF n
<1>q. QED BY <1>7, <1>8, <1>9, <1>10 DEF s

\* An observation is current when it and its feed were seen just now.
LEMMA CurrentIsFresh ==
  ASSUME NEW x \in Int \cup {None}, NEW y \in Int \cup {None}
  PROVE  CombineFreshness(ClassifyTimestamp(x, Now), ClassifyTimestamp(y, Now)) = "current"
           <=> Fresh(x) /\ Fresh(y)
<1>0. None \notin Int /\ Now \in Int /\ Skew \in Int /\ Window \in Int BY TypesAssumption
<1>1. ASSUME NEW z \in Int \cup {None}
      PROVE  /\ ClassifyTimestamp(z, Now) = "current" <=> Fresh(z)
             /\ ClassifyTimestamp(z, Now) \in {"current", "stale", "unknown", "future"}
  <2>1. CASE z = None BY <2>1 DEF ClassifyTimestamp, Fresh
  <2>2. CASE z # None /\ z - Now > Skew BY <1>0, <2>2 DEF ClassifyTimestamp, Fresh
  <2>3. CASE z # None /\ ~(z - Now > Skew) /\ Now - z > Window BY <1>0, <2>3 DEF ClassifyTimestamp, Fresh
  <2>4. CASE z # None /\ ~(z - Now > Skew) /\ ~(Now - z > Window) BY <1>0, <2>4 DEF ClassifyTimestamp, Fresh
  <2>q. QED BY <2>1, <2>2, <2>3, <2>4
<1> DEFINE a == ClassifyTimestamp(x, Now)
           b == ClassifyTimestamp(y, Now)
<1>2. (a = "current" <=> Fresh(x)) /\ (b = "current" <=> Fresh(y)) BY <1>1
<1>3. a \in {"current", "stale", "unknown", "future"} /\ b \in {"current", "stale", "unknown", "future"} BY <1>1
<1> HIDE DEF a, b
<1>4. CombineFreshness(a, b) = "current" <=> a = "current" /\ b = "current" BY <1>3 DEF CombineFreshness
<1>q. QED BY <1>2, <1>4 DEF a, b

\* What a feed shows of a label is one of its vehicles of that label, and no
\* other of them is fresher; it shows nothing only when it has none.
LEMMA BestVehicle ==
  ASSUME NEW m \in Positions, NEW label, label # {}
  PROVE  LET seen == FindVehicleByLabel(NormalizeSnapshot(m, Now), label)
         IN  /\ seen = None <=> LabelledAs(m, label) = {}
             /\ seen # None =>
                  /\ \E v \in LabelledAs(m, label) : v \in Sightings /\ seen = Judged(m, v)
                  /\ \A w \in LabelledAs(m, label) :
                       w \in Sightings /\ ~FresherObservation(Judged(m, w), seen)
<1> DEFINE s == NormalizeSnapshot(m, Now)
           r == s.vehicles
           S == {i \in DOMAIN r : label \in LabelKeys(r[i].label)}
           known == At(r, S)
           N == Cardinality(S)
           Best(i) == \A j \in DOMAIN known : /\ ~FresherObservation(known[j], known[i])
                                              /\ j < i => FresherObservation(known[i], known[j])
           seen == FindVehicleByLabel(s, label)
<1>1. PICK n \in Nat :
        /\ DOMAIN r = 1 .. n
        /\ \A i \in 1 .. n : \E v \in Vehicles(m) : v \in Sightings /\ r[i] = Judged(m, v)
        /\ \A v \in Vehicles(m) : v \in Sightings /\ \E i \in 1 .. n : r[i] = Judged(m, v)
  BY SnapshotVehicles
<1>2. seen = IF label = {} \/ known = <<>> THEN None ELSE known[CHOOSE i \in DOMAIN known : Best(i)]
  BY DEF FindVehicleByLabel
<1>3. S \in SUBSET (1 .. n) BY <1>1
<1> HIDE DEF r, s
<1>4. /\ N \in Nat /\ DOMAIN known = 1 .. N
      /\ \A k \in DOMAIN known : \E i \in S : known[k] = r[i]
      /\ \A i \in S : \E k \in DOMAIN known : known[k] = r[i]
      /\ known = <<>> <=> S = {}
  BY <1>3, AtFacts
<1>5. \A v \in LabelledAs(m, label) : v \in Sightings /\ \E i \in S : r[i] = Judged(m, v)
  <2>1. TAKE v \in LabelledAs(m, label)
  <2>2. v \in Vehicles(m) /\ label \in LabelKeys(v.label) BY DEF LabelledAs
  <2>3. v \in Sightings BY <1>1, <2>2
  <2>4. PICK i \in 1 .. n : r[i] = Judged(m, v) BY <1>1, <2>2
  <2>5. r[i].label = v.label BY <2>3, <2>4, JudgedFacts
  <2>q. QED BY <1>1, <2>2, <2>3, <2>4, <2>5
<1>6. \A i \in S : \E v \in LabelledAs(m, label) : v \in Sightings /\ r[i] = Judged(m, v)
  <2>1. TAKE i \in S
  <2>2. PICK v \in Vehicles(m) : v \in Sightings /\ r[i] = Judged(m, v) BY <1>1
  <2>3. r[i].label = v.label BY <2>2, JudgedFacts
  <2>q. QED BY <2>2, <2>3 DEF LabelledAs
<1> HIDE DEF S, N, known
<1>7. \A k \in 1 .. N : known[k] \in Sightings
  <2>1. TAKE k \in 1 .. N
  <2>2. PICK i \in S : known[k] = r[i] BY <1>4
  <2>3. PICK v \in LabelledAs(m, label) : v \in Sightings /\ r[i] = Judged(m, v) BY <1>6
  <2>q. QED BY <2>2, <2>3, JudgedFacts
<1>8. CASE S = {}
  <2>1. seen = None BY <1>2, <1>4, <1>8
  <2>2. LabelledAs(m, label) = {} BY <1>5, <1>8
  <2>q. QED BY <2>1, <2>2 DEF s
<1>9. CASE S # {}
  <2>1. known # <<>> BY <1>4, <1>9
  <2>2. PICK k0 \in DOMAIN known : TRUE BY <1>4, <1>9
  <2>3. N \in Nat \ {0} BY <1>4, <2>2
  <2>4. \E i \in DOMAIN known : Best(i)
    <3>1. PICK i \in 1 .. N : FirstFreshest(known, N, i) BY <1>7, <2>3, FreshestExists
    <3>q. QED BY <1>4, <3>1 DEF FirstFreshest
  <2> DEFINE b == CHOOSE i \in DOMAIN known : Best(i)
  <2>5. b \in DOMAIN known /\ Best(b) BY <2>4
  <2>6. seen = known[b] BY <1>2, <2>1
  <2> HIDE DEF b, seen
  <2>7. PICK v \in LabelledAs(m, label) : v \in Sightings /\ seen = Judged(m, v)
    <3>1. PICK i \in S : known[b] = r[i] BY <1>4, <2>5
    <3>q. QED BY <1>6, <2>6, <3>1
  <2>8. seen # None BY <2>7, JudgedFacts
  <2>9. \A w \in LabelledAs(m, label) : w \in Sightings /\ ~FresherObservation(Judged(m, w), seen)
    <3>1. TAKE w \in LabelledAs(m, label)
    <3>2. PICK i \in S : w \in Sightings /\ r[i] = Judged(m, w) BY <1>5
    <3>3. PICK k \in DOMAIN known : known[k] = r[i] BY <1>4
    <3>q. QED BY <2>5, <2>6, <3>2, <3>3
  <2>q. QED BY <2>7, <2>8, <2>9 DEF s, seen
<1>q. QED BY <1>8, <1>9

\* The position taken from a message is the one BestObservation asks for.
LEMMA ShownIsBest ==
  ASSUME NEW m \in Positions, NEW label, label # {},
         NEW seen, seen = FindVehicleByLabel(NormalizeSnapshot(m, Now), label), seen # None
  PROVE  LET shown == [seen EXCEPT !.state = ShownState(@)]
             live == {v \in LabelledAs(m, label) : Fresh(v.stamp)}
         IN  /\ shown \in Sightings
             /\ [shown EXCEPT !.state = None] \in {[v EXCEPT !.state = None] : v \in LabelledAs(m, label)}
             /\ shown.state = "current" <=> Fresh(m.stamp) /\ Fresh(shown.stamp)
             /\ Fresh(m.stamp) /\ live # {} =>
                  shown.stamp \in {v.stamp : v \in live} /\ \A v \in live : v.stamp <= shown.stamp
<1> DEFINE shown == [seen EXCEPT !.state = ShownState(@)]
           live == {v \in LabelledAs(m, label) : Fresh(v.stamp)}
<1>1. PICK v \in LabelledAs(m, label) : v \in Sightings /\ seen = Judged(m, v) BY BestVehicle
<1>2. \A w \in LabelledAs(m, label) : w \in Sightings /\ ~FresherObservation(Judged(m, w), seen) BY BestVehicle
<1>3. /\ seen \in Sightings /\ seen.label = v.label /\ seen.stamp = v.stamp
      /\ seen.state = CombineFreshness(ClassifyTimestamp(m.stamp, Now), ClassifyTimestamp(v.stamp, Now))
  BY <1>1, JudgedFacts
<1>4. /\ shown \in Sightings /\ shown.stamp = v.stamp /\ shown.label = v.label
      /\ shown.state = "current" <=> seen.state = "current"
  BY <1>3 DEF ShownState, Sightings
<1>5. [shown EXCEPT !.state = None] = [v EXCEPT !.state = None]
  <2>1. shown = [label |-> v.label, stamp |-> v.stamp, state |-> shown.state] BY <1>4 DEF Sightings
  <2>2. v = [label |-> v.label, stamp |-> v.stamp, state |-> v.state] BY <1>1 DEF Sightings
  <2>q. QED BY <2>1, <2>2
<1>6. m.stamp \in Int \cup {None} /\ \A w \in Sightings : w.stamp \in Int \cup {None}
  BY PositionsAssumption DEF Sightings
<1>7. \A w \in Sightings : CombineFreshness(ClassifyTimestamp(m.stamp, Now), ClassifyTimestamp(w.stamp, Now)) = "current"
                             <=> Fresh(m.stamp) /\ Fresh(w.stamp)
  BY <1>6, CurrentIsFresh
<1>8. seen.state = "current" <=> Fresh(m.stamp) /\ Fresh(v.stamp) BY <1>1, <1>3, <1>7
<1>9. ASSUME Fresh(m.stamp), NEW w \in live
      PROVE  Fresh(v.stamp) /\ w.stamp <= v.stamp
  <2>1. w \in LabelledAs(m, label) /\ w \in Sightings /\ Fresh(w.stamp) BY <1>2, <1>9
  <2>2. Judged(m, w).state = "current" /\ Judged(m, w).stamp = w.stamp BY <1>7, <1>9, <2>1, JudgedFacts
  <2>3. ~FresherObservation(Judged(m, w), seen) BY <1>2, <2>1
  <2>4. w.stamp # None /\ w.stamp \in Int BY <1>6, <2>1 DEF Fresh
  <2>5. seen.state = "current"
    <3>1. Rank(Judged(m, w).state) = 0 BY <2>2 DEF Rank
    <3>2. Rank(seen.state) \in 0 .. 3 /\ (Rank(seen.state) = 0 => seen.state = "current")
      BY <1>3 DEF Rank, Sightings
    <3>q. QED BY <2>3, <3>1, <3>2 DEF FresherObservation
  <2>6. v.stamp \in Int BY <1>1, <1>6, <1>8, <2>5 DEF Fresh
  <2>7. ~(v.stamp = None \/ w.stamp > v.stamp)
    BY <1>3, <2>2, <2>3, <2>4, <2>5 DEF FresherObservation
  <2>q. QED BY <1>8, <2>4, <2>5, <2>6, <2>7
<1>10. Fresh(m.stamp) /\ live # {} => shown.stamp \in {w.stamp : w \in live} /\ \A w \in live : w.stamp <= shown.stamp
  <2>1. SUFFICES ASSUME Fresh(m.stamp), NEW w0 \in live
                 PROVE  shown.stamp \in {w.stamp : w \in live} /\ \A w \in live : w.stamp <= shown.stamp
    OBVIOUS
  <2>2. v \in live BY <1>1, <1>9, <2>1
  <2>q. QED BY <1>4, <1>9, <2>1, <2>2
<1> HIDE DEF shown, live
<1>11. [shown EXCEPT !.state = None] \in {[w EXCEPT !.state = None] : w \in LabelledAs(m, label)} BY <1>1, <1>5
<1>12. shown.state = "current" <=> Fresh(m.stamp) /\ Fresh(shown.stamp) BY <1>4, <1>8
<1>q. QED BY <1>4, <1>10, <1>11, <1>12 DEF shown, live

(***************************************************************************)
(* The order of the calls.                                                 *)
(***************************************************************************)
\* Of calls made after others, both orders and what is asked are kept.
LEMMA JoinedCalls ==
  ASSUME NEW a \in Seq(Calls), NEW b \in Seq(Calls), NEW X,
         LaterFirst(a, X), LaterFirst(b, X \cup Asked(a))
  PROVE  /\ a \o b \in Seq(Calls) /\ Asked(a \o b) = Asked(a) \cup Asked(b)
         /\ LaterFirst(a \o b, X)
<1> DEFINE c == a \o b
           n == Len(a)
           m == Len(b)
<1>1. /\ n \in Nat /\ m \in Nat /\ c \in Seq(Calls) /\ Len(c) = n + m
      /\ DOMAIN a = 1 .. n /\ DOMAIN b = 1 .. m /\ DOMAIN c = 1 .. n + m
      /\ \A i \in 1 .. n : c[i] = a[i]
      /\ \A i \in n + 1 .. n + m : c[i] = b[i - n]
      /\ \A i \in 1 .. m : c[n + i] = b[i]
  OBVIOUS
<1> HIDE DEF c, n, m
<1>2. Asked(c) = Asked(a) \cup Asked(b)
  <2>1. ASSUME NEW i \in 1 .. n + m PROVE c[i] \in Asked(a) \cup Asked(b)
    <3>1. CASE i <= n BY <1>1, <3>1 DEF Asked
    <3>2. CASE i > n
      <4>1. i \in n + 1 .. n + m /\ i - n \in 1 .. m BY <1>1, <3>2
      <4>q. QED BY <1>1, <4>1 DEF Asked
    <3>q. QED BY <1>1, <3>1, <3>2
  <2>2. ASSUME NEW i \in 1 .. n PROVE a[i] \in Asked(c)
    <3>1. i \in 1 .. n + m BY <1>1
    <3>q. QED BY <1>1, <3>1 DEF Asked
  <2>3. ASSUME NEW i \in 1 .. m PROVE b[i] \in Asked(c)
    <3>1. n + i \in 1 .. n + m BY <1>1
    <3>q. QED BY <1>1, <3>1 DEF Asked
  <2>q. QED BY SMTT(30), <1>1, <2>1, <2>2, <2>3 DEF Asked
<1>3. LaterFirst(c, X)
  <2>1. SUFFICES ASSUME NEW i \in 1 .. n + m, c[i].kind = "past", Call("next", c[i].type) \notin X
                 PROVE  \E j \in 1 .. i - 1 : c[j] = Call("next", c[i].type)
    BY <1>1 DEF LaterFirst
  <2>2. CASE i \in 1 .. n
    <3>1. c[i] = a[i] BY <1>1, <2>2
    <3>2. PICK j \in 1 .. i - 1 : a[j] = Call("next", a[i].type) BY <1>1, <2>1, <2>2, <3>1 DEF LaterFirst
    <3>3. j \in 1 .. n BY <1>1, <2>2
    <3>q. QED BY <1>1, <3>1, <3>2, <3>3
  <2>3. CASE i \notin 1 .. n
    <3>1. i \in n + 1 .. n + m /\ i - n \in 1 .. m BY <1>1, <2>3
    <3>2. c[i] = b[i - n] BY <1>1, <3>1
    <3>3. CASE Call("next", c[i].type) \in Asked(a)
      <4>1. PICK j \in 1 .. n : a[j] = Call("next", c[i].type) BY <1>1, <3>3 DEF Asked
      <4>2. j \in 1 .. i - 1 BY <1>1, <3>1
      <4>q. QED BY <1>1, <4>1, <4>2
    <3>4. CASE Call("next", c[i].type) \notin Asked(a)
      <4>1. PICK j \in 1 .. (i - n) - 1 : b[j] = Call("next", b[i - n].type)
        BY <1>1, <2>1, <3>1, <3>2, <3>4 DEF LaterFirst
      <4>2. j \in 1 .. m /\ n + j \in 1 .. i - 1 BY <1>1, <3>1
      <4>q. QED BY <1>1, <3>2, <4>1, <4>2
    <3>q. QED BY <3>3, <3>4
  <2>q. QED BY <2>2, <2>3
<1>q. QED BY <1>1, <1>2, <1>3 DEF c

\* The same look at the departures of several modes.
LEMMA CallsOfTypes ==
  ASSUME NEW types \in Seq(TypeSet), NEW kind \in {"next", "past"}, NEW X,
         kind = "past" => \A i \in DOMAIN types : Call("next", types[i]) \in X
  PROVE  /\ Each(kind, types) \in Seq(Calls) /\ LaterFirst(Each(kind, types), X)
         /\ Asked(Each(kind, types)) = {Call(kind, types[i]) : i \in DOMAIN types}
<1> DEFINE c == Each(kind, types)
           n == Len(types)
<1>1. n \in Nat /\ DOMAIN types = 1 .. n OBVIOUS
<1>2. c = [i \in 1 .. n |-> Call(kind, types[i])] BY <1>1 DEF Each
<1>3. \A i \in 1 .. n : Call(kind, types[i]) \in Calls /\ Call(kind, types[i]).kind = kind
                        /\ Call(kind, types[i]).type = types[i]
  BY <1>1 DEF Call, Calls
<1> HIDE DEF n, c
<1>4. c \in Seq(Calls) BY <1>1, <1>2, <1>3
<1>5. Asked(c) = {Call(kind, types[i]) : i \in DOMAIN types} BY <1>1, <1>2 DEF Asked
<1>6. LaterFirst(c, X) BY <1>1, <1>2, <1>3 DEF LaterFirst
<1>q. QED BY <1>4, <1>5, <1>6 DEF c

\* A call that looks at no departures.
LEMMA OneCall ==
  ASSUME NEW c \in Calls, NEW X, c.kind # "past"
  PROVE  <<c>> \in Seq(Calls) /\ Asked(<<c>>) = {c} /\ LaterFirst(<<c>>, X)
<1>1. <<c>> \in Seq(Calls) /\ DOMAIN <<c>> = 1 .. 1 /\ <<c>>[1] = c OBVIOUS
<1>2. Asked(<<c>>) = {c} BY <1>1 DEF Asked
<1>3. LaterFirst(<<c>>, X) BY <1>1 DEF LaterFirst
<1>q. QED BY <1>1, <1>2, <1>3

\* The calls that look at no departures.
LEMMA OtherCallsFacts ==
  ASSUME NEW X, hints \in Hints
  PROVE  /\ OtherCalls \in Seq(Calls) /\ LaterFirst(OtherCalls, X)
         /\ Call("run", None) \in Asked(OtherCalls)
         /\ hints.scan => Call("scan", None) \in Asked(OtherCalls)
<1>1. /\ Call("run", None) \in Calls /\ Call("scan", None) \in Calls
      /\ Call("run", None).kind = "run" /\ Call("scan", None).kind = "scan"
  BY DEF Call, Calls
<1> DEFINE r == Call("run", None)
           s == Call("scan", None)
<1> HIDE DEF r, s
<1>2. r \in Calls /\ s \in Calls /\ r.kind # "past" /\ s.kind # "past" BY <1>1 DEF r, s
<1>3. CASE hints.scan
  <2>1. OtherCalls = <<s>> \o <<r>> BY <1>3 DEF OtherCalls, r, s
  <2>2. /\ <<s>> \in Seq(Calls) /\ Asked(<<s>>) = {s} /\ LaterFirst(<<s>>, X)
        /\ <<r>> \in Seq(Calls) /\ Asked(<<r>>) = {r} /\ LaterFirst(<<r>>, X \cup {s})
    BY <1>2, OneCall
  <2>3. <<s>> \o <<r>> \in Seq(Calls) /\ Asked(<<s>> \o <<r>>) = Asked(<<s>>) \cup Asked(<<r>>)
        /\ LaterFirst(<<s>> \o <<r>>, X)
    BY <2>2, JoinedCalls
  <2>q. QED BY <2>1, <2>2, <2>3 DEF r, s
<1>4. CASE ~hints.scan
  <2>1. OtherCalls = <<>> \o <<r>> BY <1>4 DEF OtherCalls, r
  <2>2. OtherCalls = <<r>> BY <1>2, <2>1
  <2>3. OtherCalls \in Seq(Calls) /\ DOMAIN OtherCalls = 1 .. 1 /\ OtherCalls[1] = r BY <1>2, <2>2
  <2>q. QED BY <1>2, <1>4, <2>3 DEF LaterFirst, Asked, r
<1>q. QED BY <1>3, <1>4

\* The departures of a stop: of all modes, unless a route was given.
LEMMA StopCallsFacts ==
  ASSUME NEW type \in TypeSet \cup {-1}, NEW routeGiven \in BOOLEAN
  PROVE  LET calls == StopCalls(type, routeGiven)
         IN  /\ calls \in Seq(Calls) /\ LaterFirst(calls, {})
             /\ ~routeGiven => \A t \in TypeSet : {Call("next", t), Call("past", t)} \subseteq Asked(calls)
<1> DEFINE others == At(RouteTypes, {i \in DOMAIN RouteTypes : RouteTypes[i] # type})
<1>1. RouteTypes \in Seq(TypeSet) /\ -1 \notin TypeSet /\ TypeSet = {RouteTypes[i] : i \in DOMAIN RouteTypes}
  BY TypesAssumption DEF TypeSet
<1>2. others \in Seq(TypeSet) /\ {others[i] : i \in DOMAIN others} = TypeSet \ {type}
  <2> DEFINE S == {i \in DOMAIN RouteTypes : RouteTypes[i] # type}
             n == Len(RouteTypes)
  <2>1. n \in Nat /\ DOMAIN RouteTypes = 1 .. n BY <1>1
  <2>2. S \in SUBSET (1 .. n) BY <2>1
  <2> DEFINE a == At(RouteTypes, S)
  <2>3. /\ Cardinality(S) \in Nat /\ DOMAIN a = 1 .. Cardinality(S)
        /\ \A k \in DOMAIN a : \E i \in S : a[k] = RouteTypes[i]
        /\ \A i \in S : \E k \in DOMAIN a : a[k] = RouteTypes[i]
    <3> HIDE DEF S, n
    <3>q. QED BY <2>1, <2>2, AtFacts
  <2>4. a = [k \in 1 .. Cardinality(S) |-> a[k]] BY <2>3 DEF At
  <2> HIDE DEF a
  <2>5. \A k \in DOMAIN a : a[k] \in TypeSet \ {type} BY <1>1, <2>1, <2>3
  <2>6. \A t \in TypeSet \ {type} : \E k \in DOMAIN a : a[k] = t BY ZenonT(60), <1>1, <2>1, <2>3
  <2> DEFINE c == Cardinality(S)
  <2>7. c \in Nat /\ DOMAIN a = 1 .. c /\ a = [k \in 1 .. c |-> a[k]] BY <2>3, <2>4
  <2> HIDE DEF c
  <2>8. a \in Seq(TypeSet) BY <2>5, <2>7
  <2>q. QED BY <2>5, <2>6, <2>8 DEF a
<1> HIDE DEF others
<1>3. CASE type = -1
  <2> DEFINE a == Each("next", RouteTypes)
             b == Each("past", RouteTypes)
  <2>1. StopCalls(type, routeGiven) = a \o b BY <1>3 DEF StopCalls
  <2>2. a \in Seq(Calls) /\ LaterFirst(a, {}) /\ Asked(a) = {Call("next", RouteTypes[i]) : i \in DOMAIN RouteTypes}
    BY <1>1, CallsOfTypes
  <2>3. b \in Seq(Calls) /\ LaterFirst(b, {} \cup Asked(a))
        /\ Asked(b) = {Call("past", RouteTypes[i]) : i \in DOMAIN RouteTypes}
    BY <1>1, <2>2, CallsOfTypes
  <2> HIDE DEF a, b
  <2>4. a \o b \in Seq(Calls) /\ Asked(a \o b) = Asked(a) \cup Asked(b) /\ LaterFirst(a \o b, {})
    BY <2>2, <2>3, JoinedCalls
  <2>q. QED BY <1>1, <2>1, <2>2, <2>3, <2>4
<1>4. CASE type # -1
  <2> DEFINE a == <<Call("next", type), Call("past", type)>>
             b == Each("next", others)
             c == Each("past", others)
             rest == IF routeGiven THEN <<>> ELSE b \o c
  <2>0. StopCalls(type, routeGiven) = a \o rest
    <3>1. StopCalls(type, routeGiven) =
            <<Call("next", type), Call("past", type)>>
              \o IF routeGiven THEN <<>> ELSE Each("next", others) \o Each("past", others)
      BY <1>4 DEF StopCalls, others
    <3>q. QED BY <3>1
  <2>1. a \in Seq(Calls) /\ LaterFirst(a, {}) /\ Asked(a) = {Call("next", type), Call("past", type)}
    <3> DEFINE x == Call("next", type)
               y == Call("past", type)
    <3>1. x \in Calls /\ y \in Calls /\ x.kind = "next" /\ y.kind = "past" /\ y.type = type BY <1>4 DEF Call, Calls
    <3>2. a = <<x, y>> OBVIOUS
    <3>3. Call("next", y.type) = x BY <3>1
    <3> HIDE DEF x, y, a
    <3>4. a \in Seq(Calls) /\ DOMAIN a = 1 .. 2 /\ a[1] = x /\ a[2] = y BY <3>1, <3>2
    <3>5. LaterFirst(a, {})
      <4>1. SUFFICES ASSUME NEW i \in 1 .. 2, a[i].kind = "past" PROVE \E j \in 1 .. i - 1 : a[j] = Call("next", a[i].type)
        BY <3>4 DEF LaterFirst
      <4>2. i = 2 BY <3>1, <3>4, <4>1
      <4>3. 1 \in 1 .. i - 1 /\ a[1] = Call("next", a[i].type) BY <3>3, <3>4, <4>2
      <4>q. QED BY <4>3
    <3>6. Asked(a) = {x, y} BY <3>4 DEF Asked
    <3>q. QED BY <3>4, <3>5, <3>6 DEF x, y
  <2>2. b \in Seq(Calls) /\ LaterFirst(b, {} \cup Asked(a)) /\ Asked(b) = {Call("next", others[i]) : i \in DOMAIN others}
    BY <1>2, CallsOfTypes
  <2>3. c \in Seq(Calls) /\ LaterFirst(c, ({} \cup Asked(a)) \cup Asked(b))
        /\ Asked(c) = {Call("past", others[i]) : i \in DOMAIN others}
    BY <1>2, <2>2, CallsOfTypes
  <2> HIDE DEF a, b, c
  <2>4. b \o c \in Seq(Calls) /\ Asked(b \o c) = Asked(b) \cup Asked(c) /\ LaterFirst(b \o c, {} \cup Asked(a))
    BY <2>2, <2>3, JoinedCalls
  <2>5. rest \in Seq(Calls) /\ LaterFirst(rest, {} \cup Asked(a)) /\ (~routeGiven => Asked(rest) = Asked(b) \cup Asked(c))
    <3>1. LaterFirst(<<>>, {} \cup Asked(a)) BY DEF LaterFirst
    <3>q. QED BY <2>4, <3>1
  <2> HIDE DEF rest
  <2>6. a \o rest \in Seq(Calls) /\ Asked(a \o rest) = Asked(a) \cup Asked(rest) /\ LaterFirst(a \o rest, {})
    BY <2>1, <2>5, JoinedCalls
  <2>7. ASSUME ~routeGiven, NEW t \in TypeSet PROVE {Call("next", t), Call("past", t)} \subseteq Asked(a \o rest)
    <3>1. CASE t = type BY <2>1, <2>6, <3>1
    <3>2. CASE t # type
      <4>1. PICK i \in DOMAIN others : others[i] = t BY <1>2, <3>2
      <4>2. Call("next", t) \in Asked(b) /\ Call("past", t) \in Asked(c) BY <2>2, <2>3, <4>1
      <4>q. QED BY <2>5, <2>6, <2>7, <4>2
    <3>q. QED BY <3>1, <3>2
  <2>q. QED BY <2>0, <2>6, <2>7
<1>q. QED BY <1>3, <1>4

(***************************************************************************)
(* The steps of a lookup.                                                  *)
(***************************************************************************)
\* The invariant holds when the command begins.
LEMMA LookupBegins ==
  ASSUME VehicleInit
  PROVE  LookupInv
<1>1. todo \in Seq(Calls) /\ read \in Seq([type : FeedTypeSet, message : Positions]) /\ sources \in Seq(FeedTypeSet)
  BY DEF VehicleInit
<1>2. Typed BY <1>1 DEF VehicleInit, Typed
<1>q. QED BY <1>2 DEF VehicleInit, LookupInv, Looking, Looked, FeedsRead, BestObservation

\* The calls that resolving the options leaves to be made.
LEMMA ResolveKeeps ==
  ASSUME LookupInv, Resolve
  PROVE  LookupInv'
<1>0. Typed /\ step = "start" BY DEF LookupInv, Resolve
<1>1. UNCHANGED <<hints, missed, found, sources, read, notices>> BY DEF Resolve
<1>2. step' \in {"lookup", "failed"} BY DEF Resolve
<1>3. todo' \in Seq(Calls) /\ (step' = "lookup" => Required \subseteq Asked(todo') /\ LaterFirst(todo', {}))
  <2>0. /\ hints \in Hints /\ OtherCalls \in Seq(Calls)
        /\ \A X : LaterFirst(OtherCalls, X)
        /\ Call("run", None) \in Asked(OtherCalls) /\ (hints.scan => Call("scan", None) \in Asked(OtherCalls))
    BY <1>0, OtherCallsFacts DEF Typed
  <2>1. CASE hints.stop = "none" /\ step' = "lookup" /\ todo' = OtherCalls
    BY <2>0, <2>1 DEF Required
  <2>2. ASSUME NEW stopType \in {-1} \cup TypeSet, NEW routeType \in TypeSet,
               todo' = StopCalls(IF hints.route = "name" THEN routeType ELSE stopType, hints.route # "none") \o OtherCalls
        PROVE  todo' \in Seq(Calls) /\ Required \subseteq Asked(todo') /\ LaterFirst(todo', {})
    <3> DEFINE type == IF hints.route = "name" THEN routeType ELSE stopType
               given == hints.route # "none"
               calls == StopCalls(type, given)
    <3>1. type \in TypeSet \cup {-1} /\ given \in BOOLEAN OBVIOUS
    <3>2. todo' = calls \o OtherCalls BY <2>2
    <3>3. ~given <=> hints.route = "none" OBVIOUS
    <3> HIDE DEF type, given
    <3>4. /\ calls \in Seq(Calls) /\ LaterFirst(calls, {})
          /\ ~given => \A t \in TypeSet : {Call("next", t), Call("past", t)} \subseteq Asked(calls)
      BY <3>1, StopCallsFacts
    <3> HIDE DEF calls
    <3>5. /\ calls \o OtherCalls \in Seq(Calls) /\ Asked(calls \o OtherCalls) = Asked(calls) \cup Asked(OtherCalls)
          /\ LaterFirst(calls \o OtherCalls, {})
      BY <2>0, <3>4, JoinedCalls
    <3>q. QED BY <2>0, <3>2, <3>3, <3>4, <3>5 DEF Required
  <2>3. CASE step' = "failed" /\ UNCHANGED todo BY <1>0, <2>3 DEF Typed
  <2>4. \/ hints.stop = "none" /\ step' = "lookup" /\ todo' = OtherCalls
        \/ \E stopType \in {-1} \cup TypeSet, routeType \in TypeSet :
             todo' = StopCalls(IF hints.route = "name" THEN routeType ELSE stopType, hints.route # "none") \o OtherCalls
        \/ step' = "failed" /\ UNCHANGED todo
    BY DEF Resolve
  <2>q. QED BY <2>1, <2>2, <2>3, <2>4
<1>4. Typed' BY <1>0, <1>1, <1>2, <1>3 DEF Typed
<1>5. Looking' 
  <2>1. SUFFICES ASSUME step' = "lookup" PROVE Required \subseteq missed \cup Asked(todo') /\ LaterFirst(todo', missed)
    BY <1>1 DEF Looking, Required
  <2>q. QED BY <1>3, <2>1 DEF LaterFirst
<1>q. QED BY <1>2, <1>4, <1>5 DEF LookupInv, Looked, FeedsRead, BestObservation

\* A call that found the vehicle.
LEMMA FindingKeeps ==
  ASSUME LookupInv, LookupFinds
  PROVE  LookupInv'
<1>0. Typed /\ Looking /\ step = "lookup" /\ todo # <<>> /\ step' = "enrich" BY DEF LookupInv, LookupFinds
<1>1. UNCHANGED <<hints, todo, missed, sources, read, notices>> BY DEF LookupFinds
<1>2. PICK type \in ModesOf(Head(todo)), label \in LabelsOf(Head(todo)) : found' = ResultOf(Head(todo), type, label)
  BY DEF LookupFinds
<1>3. todo \in Seq(Calls) /\ 1 \in DOMAIN todo /\ Head(todo) = todo[1] /\ todo[1] \in Calls BY <1>0 DEF Typed
<1>4. /\ type \in TypeSet /\ label \in Descriptors
      /\ Head(todo).kind \in {"next", "past", "scan", "run"}
      /\ Head(todo).kind = "past" => type = Head(todo).type
  <2>q. QED BY <1>2, <1>3 DEF ModesOf, LabelsOf, Calls
<1>5. None \notin TypeSet /\ None \notin Int /\ Call("next", None) \in {Call("next", t) : t \in {None}}
  BY TypesAssumption DEF TypeSet
<1> DEFINE kind == Head(todo).kind
<1>6. found' = [by |-> kind, type |-> type, label |-> label, realtime |-> None] BY <1>2 DEF ResultOf
<1> HIDE DEF kind
<1>7. kind \in {"next", "past", "scan", "run"} BY <1>4 DEF kind
<1>8. /\ found'.by = kind /\ found'.type = type /\ found'.label = label /\ found'.realtime = None
      /\ found' \in [by : {"none", "next", "past", "scan", "run", "public_label"},
                     type : TypeSet \cup FeedTypeSet \cup {None}, label : Descriptors \cup {{Queried}},
                     realtime : Sightings \cup {None}]
  BY <1>4, <1>6, <1>7
<1>9. Typed' BY <1>0, <1>1, <1>4, <1>5, <1>7, <1>8 DEF Typed
<1>10. Looked'
  <2>1. kind = "past" => Call("next", type) \in missed
    <3>1. SUFFICES ASSUME kind = "past" PROVE Call("next", todo[1].type) \in missed
      BY <1>3, <1>4 DEF kind
    <3>2. LaterFirst(todo, missed) BY <1>0 DEF Looking
    <3>3. \/ Call("next", todo[1].type) \in missed
          \/ \E j \in 1 .. 1 - 1 : todo[j] = Call("next", todo[1].type)
      BY <1>3, <3>1, <3>2 DEF LaterFirst, kind
    <3>q. QED BY <3>3
  <2>q. QED BY <1>0, <1>1, <1>7, <1>8, <2>1 DEF Looked
<1>q. QED BY <1>0, <1>9, <1>10 DEF LookupInv, Looking, FeedsRead, BestObservation

\* A call that found nothing is put down as such.
LEMMA MissingKeeps ==
  ASSUME LookupInv, LookupMisses
  PROVE  LookupInv'
<1>0. Typed /\ Looking /\ step = "lookup" /\ todo # <<>> /\ todo' = Tail(todo) /\ missed' = missed \cup {Head(todo)}
      /\ UNCHANGED <<hints, step, found, sources, read, notices>>
  BY DEF LookupInv, LookupMisses
<1> DEFINE n == Len(todo)
<1>1. /\ todo \in Seq(Calls) /\ n \in Nat \ {0} /\ DOMAIN todo = 1 .. n /\ Head(todo) = todo[1]
      /\ Tail(todo) \in Seq(Calls) /\ DOMAIN Tail(todo) = 1 .. n - 1
      /\ \A i \in 1 .. n - 1 : Tail(todo)[i] = todo[i + 1]
  BY <1>0 DEF Typed
<1> HIDE DEF n
<1>2. Asked(todo) = {Head(todo)} \cup Asked(todo')
  <2>1. ASSUME NEW i \in 1 .. n PROVE todo[i] \in {Head(todo)} \cup Asked(Tail(todo))
    <3>1. CASE i = 1 BY <1>1, <3>1
    <3>2. CASE i # 1
      <4>1. i - 1 \in 1 .. n - 1 /\ (i - 1) + 1 = i BY <1>1, <3>2
      <4>q. QED BY ZenonT(60), <1>1, <4>1 DEF Asked
    <3>q. QED BY <3>1, <3>2
  <2>2. ASSUME NEW i \in 1 .. n - 1 PROVE Tail(todo)[i] \in Asked(todo)
    <3>1. i + 1 \in 1 .. n BY <1>1
    <3>q. QED BY <1>1, <3>1 DEF Asked
  <2>3. 1 \in 1 .. n BY <1>1
  <2>q. QED BY <1>0, <1>1, <2>1, <2>2, <2>3 DEF Asked
<1>3. LaterFirst(todo', missed')
  <2> DEFINE c == Tail(todo)
             X == missed \cup {Head(todo)}
  <2>0. DOMAIN c = 1 .. n - 1 /\ \A i \in 1 .. n - 1 : c[i] = todo[i + 1] BY <1>1
  <2>a. todo' = c /\ missed' = X BY <1>0
  <2> HIDE DEF c, X
  <2>1. SUFFICES ASSUME NEW i \in 1 .. n - 1, c[i].kind = "past", Call("next", c[i].type) \notin X
                 PROVE  \E j \in 1 .. i - 1 : c[j] = Call("next", c[i].type)
    BY <2>0, <2>a DEF LaterFirst
  <2>2. i + 1 \in 1 .. n BY <1>1
  <2>3. PICK j \in 1 .. (i + 1) - 1 : todo[j] = Call("next", todo[i + 1].type)
    BY <1>0, <1>1, <2>0, <2>1, <2>2 DEF Looking, LaterFirst, X
  <2>4. j # 1 BY <1>1, <2>0, <2>1, <2>3 DEF X
  <2>5. j - 1 \in 1 .. i - 1 /\ j - 1 \in 1 .. n - 1 /\ (j - 1) + 1 = j BY <1>1, <2>3, <2>4
  <2>q. QED BY <1>1, <2>0, <2>3, <2>5
<1>4. Looking' BY <1>0, <1>2, <1>3 DEF Looking, Required
<1>5. Typed' BY <1>0, <1>1 DEF Typed
<1>q. QED BY <1>0, <1>4, <1>5 DEF LookupInv, Looked, FeedsRead, BestObservation

\* A command that fails says nothing.
LEMMA FailingKeeps ==
  ASSUME LookupInv, LookupFails \/ Interrupt
  PROVE  LookupInv'
<1>1. Typed /\ step' = "failed" /\ UNCHANGED <<hints, todo, missed, found, sources, read, notices>>
  BY DEF LookupInv, LookupFails, Interrupt
<1>2. Typed' BY <1>1 DEF Typed
<1>q. QED BY <1>1, <1>2 DEF LookupInv, Looking, Looked, FeedsRead, BestObservation

\* Every call was made, and found nothing.
LEMMA NothingKeeps ==
  ASSUME LookupInv, LookupNothing
  PROVE  LookupInv'
<1>1. Typed /\ Looking /\ step = "lookup" /\ todo = <<>> /\ found' = NoResult /\ step' = "enrich"
      /\ UNCHANGED <<hints, todo, missed, sources, read, notices>>
  BY DEF LookupInv, LookupNothing
<1>2. Asked(todo) = {} BY <1>1 DEF Asked
<1>3. Required \subseteq missed BY <1>1, <1>2 DEF Looking
<1>4. Typed' /\ found'.by = "none" BY <1>1 DEF Typed, NoResult
<1>5. Looked' BY <1>1, <1>3, <1>4 DEF Looked, Required
<1>q. QED BY <1>1, <1>4, <1>5 DEF LookupInv, Looking, FeedsRead, BestObservation

\* What is written, when what no feed shows is qualified or every feed was read.
LEMMA WritingKeeps ==
  ASSUME LookupInv, step \in {"enrich", "feeds"}, NEW notice, Write(notice),
         found.by = "none" /\ notices' = {} => step = "feeds" /\ sources = <<>>
  PROVE  LookupInv'
<1>1. /\ Typed /\ Looked /\ FeedsRead /\ step' = "printed" /\ notices' = notices \cup notice
      /\ UNCHANGED <<hints, todo, missed, found, sources, read>>
  BY DEF LookupInv, Write
<1>2. Typed' BY <1>1 DEF Typed
<1>3. Looked' BY <1>1 DEF Looked, Required
<1>4. FeedsRead'
  <2>1. found.by = "none" => \A i \in DOMAIN read : Candidates(read[i].message) = {}
    <3>1. CASE step = "enrich"
      <4>1. read = <<>> BY <1>1, <3>1 DEF Typed
      <4>q. QED BY <4>1
    <3>2. CASE step = "feeds" BY <1>1, <3>2 DEF FeedsRead
    <3>q. QED BY <3>1, <3>2
  <2>2. ASSUME found.by = "none", notices' = {}
        PROVE  FeedTypeSet = {read[i].type : i \in DOMAIN read}
    <3>1. step = "feeds" /\ sources = <<>> /\ notices = {} BY <1>1, <2>2
    <3>2. {sources[i] : i \in DOMAIN sources} = {} BY <3>1
    <3>q. QED BY <1>1, <2>2, <3>1, <3>2 DEF FeedsRead
  <2>q. QED BY <1>1, <2>1, <2>2 DEF FeedsRead, Candidates
<1>5. BestObservation'
  <2>1. found.realtime = None BY <1>1 DEF Typed
  <2>q. QED BY <1>1, <2>1 DEF BestObservation
<1>q. QED BY <1>1, <1>2, <1>3, <1>4, <1>5 DEF LookupInv, Looking

\* The feeds that may show the vehicle are chosen, or nothing more can be said.
LEMMA BeginningKeeps ==
  ASSUME LookupInv, BeginEnrichment
  PROVE  LookupInv'
<1>0. Typed /\ Looked /\ step = "enrich" BY DEF LookupInv, BeginEnrichment
<1>1. CASE Write(IF Mentioned THEN {"skipped"} ELSE {})
  <2>1. CASE Mentioned
    <3>1. Write({"skipped"}) BY <1>1, <2>1
    <3>2. notices' # {} BY <3>1 DEF Write
    <3>q. QED BY <1>0, <3>1, <3>2, WritingKeeps
  <2>2. CASE ~Mentioned
    <3>1. found.by # "none" BY <2>2 DEF Mentioned
    <3>2. Write({}) BY <1>1, <2>2
    <3>q. QED BY <1>0, <3>1, <3>2, WritingKeeps
  <2>q. QED BY <2>1, <2>2
<1>2. CASE ~Enrichable /\ Write({})
  <2>1. found.by = "none" => found.label = {} BY <1>2 DEF Enrichable
  <2>2. found.by = "none" => found.label = {Queried} BY <1>0 DEF Typed, NoResult
  <2>3. found.by # "none" BY <2>1, <2>2
  <2>q. QED BY <1>0, <1>2, <2>3, WritingKeeps
<1>3. CASE /\ Enrichable
           /\ sources' = VehicleRealtimeSources /\ step' = "feeds"
           /\ UNCHANGED <<hints, todo, missed, found, read, notices>>
  <2>1. FeedTypes \in Seq(FeedTypeSet) BY TypesAssumption DEF FeedTypeSet
  <2>2. /\ sources' \in Seq(FeedTypeSet)
        /\ found.type = None => FeedTypeSet = {sources'[i] : i \in DOMAIN sources'}
        /\ found.type # None => \A i \in DOMAIN sources' : sources'[i] = found.type
    <3>1. CASE found.type = None
      <4>1. sources' = FeedTypes BY <1>3, <3>1 DEF VehicleRealtimeSources
      <4>q. QED BY <2>1, <3>1, <4>1 DEF FeedTypeSet
    <3>2. CASE found.type # None
      <4> DEFINE S == {i \in DOMAIN FeedTypes : FeedTypes[i] = found.type}
                 n == Len(FeedTypes)
                 a == At(FeedTypes, S)
                 c == Cardinality(S)
      <4>1. n \in Nat /\ DOMAIN FeedTypes = 1 .. n BY <2>1
      <4>2. S \in SUBSET (1 .. n) /\ \A i \in S : FeedTypes[i] = found.type /\ i \in 1 .. n BY <4>1
      <4>3. sources' = a BY <1>3, <3>2 DEF VehicleRealtimeSources
      <4>4. a = [k \in 1 .. c |-> a[k]] BY DEF At
      <4> HIDE DEF S, n
      <4>5. c \in Nat /\ DOMAIN a = 1 .. c /\ \A k \in DOMAIN a : \E i \in S : a[k] = FeedTypes[i]
        BY <4>1, <4>2, AtFacts
      <4> HIDE DEF a, c
      <4>6. \A k \in DOMAIN a : a[k] = found.type /\ a[k] \in FeedTypeSet
        BY <2>1, <4>1, <4>2, <4>5 DEF FeedTypeSet
      <4>7. a \in Seq(FeedTypeSet) BY <4>4, <4>5, <4>6
      <4>q. QED BY <3>2, <4>3, <4>6, <4>7
    <3>q. QED BY <3>1, <3>2
  <2>3. read = <<>> /\ notices = {} BY <1>0 DEF Typed
  <2>4. Typed' BY <1>0, <1>3, <2>2 DEF Typed, Enrichable
  <2>5. Looked' BY <1>0, <1>3 DEF Looked, Required
  <2>6. FeedsRead'
    <3>1. found.by = "none" => found.type = None BY <1>0 DEF Typed, NoResult
    <3>2. DOMAIN read = {} BY <2>3
    <3>q. QED BY <1>3, <2>2, <3>1, <3>2 DEF FeedsRead
  <2>q. QED BY <1>3, <2>4, <2>5, <2>6 DEF LookupInv, Looking, BestObservation
<1>q. QED BY <1>1, <1>2, <1>3 DEF BeginEnrichment

\* A feed that could not be read is noticed.
LEMMA FetchFailureKeeps ==
  ASSUME LookupInv, FetchFails
  PROVE  LookupInv'
<1>1. /\ Typed /\ Looked /\ FeedsRead /\ step = "feeds" /\ sources # <<>> /\ sources' = Tail(sources)
      /\ notices' # {} /\ UNCHANGED <<hints, step, todo, missed, found, read>>
  BY DEF LookupInv, FetchFails
<1> DEFINE n == Len(sources)
<1>2. /\ n \in Nat \ {0} /\ DOMAIN sources = 1 .. n /\ Tail(sources) \in Seq(FeedTypeSet)
      /\ DOMAIN Tail(sources) = 1 .. n - 1 /\ \A i \in 1 .. n - 1 : Tail(sources)[i] = sources[i + 1]
  BY <1>1 DEF Typed
<1> HIDE DEF n
<1>3. \A i \in DOMAIN sources' : i + 1 \in DOMAIN sources /\ sources'[i] = sources[i + 1] BY <1>1, <1>2
<1>4. Typed' BY <1>1, <1>2 DEF Typed
<1>5. Looked' BY <1>1 DEF Looked, Required
<1>6. FeedsRead' BY <1>1, <1>3 DEF FeedsRead, Candidates
<1>q. QED BY <1>1, <1>4, <1>5, <1>6 DEF LookupInv, Looking, BestObservation
\* A feed that was read shows the vehicle, or does not.
LEMMA FetchKeeps ==
  ASSUME LookupInv, FetchPositions
  PROVE  LookupInv'
<1>0. /\ Typed /\ Looked /\ FeedsRead /\ step = "feeds" /\ sources # <<>> /\ UNCHANGED <<hints, todo, missed>>
      /\ sources' = Tail(sources)
  BY DEF LookupInv, FetchPositions
<1>1. PICK m \in Positions :
        LET seen == FindVehicleByLabel(NormalizeSnapshot(m, Now), found.label)
        IN  /\ read' = Append(read, [type |-> Head(sources), message |-> m])
            /\ IF seen = None THEN UNCHANGED <<found, step, notices>>
               ELSE /\ found' = [found EXCEPT !.realtime = [seen EXCEPT !.state = ShownState(@)],
                                              !.by = IF @ = "none" THEN "public_label" ELSE @,
                                              !.type = IF @ = None THEN Head(sources) ELSE @]
                    /\ step' = "printed"
                    /\ notices' = IF found.by = "none" THEN {} ELSE notices
  BY DEF FetchPositions
<1> DEFINE seen == FindVehicleByLabel(NormalizeSnapshot(m, Now), found.label)
           shown == [seen EXCEPT !.state = ShownState(@)]
           f == Head(sources)
           row == [type |-> f, message |-> m]
           n == Len(sources)
           r == Len(read)
<1>2. /\ read' = Append(read, row)
      /\ seen = None => UNCHANGED <<found, step, notices>>
      /\ seen # None =>
           /\ found' = [found EXCEPT !.realtime = shown, !.by = IF @ = "none" THEN "public_label" ELSE @,
                                     !.type = IF @ = None THEN f ELSE @]
           /\ step' = "printed" /\ notices' = IF found.by = "none" THEN {} ELSE notices
  BY <1>1
<1>3. found.label # {} BY <1>0 DEF Typed
<1>4. /\ seen = None <=> LabelledAs(m, found.label) = {}
      /\ seen # None =>
           LET live == {v \in LabelledAs(m, found.label) : Fresh(v.stamp)}
           IN  /\ shown \in Sightings
               /\ [shown EXCEPT !.state = None] \in {[v EXCEPT !.state = None] : v \in LabelledAs(m, found.label)}
               /\ shown.state = "current" <=> Fresh(m.stamp) /\ Fresh(shown.stamp)
               /\ Fresh(m.stamp) /\ live # {} =>
                    shown.stamp \in {v.stamp : v \in live} /\ \A v \in live : v.stamp <= shown.stamp
  BY <1>3, BestVehicle, ShownIsBest
<1> HIDE DEF seen, shown, f
<1>5. /\ sources \in Seq(FeedTypeSet) /\ n \in Nat \ {0} /\ DOMAIN sources = 1 .. n /\ f = sources[1]
      /\ f \in FeedTypeSet /\ f # None
      /\ Tail(sources) \in Seq(FeedTypeSet) /\ DOMAIN Tail(sources) = 1 .. n - 1
      /\ \A i \in 1 .. n - 1 : Tail(sources)[i] = sources[i + 1]
  <2>1. FeedTypeSet \subseteq Nat /\ None \notin Int BY TypesAssumption DEF FeedTypeSet
  <2>2. sources \in Seq(FeedTypeSet) BY <1>0 DEF Typed
  <2>3. /\ n \in Nat \ {0} /\ DOMAIN sources = 1 .. n /\ f = sources[1]
        /\ Tail(sources) \in Seq(FeedTypeSet) /\ DOMAIN Tail(sources) = 1 .. n - 1
        /\ \A i \in 1 .. n - 1 : Tail(sources)[i] = sources[i + 1]
    BY <1>0, <2>2 DEF f
  <2>4. f \in FeedTypeSet BY <2>2, <2>3
  <2>q. QED BY <2>1, <2>2, <2>3, <2>4
<1>6. /\ row \in [type : FeedTypeSet, message : Positions] /\ row.type = f /\ row.message = m
      /\ read \in Seq([type : FeedTypeSet, message : Positions])
  BY <1>0, <1>5 DEF Typed
<1> HIDE DEF row
<1>7. /\ r \in Nat /\ DOMAIN read = 1 .. r /\ read' \in Seq([type : FeedTypeSet, message : Positions])
      /\ Len(read') = r + 1 /\ DOMAIN read' = 1 .. r + 1 /\ read'[r + 1] = row
      /\ \A i \in 1 .. r : read'[i] = read[i]
  BY <1>2, <1>6
<1> HIDE DEF n, r
<1>8. /\ \A i \in DOMAIN sources' : i + 1 \in DOMAIN sources /\ sources'[i] = sources[i + 1]
      /\ \A i \in DOMAIN sources : i # 1 => i - 1 \in DOMAIN sources' /\ sources'[i - 1] = sources[i]
  <2>1. ASSUME NEW i \in 1 .. n, i # 1 PROVE i - 1 \in 1 .. n - 1 /\ (i - 1) + 1 = i BY <1>5, <2>1
  <2>q. QED BY <1>0, <1>5, <2>1
<1>9. CASE seen = None
  <2>1. Typed' BY <1>0, <1>2, <1>5, <1>7, <1>9 DEF Typed
  <2>2. Looked' BY <1>0, <1>2, <1>9 DEF Looked, Required
  <2>3. FeedsRead'
    <3>1. ASSUME found.by = "none" PROVE \A i \in DOMAIN read' : LabelledAs(read'[i].message, found.label) = {}
      <4>1. \A i \in DOMAIN read : LabelledAs(read[i].message, found.label) = {}
        BY <1>0, <3>1 DEF FeedsRead, Candidates, LabelledAs
      <4>2. LabelledAs(m, found.label) = {} BY <1>4, <1>9
      <4>3. ASSUME NEW i \in 1 .. r + 1 PROVE LabelledAs(read'[i].message, found.label) = {}
        <5>1. CASE i = r + 1 BY <1>6, <1>7, <4>2, <5>1
        <5>2. CASE i # r + 1
          <6>1. i \in 1 .. r BY <1>7, <5>2
          <6>q. QED BY <1>7, <4>1, <6>1
        <5>q. QED BY <5>1, <5>2
      <4>q. QED BY <1>7, <4>3
    <3>2. ASSUME found.by = "none", notices = {}
          PROVE  FeedTypeSet = {read'[i].type : i \in DOMAIN read'} \cup {sources'[i] : i \in DOMAIN sources'}
      <4>1. FeedTypeSet = {read[i].type : i \in DOMAIN read} \cup {sources[i] : i \in DOMAIN sources}
        BY <1>0, <3>2 DEF FeedsRead
      <4>2. {read'[i].type : i \in DOMAIN read'} = {read[i].type : i \in DOMAIN read} \cup {f}
        BY <1>6, <1>7
      <4>3. {sources[i] : i \in DOMAIN sources} = {f} \cup {sources'[i] : i \in DOMAIN sources'}
        <5>1. 1 \in DOMAIN sources BY <1>5
        <5>2. \A i \in DOMAIN sources : i = 1 \/ sources[i] \in {sources'[j] : j \in DOMAIN sources'} BY <1>8
        <5>3. \A i \in DOMAIN sources' : sources'[i] \in {sources[j] : j \in DOMAIN sources} BY <1>8
        <5>q. QED BY <1>5, <5>1, <5>2, <5>3
      <4>q. QED BY <4>1, <4>2, <4>3
    <3>3. \A x : Candidates(x)' = LabelledAs(x, found.label)
      BY <1>2, <1>9 DEF Candidates, LabelledAs
    <3>4. ASSUME found.type # None PROVE \A i \in DOMAIN sources' : sources'[i] = found.type
      BY <1>0, <1>8, <3>4 DEF FeedsRead
    <3>q. QED BY <1>0, <1>2, <1>9, <3>1, <3>2, <3>4 DEF FeedsRead, Candidates, LabelledAs
  <2>q. QED BY <1>0, <1>2, <1>9, <2>1, <2>2, <2>3 DEF LookupInv, Looking, BestObservation
<1>10. CASE seen # None
  <2>1. found \in [by : {"none", "next", "past", "scan", "run", "public_label"},
                   type : TypeSet \cup FeedTypeSet \cup {None}, label : Descriptors \cup {{Queried}},
                   realtime : Sightings \cup {None}]
    BY <1>0 DEF Typed
  <2>2. /\ found'.realtime = shown /\ found'.label = found.label
        /\ found'.by = IF found.by = "none" THEN "public_label" ELSE found.by
        /\ found'.type = IF found.type = None THEN f ELSE found.type
        /\ found' \in [by : {"none", "next", "past", "scan", "run", "public_label"},
                       type : TypeSet \cup FeedTypeSet \cup {None}, label : Descriptors \cup {{Queried}},
                       realtime : Sightings \cup {None}]
    BY <1>2, <1>4, <1>5, <1>10, <2>1
  <2>3. found'.by # "none" /\ found'.type # None /\ step' = "printed" BY <1>2, <1>5, <1>10, <2>2
  <2>4. Typed' BY <1>0, <1>2, <1>5, <1>7, <2>2, <2>3 DEF Typed
  <2>5. Looked'
    <3>1. found'.by = "past" => found.by = "past" /\ found'.type = found.type BY <1>0, <2>2 DEF Typed
    <3>q. QED BY <1>0, <2>3, <3>1 DEF Looked
  <2>6. FeedsRead' BY <2>3 DEF FeedsRead
  <2>7. BestObservation'
    <3>1. read'[Len(read')].type = found'.type
      <4>1. found.type # None => f = found.type BY <1>0, <1>5 DEF FeedsRead
      <4>q. QED BY <1>6, <1>7, <2>2, <4>1
    <3>2. read'[Len(read')].message = m BY <1>6, <1>7
    <3>3. Candidates(m)' = LabelledAs(m, found.label) BY <2>2 DEF Candidates, LabelledAs, Vehicles
    <3> DEFINE live == {v \in LabelledAs(m, found.label) : Fresh(v.stamp)}
    <3>4. /\ [shown EXCEPT !.state = None] \in {[v EXCEPT !.state = None] : v \in LabelledAs(m, found.label)}
          /\ shown.state = "current" <=> Fresh(m.stamp) /\ Fresh(shown.stamp)
          /\ Fresh(m.stamp) /\ live # {} =>
               shown.stamp \in {v.stamp : v \in live} /\ \A v \in live : v.stamp <= shown.stamp
      BY <1>4, <1>10
    <3> HIDE DEF live
    <3>q. QED BY <2>2, <3>1, <3>2, <3>3, <3>4 DEF BestObservation, live
  <2>q. QED BY <2>3, <2>4, <2>5, <2>6, <2>7 DEF LookupInv, Looking
<1>q. QED BY <1>9, <1>10

\* The invariant, and what it is for.
THEOREM LookupInvIsInvariant == VehicleSpec => []LookupInv
<1>1. VehicleInit => LookupInv BY LookupBegins
<1>2. LookupInv /\ [VehicleNext]_vehicleVars => LookupInv'
  <2> SUFFICES ASSUME LookupInv, [VehicleNext]_vehicleVars PROVE LookupInv' OBVIOUS
  <2>1. CASE Resolve BY <2>1, ResolveKeeps
  <2>2. CASE LookupFinds BY <2>2, FindingKeeps
  <2>3. CASE LookupMisses BY <2>3, MissingKeeps
  <2>4. CASE LookupFails \/ Interrupt BY <2>4, FailingKeeps
  <2>5. CASE LookupNothing BY <2>5, NothingKeeps
  <2>6. CASE BeginEnrichment BY <2>6, BeginningKeeps
  <2>7. CASE FetchPositions BY <2>7, FetchKeeps
  <2>8. CASE FetchFails BY <2>8, FetchFailureKeeps
  <2>9. CASE BudgetEnds
    <3>1. step = "feeds" /\ Write({"stopped"}) /\ notices' # {} BY <2>9 DEF BudgetEnds, Write
    <3>q. QED BY <3>1, WritingKeeps
  <2>10. CASE FeedsExhausted
    <3>1. step = "feeds" /\ sources = <<>> /\ Write({}) BY <2>10 DEF FeedsExhausted
    <3>q. QED BY <3>1, WritingKeeps
  <2>11. CASE UNCHANGED vehicleVars
    <3>1. UNCHANGED <<hints, step, todo, missed, found, sources, read, notices>> BY <2>11 DEF vehicleVars
    <3>2. Typed' BY <3>1 DEF LookupInv, Typed
    <3>3. Looking' BY <3>1 DEF LookupInv, Looking, Required
    <3>4. Looked' BY <3>1 DEF LookupInv, Looked, Required
    <3>5. FeedsRead' BY <3>1 DEF LookupInv, FeedsRead, Candidates
    <3>6. BestObservation' BY <3>1 DEF LookupInv, BestObservation, Candidates
    <3>q. QED BY <3>2, <3>3, <3>4, <3>5, <3>6 DEF LookupInv
  <2>q. QED BY <2>1, <2>2, <2>3, <2>4, <2>5, <2>6, <2>7, <2>8, <2>9, <2>10, <2>11 DEF VehicleNext
<1>q. QED BY <1>1, <1>2, PTL DEF VehicleSpec

\* The position shown is the best the feeds have (cmd/vehicle.go,
\* enrichVehicleResult; gtfsrt/snapshot.go, FindVehicleByLabel).
THEOREM ShownVehicleIsBest == VehicleSpec => []BestObservation
<1>1. LookupInv => BestObservation BY DEF LookupInv
<1>q. QED BY <1>1, LookupInvIsInvariant, PTL

\* What is said not to be there was looked for everywhere (cmd/vehicle.go,
\* lookupVehicle and lookupVehicleAtStop).
THEOREM AbsenceIsAlwaysProven == VehicleSpec => []AbsenceIsProven
<1>1. LookupInv => AbsenceIsProven
  <2>1. SUFFICES ASSUME LookupInv, step = "printed" PROVE AbsenceIsProven
    BY DEF AbsenceIsProven
  <2>2. Typed /\ Looked /\ FeedsRead BY <2>1 DEF LookupInv
  <2>q. QED BY <2>1, <2>2 DEF AbsenceIsProven, Looked, FeedsRead, Required
<1>q. QED BY <1>1, LookupInvIsInvariant, PTL
=============================================================================
