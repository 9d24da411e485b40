--------------------------- MODULE RealtimeFetch ---------------------------
(***************************************************************************)
(* Fetching GTFS Realtime feeds within one command: the invocation cache   *)
(* (internal/gtfsrt/cache.go), whose callers share one fetch per feed, and *)
(* the client behind it (internal/gtfsrt/client.go), which waits for a     *)
(* token of the feed's endpoint, sends one request and never repeats it.   *)
(*                                                                         *)
(* Callers are goroutines of the process, each with a context of its own   *)
(* that may be cancelled at any time.  That is what the package promises   *)
(* and its test relies on; the commands call it from one goroutine, for    *)
(* one feed after the other.  A bucket counts in ticks: a token is worth   *)
(* Refill of them.                                                         *)
(***************************************************************************)
EXTENDS RealtimeSnapshot

CONSTANTS Callers, Feeds,
          Messages,   \* what an endpoint may answer with
          Burst,      \* tokens of a full bucket
          Refill,     \* ticks a token takes to come back
          LastTick    \* bound: the last instant, unless a caller sleeps past it

ASSUME BucketAssumption == Burst \in Nat \ {0} /\ Refill \in Nat \ {0}

\* A snapshot as it is kept: the message and the instant it is judged at.
Kept == [message : Messages, at : Nat]

ASSUME NoneAssumption == None \notin Callers \cup Feeds /\ None \notin Kept

VARIABLES
  clock,
  hasKey,     \* does the client hold a KeyID?
  buckets,    \* the credit of each endpoint's bucket and when it was counted
  requests,   \* the instants at which each endpoint was called (history)
  snapshots,  \* the snapshots kept, None where there is none
  inFlight,   \* who fetches each feed for everybody, None if nobody does
  pc,         \* where each caller is
  asked,      \* the feed it asked for
  waitsFor,   \* the caller whose fetch it waits for, or None
  due,        \* when a caller that sleeps in the limiter wakes up
  result,     \* its outcome, None before it has one
  cancelled   \* callers whose context is cancelled

cacheVars == <<snapshots, inFlight>>
callVars == <<pc, asked, waitsFor, due, result>>
fetchVars == <<clock, hasKey, buckets, requests, cacheVars, callVars, cancelled>>

FetchInit ==
  /\ clock = 0 /\ hasKey \in BOOLEAN
  /\ buckets = [f \in Feeds |-> [credit |-> Burst * Refill, last |-> 0]]
  /\ requests = [f \in Feeds |-> <<>>]
  /\ snapshots = [f \in Feeds |-> None] /\ inFlight = [f \in Feeds |-> None]
  /\ pc = [c \in Callers |-> "idle"] /\ asked = [c \in Callers |-> None]
  /\ waitsFor = [c \in Callers |-> None] /\ due = [c \in Callers |-> 0]
  /\ result = [c \in Callers |-> None]
  /\ cancelled = {}

Failed(kind) == [kind |-> kind, snapshot |-> None]
Fetched(s) == [kind |-> "ok", snapshot |-> s]

(***************************************************************************)
(* The cache.                                                              *)
(***************************************************************************)
Return(c, r) == /\ pc' = [pc EXCEPT ![c] = "done"]
                /\ result' = [result EXCEPT ![c] = r]

\* Mutated form: a fetch under way is not looked for.
GetOrFetchAlone(c, f) ==
  /\ pc[c] = "idle"
  /\ asked' = [asked EXCEPT ![c] = f]
  /\ IF snapshots[f] # None
     THEN Return(c, Fetched(snapshots[f])) /\ UNCHANGED <<waitsFor, inFlight>>
     ELSE /\ inFlight' = [inFlight EXCEPT ![f] = c]
          /\ pc' = [pc EXCEPT ![c] = "limiter"] /\ UNCHANGED <<waitsFor, result>>
  /\ UNCHANGED <<clock, hasKey, buckets, requests, snapshots, due, cancelled>>

\* The first half of GetOrFetch, under the mutex.
GetOrFetch(c, f) ==
  /\ pc[c] = "idle"
  /\ asked' = [asked EXCEPT ![c] = f]
  /\ \/ /\ snapshots[f] # None
        /\ Return(c, Fetched(snapshots[f])) /\ UNCHANGED <<waitsFor, inFlight>>
     \/ /\ snapshots[f] = None /\ inFlight[f] # None
        /\ waitsFor' = [waitsFor EXCEPT ![c] = inFlight[f]]
        /\ pc' = [pc EXCEPT ![c] = "waiting"] /\ UNCHANGED <<result, inFlight>>
     \/ /\ snapshots[f] = None /\ inFlight[f] = None
        /\ inFlight' = [inFlight EXCEPT ![f] = c]
        /\ pc' = [pc EXCEPT ![c] = "limiter"] /\ UNCHANGED <<waitsFor, result>>
  /\ UNCHANGED <<clock, hasKey, buckets, requests, snapshots, due, cancelled>>

\* The fetch waited for is over, or the waiter's own context is: either may win.
StopWaiting(c) ==
  /\ pc[c] = "waiting"
  /\ \/ pc[waitsFor[c]] = "done" /\ Return(c, result[waitsFor[c]])
     \/ c \in cancelled /\ Return(c, Failed("canceled"))
  /\ UNCHANGED <<clock, hasKey, buckets, requests, cacheVars, asked, waitsFor, due, cancelled>>

\* Mutated form: a fetch that fails is not closed.
FinishForgets(c, r) ==
  /\ pc' = [pc EXCEPT ![c] = IF r.kind = "ok" THEN "done" ELSE "gone"]
  /\ result' = [result EXCEPT ![c] = r]
  /\ snapshots' = IF r.kind = "ok" THEN [snapshots EXCEPT ![asked[c]] = r.snapshot] ELSE snapshots
  /\ inFlight' = [inFlight EXCEPT ![asked[c]] = IF r.kind = "ok" THEN None ELSE @]
  /\ UNCHANGED <<clock, hasKey, asked, waitsFor, due, cancelled>>

\* The second half: only a snapshot is kept.
Finish(c, r) ==
  /\ Return(c, r)
  /\ snapshots' = IF r.kind = "ok" THEN [snapshots EXCEPT ![asked[c]] = r.snapshot] ELSE snapshots
  /\ inFlight' = [inFlight EXCEPT ![asked[c]] = None]
  /\ UNCHANGED <<clock, hasKey, asked, waitsFor, due, cancelled>>

(***************************************************************************)
(* The client: FetchSnapshot.                                              *)
(***************************************************************************)

\* Mutated form: a bucket may fill for as long as nobody takes from it.
CreditUncapped(f) == buckets[f].credit + (clock - buckets[f].last)

Credit(f) ==
  LET earned == buckets[f].credit + (clock - buckets[f].last)
  IN  IF earned > Burst * Refill THEN Burst * Refill ELSE earned

Count(f, credit) == buckets' = [buckets EXCEPT ![f] = [credit |-> credit, last |-> clock]]

\* A token is taken before the key is looked at.
TakeToken(c) ==
  LET f == asked[c]
  IN  /\ pc[c] = "limiter" /\ Credit(f) >= Refill
      /\ Count(f, Credit(f) - Refill)
      /\ \/ /\ hasKey
            /\ pc' = [pc EXCEPT ![c] = "calling"]
            /\ requests' = [requests EXCEPT ![f] = Append(@, clock)]
            /\ UNCHANGED <<clock, hasKey, cacheVars, asked, waitsFor, due, result, cancelled>>
         \/ /\ ~hasKey
            /\ Finish(c, Failed("authentication")) /\ UNCHANGED requests

SleepForToken(c) ==
  LET f == asked[c]
  IN  /\ pc[c] = "limiter" /\ Credit(f) < Refill
      /\ Count(f, Credit(f))
      /\ pc' = [pc EXCEPT ![c] = "sleeping"]
      /\ due' = [due EXCEPT ![c] = clock + Refill - Credit(f)]
      /\ UNCHANGED <<clock, hasKey, requests, cacheVars, asked, waitsFor, result, cancelled>>

WakeUp(c) ==
  /\ pc[c] = "sleeping"
  /\ \/ /\ clock >= due[c]
        /\ pc' = [pc EXCEPT ![c] = "limiter"]
        /\ UNCHANGED <<clock, hasKey, cacheVars, asked, waitsFor, due, result, cancelled>>
     \/ c \in cancelled /\ Finish(c, Failed("canceled"))
  /\ UNCHANGED <<buckets, requests>>

\* The answer: a snapshot (kept as the message and the instant it is normalized
\* from), an error of the transport, of the status or of the body, the end of
\* the request's own time, or that of its caller.
Answer(c) ==
  /\ pc[c] = "calling"
  /\ \/ \E m \in Messages : Finish(c, Fetched([message |-> m, at |-> clock]))
     \/ Finish(c, Failed("request"))
     \/ c \in cancelled /\ Finish(c, Failed("canceled"))
  /\ UNCHANGED <<buckets, requests>>

Cancel(c) ==
  /\ c \notin cancelled /\ pc[c] \notin {"idle", "done"}
  /\ cancelled' = cancelled \cup {c}
  /\ UNCHANGED <<clock, hasKey, buckets, requests, cacheVars, callVars>>

Tick == /\ clock < LastTick \/ \E c \in Callers : pc[c] = "sleeping" /\ clock < due[c]
        /\ clock' = clock + 1
        /\ UNCHANGED <<hasKey, buckets, requests, cacheVars, callVars, cancelled>>

Goroutine(c) == StopWaiting(c) \/ TakeToken(c) \/ SleepForToken(c) \/ WakeUp(c) \/ Answer(c)

FetchNext == \/ \E c \in Callers : \/ \E f \in Feeds : GetOrFetch(c, f)
                                   \/ Goroutine(c) \/ Cancel(c)
             \/ Tick

FetchSpec == FetchInit /\ [][FetchNext]_fetchVars

\* A goroutine that can go on does, and requestTimeout ends a request that
\* nobody answers.
FetchFairness == WF_fetchVars(Tick) /\ \A c \in Callers : WF_fetchVars(Goroutine(c))

(***************************************************************************)
(* Properties.                                                             *)
(***************************************************************************)
Busy(f) == {c \in Callers : asked[c] = f /\ pc[c] \in {"limiter", "sleeping", "calling"}}

\* Callers of a feed share one fetch: two are never at it at once, nobody is
\* once its snapshot is kept, and all who succeed hold that very snapshot.
SharedFetch ==
  \A f \in Feeds :
    /\ Cardinality(Busy(f)) <= 1
    /\ snapshots[f] # None => Busy(f) = {}
    /\ \A c \in Callers : asked[c] = f /\ pc[c] = "done" /\ result[c].kind = "ok"
                            => result[c].snapshot # None /\ result[c].snapshot = snapshots[f]

\* However long the endpoint was left alone before, no stretch of time holds
\* more calls than a full bucket and what flows into it meanwhile.
Throttled ==
  \A f \in Feeds : \A i, j \in DOMAIN requests[f] :
    i <= j => (j - i + 1) * Refill <= Burst * Refill + requests[f][j] - requests[f][i]

\* Nobody waits for ever: neither for a token, nor for an answer, nor for a
\* fetch that somebody else started and that failed.
EveryCallerReturns == \A c \in Callers : (pc[c] # "idle") ~> (result[c] # None)
=============================================================================
