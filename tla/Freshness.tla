----------------------------- MODULE Freshness -----------------------------
(***************************************************************************)
(* CheckFreshness (internal/gtfs/freshness.go) and the row it keeps in     *)
(* .freshness.sqlite (freshness_state.go).  Commands evaluate the same row *)
(* concurrently: each reads it when it starts, may ask the upstream server *)
(* with a HEAD request, classifies the local dataset, and writes the whole *)
(* row back.  The read and the write are separate transactions.            *)
(*                                                                         *)
(* Instants are kept as distances: `wait` is the time left until the next  *)
(* automatic attempt, whoever holds the row, and Tick brings every such    *)
(* deadline nearer.  The HEAD request has a time-out of thirty seconds and *)
(* the shortest backoff is five minutes, so no Tick falls inside one.      *)
(*                                                                         *)
(* The pair ETag, Last-Modified is one validator here, a version of the    *)
(* feed, or NoTag when there is nothing to compare; so is the validator of *)
(* a dataset that came from another source.                                *)
(***************************************************************************)
EXTENDS Integers

CONSTANTS Checkers,       \* commands that evaluate freshness
          MaxVersion,     \* bound: versions the upstream feed goes through
          MaxFailures,    \* bound: consecutive failures that are told apart
          Throttle,       \* successfulCheckThrottle, in ticks
          BackoffInitial, \* failedBackoffInitial
          BackoffMax,     \* failedBackoffMaximum
          NoTag           \* no validator

Versions == 1 .. MaxVersion
Tags == Versions \cup {NoTag}

ASSUME BoundsAssumption == MaxVersion \in Nat \ {0} /\ MaxFailures \in Nat \ {0}
ASSUME TimesAssumption == /\ BackoffInitial \in Nat \ {0}
                          /\ BackoffMax \in Nat /\ Throttle \in Nat
                          /\ BackoffInitial < BackoffMax /\ BackoffMax <= Throttle
ASSUME NoTagAssumption == NoTag \notin Nat

VARIABLES
  upstream, \* the version the server offers
  local,    \* the validator of the dataset current.json names
  row,      \* the persisted FreshnessCheckState
  pc,       \* where each command is in CheckFreshness
  my,       \* the state each command has loaded and will persist
  performed,\* checkPerformed of each command
  data,     \* the validator of the dataset each command has opened
  verdict,  \* what each command is about to report
  seenAge   \* ticks since a successful HEAD returned each version (history)

worldVars   == <<upstream, local>>
checkerVars == <<pc, my, performed, data, verdict>>
freshnessVars == <<worldVars, row, checkerVars, seenAge>>

Evidence == {"fine", "stale", "outside", "unknown"}
Verdicts == {"none", "current", "changed", "stale", "unknown"}

CheckStates == [remote : Tags, success : BOOLEAN, error : BOOLEAN,
                failures : 0 .. MaxFailures, wait : 0 .. Throttle]

\* The state of a source that was never checked.
NeverChecked == [remote |-> NoTag, success |-> FALSE, error |-> FALSE,
                 failures |-> 0, wait |-> 0]

FreshnessInit ==
  /\ upstream = 1
  /\ local = 1
  /\ row = NeverChecked
  /\ pc = [c \in Checkers |-> "idle"]
  /\ my = [c \in Checkers |-> NeverChecked]
  /\ performed = [c \in Checkers |-> FALSE]
  /\ data = [c \in Checkers |-> NoTag]
  /\ verdict = [c \in Checkers |-> "none"]
  /\ seenAge = [v \in Versions |-> Throttle]

(***************************************************************************)
(* The pure parts.                                                         *)
(***************************************************************************)

\* failedCheckBackoff: the initial wait, doubled for each failure after the
\* first, up to the maximum.
Backoff == [n \in 1 .. MaxFailures |->
              LET doubled == BackoffInitial * 2 ^ (n - 1)
              IN  IF doubled \in 1 .. BackoffMax THEN doubled ELSE BackoffMax]

\* compareFeedValidators.
Comparison(tag, remote) == IF NoTag \in {tag, remote} THEN "missing"
                           ELSE IF tag = remote THEN "equal" ELSE "different"

\* Validators count only after a successful check, and not after a failed one.
Comparable(s, tag) ==
  IF s.success /\ ~s.error THEN Comparison(tag, s.remote) ELSE "missing"

ByEvidence(ev, otherwise) == IF ev \in {"stale", "unknown"} THEN ev ELSE otherwise

\* classifyFreshness.
Classify(s, tag, ev) ==
  CASE ev = "outside" -> "stale"
    [] ev # "outside" /\ Comparable(s, tag) = "different" -> "changed"
    [] ev # "outside" /\ Comparable(s, tag) = "equal"     -> ByEvidence(ev, "current")
    [] ev # "outside" /\ Comparable(s, tag) = "missing"   -> ByEvidence(ev, "unknown")

(***************************************************************************)
(* One evaluation.  The clock is read and the row is loaded when it        *)
(* begins; a check that is not due is classified from that row.            *)
(***************************************************************************)

\* Mutated form: one success settles the matter.
DueOnce(forced, s) == forced \/ (s.wait = 0 /\ ~s.success)

Due(forced, s) == forced \/ s.wait = 0

Begin(c, forced, ev) ==
  LET due == Due(forced, row)
  IN  /\ pc[c] = "idle"
      /\ my' = [my EXCEPT ![c] = row]
      /\ data' = [data EXCEPT ![c] = local]
      /\ performed' = [performed EXCEPT ![c] = due]
      /\ pc' = [pc EXCEPT ![c] = IF due THEN "head" ELSE "persist"]
      /\ verdict' = [verdict EXCEPT ![c] =
                       IF due THEN "none" ELSE Classify(row, local, ev)]
      /\ UNCHANGED <<worldVars, row, seenAge>>

\* What the HEAD request leaves in the state, and its classification.
Learn(c, s, ev) ==
  /\ pc[c] = "head"
  /\ my' = [my EXCEPT ![c] = s]
  /\ verdict' = [verdict EXCEPT ![c] = Classify(s, data[c], ev)]
  /\ pc' = [pc EXCEPT ![c] = "persist"]
  /\ UNCHANGED <<worldVars, row, performed, data>>

Success(tag, failures) ==
  [remote |-> tag, success |-> TRUE, error |-> FALSE, failures |-> failures, wait |-> Throttle]

See(tag) == seenAge' = [v \in Versions |-> IF v = tag THEN 0 ELSE seenAge[v]]

\* Mutated form: a success leaves the failure count alone.
HeadSucceedsKeepsCount(c, tag, ev) == Learn(c, Success(tag, my[c].failures), ev) /\ See(tag)

\* The server answers 2xx, with its validator or without any.
HeadSucceeds(c, tag, ev) == Learn(c, Success(tag, 0), ev) /\ See(tag)

\* A transport error, a time-out, a cancelled command or an error status.  The
\* validator an error status may carry is stored but compared by nothing
\* before the next check replaces it, so none is kept here.
HeadFails(c, ev) ==
  LET failures == IF my[c].failures < MaxFailures THEN my[c].failures + 1 ELSE MaxFailures
  IN  /\ Learn(c, [my[c] EXCEPT !.remote = NoTag, !.error = TRUE, !.failures = failures,
                                !.wait = Backoff[failures]], ev)
      /\ UNCHANGED seenAge

Return(c) == /\ pc[c] # "idle"
             /\ pc' = [pc EXCEPT ![c] = "idle"]
             /\ my' = [my EXCEPT ![c] = NeverChecked]
             /\ performed' = [performed EXCEPT ![c] = FALSE]
             /\ data' = [data EXCEPT ![c] = NoTag]
             /\ verdict' = [verdict EXCEPT ![c] = "none"]
             /\ UNCHANGED <<worldVars, seenAge>>

\* Replace the whole row, after a skipped check too, and return the verdict.
PersistAs(c, s) == /\ pc[c] = "persist"
                   /\ row' = s
                   /\ Return(c)

\* Mutated form: the deadline is counted from the write.
PersistRenews(c) == PersistAs(c, [my[c] EXCEPT !.wait = IF my[c].error THEN @ ELSE Throttle])

Persist(c) == PersistAs(c, my[c])

\* The database refuses, or the command is killed: nothing is persisted.
GiveUp(c) == /\ Return(c)
             /\ UNCHANGED row

(***************************************************************************)
(* The world.                                                              *)
(***************************************************************************)
Less(n) == IF n > 0 THEN n - 1 ELSE 0

Tick ==
  /\ \A c \in Checkers : pc[c] # "head"
  /\ row' = [row EXCEPT !.wait = Less(@)]
  /\ my' = [c \in Checkers |-> [my[c] EXCEPT !.wait = Less(@)]]
  /\ seenAge' = [v \in Versions |-> IF seenAge[v] < Throttle THEN seenAge[v] + 1 ELSE Throttle]
  /\ UNCHANGED <<worldVars, pc, performed, data, verdict>>

UpstreamPublishes ==
  /\ upstream < MaxVersion
  /\ upstream' = upstream + 1
  /\ UNCHANGED <<local, row, checkerVars, seenAge>>

\* An update installs what the server offers, with or without a validator.
InstallLatest ==
  /\ local' \in {upstream, NoTag}
  /\ UNCHANGED <<upstream, row, checkerVars, seenAge>>

Checker(c) == \/ \E ev \in Evidence :
                   \/ \E forced \in BOOLEAN : Begin(c, forced, ev)
                   \/ \E tag \in {upstream, NoTag} : HeadSucceeds(c, tag, ev)
                   \/ HeadFails(c, ev)
              \/ Persist(c) \/ GiveUp(c)

FreshnessNext == \/ \E c \in Checkers : Checker(c)
                 \/ Tick \/ UpstreamPublishes \/ InstallLatest

FreshnessSpec == FreshnessInit /\ [][FreshnessNext]_freshnessVars

(***************************************************************************)
(* Properties.                                                             *)
(***************************************************************************)

\* Every variable has its type, and a state holds an error exactly while it
\* counts failures (the reset of CheckError and FailureCount goes together).
FreshnessTypeOK ==
  /\ upstream \in Versions /\ local \in Tags
  /\ row \in CheckStates
  /\ pc \in [Checkers -> {"idle", "head", "persist"}]
  /\ my \in [Checkers -> CheckStates]
  /\ performed \in [Checkers -> BOOLEAN]
  /\ data \in [Checkers -> Tags]
  /\ verdict \in [Checkers -> Verdicts]
  /\ seenAge \in [Versions -> 0 .. Throttle]
  /\ \A s \in {row} \cup {my[c] : c \in Checkers} : s.error <=> s.failures > 0

\* A state that would let a check be skipped is never younger than the HEAD
\* its validator came from: overwriting the row with an older copy, however
\* late, does not stretch the throttle window of what that copy observed.
Honest(s) == s.success /\ ~s.error /\ s.remote # NoTag
               => seenAge[s.remote] + s.wait <= Throttle

RowIsHonest == Honest(row) /\ \A c \in Checkers : Honest(my[c])

\* A command classifies its dataset as current only if the server returned
\* that very validator in a successful check less than Throttle ago, by this
\* command or another, whatever checks failed or overwrote each other since.
CurrentWasSeen ==
  [][\A c \in Checkers : verdict[c] # "current" /\ verdict'[c] = "current"
       => /\ data'[c] \in Versions
          /\ seenAge'[data'[c]] < Throttle]_freshnessVars
=============================================================================
