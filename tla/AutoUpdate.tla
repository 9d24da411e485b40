---------------------------- MODULE AutoUpdate ----------------------------
(***************************************************************************)
(* What happens around an update: commands that load GTFS data evaluate    *)
(* freshness and may launch a background worker (CheckAndAutoUpdate,       *)
(* internal/gtfs/autoupdate.go), workers and `ptv gtfs update` take the    *)
(* update lease, download and publish (cmd/gtfs.go), and background        *)
(* workers leave their state in .update.progress.json.  The evaluation is  *)
(* module Freshness; the publication, here one step, is GtfsGenerations.   *)
(*                                                                         *)
(* A worker slot stands for one process at a time.  Faults (time-outs,     *)
(* failed system calls, killed processes) are bounded by MaxFaults.        *)
(***************************************************************************)
EXTENDS Freshness

CONSTANTS Workers,   \* processes that run `gtfs update`
          NoOne,     \* nobody
          MaxFaults  \* bound: faults in a behaviour

Holders == Checkers \cup Workers

ASSUME NoOneAssumption == NoOne \notin Holders
ASSUME FaultsAssumption == MaxFaults \in Nat
ASSUME ActorsAssumption == Checkers \cap Workers = {}

VARIABLES
  cmd,        \* where each command is once its check has returned
  lease,      \* who holds .update-lock.sqlite
  wpc,        \* where each worker is
  background, \* workers started with --background-worker
  got,        \* the version each worker has downloaded
  progress,   \* the state in .update.progress.json
  lapsed,     \* versions whose service coverage has ended
  faults      \* faults so far

workerVars == <<wpc, background, got, progress>>
autoVars == <<cmd, lease, workerVars, lapsed, faults>>
vars == <<freshnessVars, autoVars>>

Init == /\ FreshnessInit
        /\ cmd = [c \in Checkers |-> "idle"]
        /\ lease = NoOne
        /\ wpc = [w \in Workers |-> "idle"]
        /\ background = [w \in Workers |-> FALSE]
        /\ got = [w \in Workers |-> NoTag]
        /\ progress = "none"
        /\ lapsed = {}
        /\ faults = 0

Fault == faults < MaxFaults /\ faults' = faults + 1
NoFault == UNCHANGED faults

(***************************************************************************)
(* A command: open the current dataset, check, and perhaps launch.         *)
(***************************************************************************)
EvidenceOf(tag) == IF tag \in lapsed THEN "outside" ELSE "fine"

\* resolveSources; the requested instant is now.
RunCommand(c) ==
  /\ cmd[c] = "idle"
  /\ Begin(c, FALSE, EvidenceOf(local))
  /\ UNCHANGED autoVars

HeadAnswered(c) ==
  /\ HeadSucceeds(c, upstream, EvidenceOf(data[c]))
  /\ UNCHANGED autoVars

HeadTimesOut(c) ==
  /\ HeadFails(c, EvidenceOf(data[c]))
  /\ Fault
  /\ UNCHANGED <<cmd, lease, workerVars, lapsed>>

UpdateAvailable(v) == v = "changed"

\* The condition of CheckAndAutoUpdate for launching a worker.
Triggers(v) == v = "changed" \/ (v = "stale" /\ UpdateAvailable(v))

CheckReturns(c) ==
  /\ Persist(c)
  /\ cmd' = [cmd EXCEPT ![c] = IF Triggers(verdict[c]) THEN "claim" ELSE "idle"]
  /\ UNCHANGED <<lease, workerVars, lapsed, faults>>

CheckGivesUp(c) ==
  /\ GiveUp(c)
  /\ Fault
  /\ UNCHANGED <<cmd, lease, workerVars, lapsed>>

\* A taken lease means an update is in progress: the command says so and ends.
ClaimUpdate(c) ==
  /\ cmd[c] = "claim"
  /\ \/ lease = NoOne /\ lease' = c /\ cmd' = [cmd EXCEPT ![c] = "launch"]
     \/ lease # NoOne /\ cmd' = [cmd EXCEPT ![c] = "idle"] /\ UNCHANGED lease
  /\ UNCHANGED <<freshnessVars, workerVars, lapsed, faults>>

\* startUpdateWorker: the child runs from here on, the claim is still held.
LaunchWorker(c) ==
  /\ cmd[c] = "launch"
  /\ \/ /\ \E w \in Workers :
             /\ wpc[w] = "idle"
             /\ wpc' = [wpc EXCEPT ![w] = "started"]
             /\ background' = [background EXCEPT ![w] = TRUE]
        /\ NoFault
     \/ Fault /\ UNCHANGED <<wpc, background>>
  /\ cmd' = [cmd EXCEPT ![c] = "unclaim"]
  /\ UNCHANGED <<freshnessVars, lease, got, progress, lapsed>>

ReleaseClaim(c) ==
  /\ cmd[c] = "unclaim"
  /\ lease' = NoOne
  /\ cmd' = [cmd EXCEPT ![c] = "idle"]
  /\ UNCHANGED <<freshnessVars, workerVars, lapsed, faults>>

KillCommand(c) ==
  /\ cmd[c] # "idle"
  /\ cmd' = [cmd EXCEPT ![c] = "idle"]
  /\ lease' = IF lease = c THEN NoOne ELSE lease
  /\ Fault
  /\ UNCHANGED <<freshnessVars, workerVars, lapsed>>

(***************************************************************************)
(* gtfs update, by hand or as a background worker.                         *)
(***************************************************************************)
StartByHand(w) ==
  /\ wpc[w] = "idle"
  /\ wpc' = [wpc EXCEPT ![w] = "acquire"]
  /\ background' = [background EXCEPT ![w] = FALSE]
  /\ UNCHANGED <<freshnessVars, cmd, lease, got, progress, lapsed, faults>>

\* A background worker says "downloading" before it tries for the lease.
WriteStarted(w) ==
  /\ wpc[w] = "started"
  /\ progress' = "downloading"
  /\ wpc' = [wpc EXCEPT ![w] = "acquire"]
  /\ UNCHANGED <<freshnessVars, cmd, lease, background, got, lapsed, faults>>

\* Where a worker goes that returns an error: the deferred progress write is
\* the last thing a background worker does.
AfterError(w) == IF background[w] THEN "recordFailed" ELSE "idle"

\* Mutated form: take the lease whoever holds it.
AcquireAnyway(w) ==
  /\ wpc[w] = "acquire"
  /\ lease' = w
  /\ wpc' = [wpc EXCEPT ![w] = "download"]
  /\ UNCHANGED <<freshnessVars, cmd, background, got, progress, lapsed, faults>>

AcquireUpdate(w) ==
  /\ wpc[w] = "acquire"
  /\ \/ lease = NoOne /\ lease' = w /\ wpc' = [wpc EXCEPT ![w] = "download"]
     \/ lease # NoOne /\ wpc' = [wpc EXCEPT ![w] = AfterError(w)] /\ UNCHANGED lease
  /\ UNCHANGED <<freshnessVars, cmd, background, got, progress, lapsed, faults>>

Download(w) ==
  /\ wpc[w] = "download"
  /\ \/ got' = [got EXCEPT ![w] = upstream] /\ wpc' = [wpc EXCEPT ![w] = "publish"] /\ NoFault
     \/ wpc' = [wpc EXCEPT ![w] = "releaseFailed"] /\ Fault /\ UNCHANGED got
  /\ UNCHANGED <<freshnessVars, cmd, lease, background, progress, lapsed>>

\* Mutated form: record success without having moved the pointer.
PublishForgets(w) ==
  /\ wpc[w] = "publish"
  /\ wpc' = [wpc EXCEPT ![w] = IF background[w] THEN "recordDone" ELSE "release"]
  /\ UNCHANGED <<freshnessVars, cmd, lease, background, got, progress, lapsed, faults>>

Publish(w) ==
  /\ wpc[w] = "publish"
  /\ \/ /\ local' = got[w]
        /\ wpc' = [wpc EXCEPT ![w] = IF background[w] THEN "recordDone" ELSE "release"]
        /\ NoFault
     \/ wpc' = [wpc EXCEPT ![w] = "releaseFailed"] /\ Fault /\ UNCHANGED local
  /\ UNCHANGED <<upstream, row, checkerVars, seenAge, cmd, lease, background, got, progress, lapsed>>

WriteCompleted(w) ==
  /\ wpc[w] = "recordDone"
  /\ progress' = "completed"
  /\ wpc' = [wpc EXCEPT ![w] = "release"]
  /\ UNCHANGED <<freshnessVars, cmd, lease, background, got, lapsed, faults>>

ReleaseLease(w) ==
  /\ wpc[w] \in {"release", "releaseFailed"}
  /\ lease' = NoOne
  /\ got' = [got EXCEPT ![w] = NoTag]
  /\ wpc' = [wpc EXCEPT ![w] = IF wpc[w] = "releaseFailed" THEN AfterError(w) ELSE "idle"]
  /\ UNCHANGED <<freshnessVars, cmd, background, progress, lapsed, faults>>

WriteFailed(w) ==
  /\ wpc[w] = "recordFailed"
  /\ progress' = "failed"
  /\ wpc' = [wpc EXCEPT ![w] = "idle"]
  /\ UNCHANGED <<freshnessVars, cmd, lease, background, got, lapsed, faults>>

KillWorker(w) ==
  /\ wpc[w] # "idle"
  /\ wpc' = [wpc EXCEPT ![w] = "idle"]
  /\ lease' = IF lease = w THEN NoOne ELSE lease
  /\ got' = [got EXCEPT ![w] = NoTag]
  /\ Fault
  /\ UNCHANGED <<freshnessVars, cmd, background, progress, lapsed>>

(***************************************************************************)
(* The world: time, the server, and service coverage that ends once the    *)
(* server has something newer.                                             *)
(***************************************************************************)
Time == Tick /\ UNCHANGED autoVars

NewFeed == UpstreamPublishes /\ UNCHANGED autoVars

CoverageEnds ==
  /\ local < upstream
  /\ lapsed' = lapsed \cup {local}
  /\ UNCHANGED <<freshnessVars, cmd, lease, workerVars, faults>>

Command(c) == \/ RunCommand(c) \/ HeadAnswered(c) \/ CheckReturns(c)
              \/ ClaimUpdate(c) \/ LaunchWorker(c) \/ ReleaseClaim(c)

Worker(w) == \/ WriteStarted(w) \/ AcquireUpdate(w) \/ Download(w) \/ Publish(w)
             \/ WriteCompleted(w) \/ ReleaseLease(w) \/ WriteFailed(w)

Next == \/ \E c \in Checkers : \/ Command(c)
                               \/ HeadTimesOut(c) \/ CheckGivesUp(c) \/ KillCommand(c)
        \/ \E w \in Workers : Worker(w) \/ StartByHand(w) \/ KillWorker(w)
        \/ Time \/ NewFeed \/ CoverageEnds

Spec == Init /\ [][Next]_vars

\* A launched worker meets its launcher's claim only if it reaches the lease
\* before the launcher, one statement away from the release, lets go.  It may,
\* now and then; but not for ever, every time a worker tries.
LaunchersLetGo == \A w \in Workers :
  []<><<AcquireUpdate(w)>>_vars => []<><<lease = NoOne /\ AcquireUpdate(w)>>_vars

\* Processes run, time passes, the user keeps running commands, a command can
\* always start a process (only the slots here are few), faults are finite.
FairSpec == /\ Spec
            /\ WF_vars(Time)
            /\ \A c \in Checkers : WF_vars(Command(c)) /\ SF_vars(LaunchWorker(c))
            /\ \A w \in Workers : WF_vars(Worker(w))
            /\ LaunchersLetGo

(***************************************************************************)
(* Properties.                                                             *)
(***************************************************************************)

\* Every variable has its type, and the lease is held exactly by a command
\* between its claim and its release, or by a worker between the two.
TypeOK ==
  /\ FreshnessTypeOK
  /\ local \in Versions
  /\ cmd \in [Checkers -> {"idle", "claim", "launch", "unclaim"}]
  /\ wpc \in [Workers -> {"idle", "started", "acquire", "download", "publish", "recordDone",
                          "release", "releaseFailed", "recordFailed"}]
  /\ background \in [Workers -> BOOLEAN]
  /\ got \in [Workers -> Tags]
  /\ progress \in {"none", "downloading", "completed", "failed"}
  /\ lapsed \subseteq Versions
  /\ faults \in 0 .. MaxFaults
  /\ \A c \in Checkers : cmd[c] \in {"launch", "unclaim"} <=> lease = c
  /\ \A w \in Workers :
       wpc[w] \in {"download", "publish", "recordDone", "release", "releaseFailed"} <=> lease = w

\* No update replaces the installed dataset by an older download, whoever
\* started it and however long it took: what is downloaded under the lease is
\* published under the same lease.
NeverOlder == [][local' >= local]_vars

\* While its coverage lasts, a dataset that falls behind is replaced without
\* anybody running `gtfs update`: the server's feed is installed in the end.
Converges ==
  \A v \in Versions : <>[](upstream = v /\ local \notin lapsed) => <>[](local = v)

\* specs/gtfs-opendata-offline/PRODUCT.md: "If `FreshnessChanged` or
\* `FreshnessStale` is detected and the upstream validators differ,
\* auto-update is triggered".  So also after the coverage has ended.
ConvergesAfterLapse == \A v \in Versions : <>[](upstream = v) => <>[](local = v)
=============================================================================
