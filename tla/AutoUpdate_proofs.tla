------------------------- MODULE AutoUpdate_proofs -------------------------
(***************************************************************************)
(* Proofs about Freshness and AutoUpdate for any number of commands,       *)
(* workers, versions, failures and faults, and any throttle and backoff.   *)
(* Of Freshness, type correctness and honesty of the rows are inductive    *)
(* together; that a dataset is called current only on recent evidence      *)
(* follows, step by step, from the two.  Of AutoUpdate, the lease is held  *)
(* by whom the protocol says, what is downloaded under it is published     *)
(* under it, and the row stays honest although versions are now installed  *)
(* some time after they were the latest.                                   *)
(***************************************************************************)
EXTENDS AutoUpdate, TLAPS

USE BoundsAssumption, TimesAssumption, NoTagAssumption

RowInv == FreshnessTypeOK /\ RowIsHonest

-----------------------------------------------------------------------------
(***************************************************************************)
(* Copies of the row.                                                      *)
(***************************************************************************)

\* A state is well formed when it is typed and counts failures exactly while
\* it holds an error.
WellFormed(s) == s \in CheckStates /\ (s.error <=> s.failures > 0)

LEMMA TypeByParts ==
  FreshnessTypeOK <=>
    /\ upstream \in Versions /\ local \in Tags
    /\ pc \in [Checkers -> {"idle", "head", "persist"}]
    /\ my \in [Checkers -> CheckStates]
    /\ performed \in [Checkers -> BOOLEAN]
    /\ data \in [Checkers -> Tags]
    /\ verdict \in [Checkers -> Verdicts]
    /\ seenAge \in [Versions -> 0 .. Throttle]
    /\ WellFormed(row)
    /\ \A c \in Checkers : WellFormed(my[c])
  BY DEF FreshnessTypeOK, WellFormed

LEMMA NeverCheckedIsFine == WellFormed(NeverChecked) /\ Honest(NeverChecked)
  BY DEF WellFormed, NeverChecked, CheckStates, Tags, Honest

\* A successful HEAD leaves a state that counts no failure.
LEMMA SuccessIsFine ==
  ASSUME NEW tag \in Tags PROVE WellFormed(Success(tag, 0))
  BY DEF WellFormed, Success, CheckStates

\* The backoff is a deadline of the throttle's range.
LEMMA BackoffIsDeadline ==
  ASSUME NEW n \in 1 .. MaxFailures PROVE Backoff[n] \in 0 .. Throttle
  BY DEF Backoff

\* A failed HEAD leaves a state that counts one.
LEMMA FailureIsWellFormed ==
  ASSUME NEW s \in CheckStates, NEW n \in 1 .. MaxFailures, NEW w \in 0 .. Throttle
  PROVE  LET failed == [s EXCEPT !.remote = NoTag, !.error = TRUE, !.failures = n, !.wait = w]
         IN  WellFormed(failed) /\ failed.error = TRUE
  <1> DEFINE failed == [s EXCEPT !.remote = NoTag, !.error = TRUE, !.failures = n, !.wait = w]
  <1>1. NoTag \in Tags /\ n \in 0 .. MaxFailures /\ TRUE \in BOOLEAN
    BY DEF Tags
  <1>2. failed \in CheckStates
    BY <1>1 DEF CheckStates
  <1>3. failed.error = TRUE /\ failed.failures = n
    BY DEF CheckStates
  <1> QED BY <1>2, <1>3 DEF WellFormed

\* A state from which the clock takes one tick.
LEMMA TickKeepsState ==
  ASSUME NEW s, WellFormed(s)
  PROVE  /\ WellFormed([s EXCEPT !.wait = Less(@)])
         /\ [s EXCEPT !.wait = Less(@)].wait = Less(s.wait)
  BY DEF WellFormed, CheckStates, Less

LEMMA VerdictsAreTyped ==
  ASSUME NEW s, NEW tag, NEW ev \in Evidence PROVE Classify(s, tag, ev) \in Verdicts
  BY DEF Classify, Verdicts, Evidence, Comparable, Comparison, ByEvidence

\* What it takes to be called current.
LEMMA CurrentMeansEqual ==
  ASSUME NEW s, WellFormed(s), NEW tag \in Tags, NEW ev \in Evidence,
         Classify(s, tag, ev) = "current"
  PROVE  s.success /\ ~s.error /\ s.remote = tag /\ tag \in Versions
  BY DEF Classify, Evidence, Comparable, Comparison, ByEvidence, Tags

-----------------------------------------------------------------------------
(***************************************************************************)
(* The steps.                                                              *)
(***************************************************************************)

LEMMA InitRowInv == FreshnessInit => RowInv
  <1> SUFFICES ASSUME FreshnessInit PROVE RowInv
    OBVIOUS
  <1>1. FreshnessTypeOK
    BY NeverCheckedIsFine, TypeByParts DEF FreshnessInit, Versions, Tags, Verdicts, WellFormed
  <1>2. RowIsHonest
    BY NeverCheckedIsFine DEF FreshnessInit, RowIsHonest
  <1> QED BY <1>1, <1>2 DEF RowInv

LEMMA BeginStep ==
  ASSUME RowInv, NEW c \in Checkers, NEW forced \in BOOLEAN, NEW ev \in Evidence,
         Begin(c, forced, ev)
  PROVE  RowInv'
  <1>1. Classify(row, local, ev) \in Verdicts
    BY VerdictsAreTyped
  <1>2. Due(forced, row) \in BOOLEAN
    BY DEF Due
  <1>3. FreshnessTypeOK'
    BY <1>1, <1>2, TypeByParts DEF RowInv, FreshnessTypeOK, Begin, worldVars, Verdicts, WellFormed
  <1>4. RowIsHonest'
    BY DEF RowInv, FreshnessTypeOK, RowIsHonest, Honest, Begin
  <1> QED BY <1>3, <1>4 DEF RowInv

LEMMA HeadSucceedsStep ==
  ASSUME RowInv, NEW c \in Checkers, NEW tag \in {upstream, NoTag}, NEW ev \in Evidence,
         HeadSucceeds(c, tag, ev)
  PROVE  RowInv'
  <1> DEFINE s == Success(tag, 0)
  <1>1. tag \in Tags
    BY DEF RowInv, FreshnessTypeOK, Tags
  <1>2. WellFormed(s)
    BY <1>1, SuccessIsFine
  <1>3. Classify(s, data[c], ev) \in Verdicts
    BY VerdictsAreTyped
  <1>4. seenAge' = [v \in Versions |-> IF v = tag THEN 0 ELSE seenAge[v]]
    BY DEF HeadSucceeds, See
  <1>5. FreshnessTypeOK'
    <2> USE DEF HeadSucceeds, Learn, worldVars
    <2>1. seenAge' \in [Versions -> 0 .. Throttle]
      BY <1>4 DEF RowInv, FreshnessTypeOK
    <2>2. my' \in [Checkers -> CheckStates] /\ \A d \in Checkers : WellFormed(my'[d])
      BY <1>2 DEF RowInv, FreshnessTypeOK, WellFormed
    <2>3. verdict' \in [Checkers -> Verdicts]
      BY <1>3 DEF RowInv, FreshnessTypeOK
    <2> HIDE DEF s
    <2> QED BY <2>1, <2>2, <2>3 DEF RowInv, FreshnessTypeOK, WellFormed
  <1>6. RowIsHonest'
    <2>1. \A x : Honest(x) /\ WellFormed(x) => Honest(x)'
      BY <1>4 DEF Honest, WellFormed, CheckStates, Tags, RowInv, FreshnessTypeOK
    <2>2. Honest(s)'
      BY <1>1, <1>4 DEF Honest, Success, Tags
    <2>3. \A d \in Checkers : my'[d] = IF d = c THEN s ELSE my[d]
      BY DEF HeadSucceeds, Learn, RowInv, FreshnessTypeOK
    <2>4. row' = row
      BY DEF HeadSucceeds, Learn
    <2> QED
      BY <2>1, <2>2, <2>3, <2>4 DEF RowIsHonest, RowInv, FreshnessTypeOK, WellFormed, Honest
  <1> QED BY <1>5, <1>6 DEF RowInv

LEMMA HeadFailsStep ==
  ASSUME RowInv, NEW c \in Checkers, NEW ev \in Evidence, HeadFails(c, ev)
  PROVE  RowInv'
  <1> DEFINE failures == IF my[c].failures < MaxFailures THEN my[c].failures + 1 ELSE MaxFailures
             s == [my[c] EXCEPT !.remote = NoTag, !.error = TRUE, !.failures = failures,
                                !.wait = Backoff[failures]]
  <1>1. my[c] \in CheckStates /\ my \in [Checkers -> CheckStates]
    BY DEF RowInv, FreshnessTypeOK
  <1>2. failures \in 1 .. MaxFailures
    BY <1>1 DEF CheckStates
  <1>3. Backoff[failures] \in 0 .. Throttle
    BY <1>2, BackoffIsDeadline
  <1> HIDE DEF failures
  <1>4. WellFormed(s) /\ s.error = TRUE
    BY <1>1, <1>2, <1>3, FailureIsWellFormed
  <1>5. Classify(s, data[c], ev) \in Verdicts
    BY VerdictsAreTyped
  <1>6. Learn(c, s, ev) /\ seenAge' = seenAge
    BY DEF HeadFails, failures
  <1> HIDE DEF s
  <1>7. my' = [my EXCEPT ![c] = s]
    BY <1>6 DEF Learn
  <1>8. FreshnessTypeOK'
    BY <1>1, <1>4, <1>5, <1>6, <1>7 DEF RowInv, FreshnessTypeOK, Learn, worldVars, WellFormed
  <1>9. RowIsHonest'
    BY <1>1, <1>4, <1>6, <1>7 DEF RowInv, RowIsHonest, Honest, Learn
  <1> QED BY <1>8, <1>9 DEF RowInv

\* The end of an evaluation: the copy that is persisted was honest already.
LEMMA ReturnStep ==
  ASSUME RowInv, NEW c \in Checkers, Return(c), row' \in {row, my[c]}
  PROVE  RowInv'
  <1>1. FreshnessTypeOK'
    BY NeverCheckedIsFine
       DEF RowInv, FreshnessTypeOK, Return, worldVars, Tags, Verdicts, WellFormed
  <1>2. RowIsHonest'
    BY NeverCheckedIsFine DEF RowInv, FreshnessTypeOK, RowIsHonest, Honest, Return, NeverChecked
  <1> QED BY <1>1, <1>2 DEF RowInv

\* A tick shortens a wait by as much as it ages the evidence.
LEMMA TickStep ==
  ASSUME RowInv, Tick PROVE RowInv'
  <1>1. /\ row' = [row EXCEPT !.wait = Less(@)]
        /\ my' = [c \in Checkers |-> [my[c] EXCEPT !.wait = Less(@)]]
        /\ seenAge' = [v \in Versions |-> IF seenAge[v] < Throttle THEN seenAge[v] + 1 ELSE Throttle]
    BY DEF Tick
  <1>2. WellFormed(row) /\ \A c \in Checkers : WellFormed(my[c])
    BY DEF RowInv, FreshnessTypeOK, WellFormed
  <1>3. WellFormed(row') /\ \A c \in Checkers : WellFormed(my'[c])
    BY <1>1, <1>2, TickKeepsState
  <1>4. FreshnessTypeOK'
    <2>1. seenAge' \in [Versions -> 0 .. Throttle]
      BY <1>1 DEF RowInv, FreshnessTypeOK
    <2>2. my' \in [Checkers -> CheckStates] /\ row' \in CheckStates
      BY <1>1, <1>3 DEF WellFormed
    <2>3. \A s \in {row'} \cup {my'[c] : c \in Checkers} : s.error <=> s.failures > 0
      BY <1>3 DEF WellFormed
    <2>4. UNCHANGED <<upstream, local, pc, performed, data, verdict>>
      BY DEF Tick, worldVars
    <2> QED BY <2>1, <2>2, <2>3, <2>4 DEF RowInv, FreshnessTypeOK
  <1>5. \A v \in Versions, n \in 0 .. Throttle :
          seenAge[v] + n <= Throttle => seenAge'[v] + Less(n) <= Throttle
    BY <1>1 DEF Less, RowInv, FreshnessTypeOK
  <1>6. \A s : WellFormed(s) /\ Honest(s) => Honest([s EXCEPT !.wait = Less(@)])'
    <2> TAKE s
    <2> DEFINE t == [s EXCEPT !.wait = Less(@)]
    <2> SUFFICES ASSUME WellFormed(s), Honest(s), t.success, ~t.error, t.remote # NoTag
                 PROVE  seenAge'[t.remote] + t.wait <= Throttle
      BY DEF Honest
    <2>1. /\ t.success = s.success /\ t.error = s.error /\ t.remote = s.remote
          /\ t.wait = Less(s.wait)
      BY DEF WellFormed, CheckStates
    <2>2. s.remote \in Versions /\ s.wait \in 0 .. Throttle
      BY <2>1 DEF WellFormed, CheckStates, Tags
    <2> QED BY <2>1, <2>2, <1>5 DEF Honest
  <1>7. RowIsHonest'
    BY <1>1, <1>2, <1>6 DEF RowInv, RowIsHonest
  <1> QED BY <1>4, <1>7 DEF RowInv

-----------------------------------------------------------------------------

LEMMA NextRowInv == RowInv /\ [FreshnessNext]_freshnessVars => RowInv'
  <1> SUFFICES ASSUME RowInv, [FreshnessNext]_freshnessVars PROVE RowInv'
    OBVIOUS
  <1>1. CASE UNCHANGED freshnessVars
    BY <1>1 DEF freshnessVars, worldVars, checkerVars, RowInv, FreshnessTypeOK, RowIsHonest, Honest
  <1>2. ASSUME NEW c \in Checkers, Checker(c) PROVE RowInv'
    BY <1>2, BeginStep, HeadSucceedsStep, HeadFailsStep, ReturnStep
       DEF Checker, Persist, PersistAs, GiveUp
  <1>3. CASE UpstreamPublishes
    BY <1>3 DEF UpstreamPublishes, checkerVars, RowInv, FreshnessTypeOK, RowIsHonest, Honest, Versions
  <1>4. CASE InstallLatest
    BY <1>4 DEF InstallLatest, checkerVars, RowInv, FreshnessTypeOK, RowIsHonest, Honest, Tags
  <1> QED BY <1>1, <1>2, <1>3, <1>4, TickStep DEF FreshnessNext

\* The row and every copy of it stay honest, whatever checks interleave
\* (CheckFreshness).
THEOREM RowInductive == FreshnessSpec => []RowInv
  BY InitRowInv, NextRowInv, PTL DEF FreshnessSpec

\* Every variable has its type in every reachable state, and a state holds an
\* error exactly while it counts failures.
THEOREM FreshnessTypeCorrect == FreshnessSpec => []FreshnessTypeOK
  <1>1. RowInv => FreshnessTypeOK
    BY DEF RowInv
  <1> QED BY <1>1, RowInductive, PTL

\* However many commands overwrite the row with older copies of it, no copy
\* defers the next check for longer than its own observation justifies.
THEOREM RowsStayHonest == FreshnessSpec => []RowIsHonest
  <1>1. RowInv => RowIsHonest
    BY DEF RowInv
  <1> QED BY <1>1, RowInductive, PTL

-----------------------------------------------------------------------------
(***************************************************************************)
(* A dataset is called current on evidence.                                *)
(***************************************************************************)

\* One step of one command that ends in the verdict "current".
CalledCurrent(c) == /\ verdict[c] # "current"
                    /\ verdict'[c] = "current"

OnEvidence(c) == /\ data'[c] \in Versions
                 /\ seenAge'[data'[c]] < Throttle

\* A check that is skipped leans on the row it has just read.
LEMMA SkippedOnEvidence ==
  ASSUME RowInv, NEW c \in Checkers, NEW forced \in BOOLEAN, NEW ev \in Evidence,
         Begin(c, forced, ev), CalledCurrent(c)
  PROVE  OnEvidence(c)
  <1>1. ~Due(forced, row) /\ Classify(row, local, ev) = "current"
    BY DEF Begin, CalledCurrent, RowInv, FreshnessTypeOK
  <1>2. WellFormed(row) /\ local \in Tags
    BY DEF RowInv, FreshnessTypeOK, WellFormed
  <1>3. row.success /\ ~row.error /\ row.remote = local /\ local \in Versions
    BY <1>1, <1>2, CurrentMeansEqual
  <1>4. row.wait > 0 /\ row.wait \in Nat
    BY <1>1, <1>2 DEF Due, WellFormed, CheckStates
  <1>5. seenAge[local] + row.wait <= Throttle
    BY <1>3 DEF RowInv, RowIsHonest, Honest, Versions
  <1>6. data'[c] = local /\ seenAge' = seenAge
    BY DEF Begin, RowInv, FreshnessTypeOK
  <1> QED
    BY <1>3, <1>4, <1>5, <1>6 DEF OnEvidence, RowInv, FreshnessTypeOK

\* A successful HEAD is the evidence itself.
LEMMA HeadIsEvidence ==
  ASSUME RowInv, NEW c \in Checkers, NEW tag \in {upstream, NoTag}, NEW ev \in Evidence,
         HeadSucceeds(c, tag, ev), CalledCurrent(c)
  PROVE  OnEvidence(c)
  <1>1. Classify(Success(tag, 0), data[c], ev) = "current" /\ data' = data
    BY DEF HeadSucceeds, Learn, CalledCurrent, RowInv, FreshnessTypeOK
  <1>2. tag \in Tags /\ data[c] \in Tags
    BY DEF RowInv, FreshnessTypeOK, Tags
  <1>3. Success(tag, 0).remote = data[c] /\ data[c] \in Versions
    BY <1>1, <1>2, SuccessIsFine, CurrentMeansEqual
  <1>4. seenAge'[data[c]] = 0
    BY <1>3 DEF Success, HeadSucceeds, See
  <1> QED BY <1>1, <1>3, <1>4 DEF OnEvidence

\* A failed one is not: the error it leaves makes validators incomparable.
LEMMA FailureProvesNothing ==
  ASSUME RowInv, NEW c \in Checkers, NEW ev \in Evidence, HeadFails(c, ev)
  PROVE  ~CalledCurrent(c)
  <1> DEFINE failures == IF my[c].failures < MaxFailures THEN my[c].failures + 1 ELSE MaxFailures
             s == [my[c] EXCEPT !.remote = NoTag, !.error = TRUE, !.failures = failures,
                                !.wait = Backoff[failures]]
  <1>1. s.error = TRUE
    BY DEF RowInv, FreshnessTypeOK, CheckStates
  <1>2. verdict'[c] = Classify(s, data[c], ev)
    BY DEF HeadFails, Learn, RowInv, FreshnessTypeOK
  <1> HIDE DEF s
  <1>3. Classify(s, data[c], ev) # "current"
    BY <1>1 DEF Classify, Comparable, ByEvidence, Evidence
  <1> QED BY <1>2, <1>3 DEF CalledCurrent

\* Every other command, and every other step, leaves the verdict or resets it.
LEMMA OthersKeepVerdict ==
  ASSUME RowInv, NEW c \in Checkers, NEW d \in Checkers, d # c, Checker(d)
  PROVE  ~CalledCurrent(c)
  BY DEF CalledCurrent, RowInv, FreshnessTypeOK, Checker, Begin, HeadSucceeds, HeadFails, Learn,
         Persist, PersistAs, GiveUp, Return

\* A command reports "current" only if the server returned the validator of
\* its dataset in a successful check within the throttle period.
THEOREM CurrentOnlyOnEvidence == FreshnessSpec => CurrentWasSeen
  <1>1. ASSUME RowInv, [FreshnessNext]_freshnessVars, NEW c \in Checkers, CalledCurrent(c)
        PROVE  OnEvidence(c)
    <2>1. CASE Checker(c)
      <3>1. CASE Persist(c) \/ GiveUp(c)
        BY <1>1, <3>1 DEF Persist, PersistAs, GiveUp, Return, CalledCurrent, RowInv, FreshnessTypeOK
      <3> QED
        BY <1>1, <2>1, <3>1, SkippedOnEvidence, HeadIsEvidence, FailureProvesNothing DEF Checker
    <2>2. CASE \E d \in Checkers \ {c} : Checker(d)
      BY <1>1, <2>2, OthersKeepVerdict
    <2>3. CASE Tick \/ UpstreamPublishes \/ InstallLatest \/ UNCHANGED freshnessVars
      BY <1>1, <2>3 DEF Tick, UpstreamPublishes, InstallLatest, freshnessVars, checkerVars, CalledCurrent
    <2> QED BY <1>1, <2>1, <2>2, <2>3 DEF FreshnessNext
  <1>2. RowInv /\ [FreshnessNext]_freshnessVars
          => [\A c \in Checkers : verdict[c] # "current" /\ verdict'[c] = "current"
                => /\ data'[c] \in Versions
                   /\ seenAge'[data'[c]] < Throttle]_freshnessVars
    BY <1>1 DEF CalledCurrent, OnEvidence
  <1> QED BY <1>2, RowInductive, PTL DEF FreshnessSpec, CurrentWasSeen

-----------------------------------------------------------------------------
(***************************************************************************)
(* Commands and workers around one lease.                                  *)
(***************************************************************************)
CommandStages == {"idle", "claim", "launch", "unclaim"}
HoldingStages == {"download", "publish", "recordDone", "release", "releaseFailed"}
WorkerStages == HoldingStages \cup {"idle", "started", "acquire", "recordFailed"}

AutoTypes ==
  /\ upstream \in Versions /\ local \in Versions
  /\ cmd \in [Checkers -> CommandStages]
  /\ wpc \in [Workers -> WorkerStages]
  /\ background \in [Workers -> BOOLEAN]
  /\ got \in [Workers -> Tags]
  /\ progress \in {"none", "downloading", "completed", "failed"}
  /\ lapsed \subseteq Versions
  /\ faults \in 0 .. MaxFaults

\* The lease is held exactly between a claim and its release.
Held ==
  /\ \A c \in Checkers : cmd[c] \in {"launch", "unclaim"} <=> lease = c
  /\ \A w \in Workers : wpc[w] \in HoldingStages <=> lease = w

\* A command launches nothing while it is still checking.
OneAtATime == \A c \in Checkers : pc[c] # "idle" => cmd[c] = "idle"

\* What is about to be published is between what is installed and what is
\* offered: whoever could install something newer would need the lease.
Ordered ==
  /\ local <= upstream
  /\ \A w \in Workers : wpc[w] = "publish" => got[w] \in Versions /\ local <= got[w] /\ got[w] <= upstream

Core == AutoTypes /\ Held /\ OneAtATime /\ Ordered
IInv == RowInv /\ Core

LEMMA AutoInit == Init => IInv
<1> SUFFICES ASSUME Init PROVE IInv
  OBVIOUS
<1>1. RowInv
  BY InitRowInv DEF Init
<1>2. 1 \in Versions /\ 0 \in 0 .. MaxFaults /\ NoTag \in Tags
  BY BoundsAssumption, FaultsAssumption DEF Versions, Tags
<1>3. AutoTypes
  BY <1>2 DEF Init, FreshnessInit, AutoTypes, CommandStages, WorkerStages
<1>4. Held
  BY NoOneAssumption DEF Init, Held, Holders, HoldingStages
<1>5. OneAtATime /\ Ordered
  BY DEF Init, FreshnessInit, OneAtATime, Ordered
<1> QED BY <1>1, <1>3, <1>4, <1>5 DEF IInv, Core

-----------------------------------------------------------------------------
(***************************************************************************)
(* The freshness row.                                                      *)
(***************************************************************************)
LEMMA RowUntouched == ASSUME RowInv, UNCHANGED freshnessVars PROVE RowInv'
BY NextRowInv

LEMMA EvidenceIsTyped == ASSUME NEW tag PROVE EvidenceOf(tag) \in Evidence
BY DEF EvidenceOf, Evidence

\* What a publication installs is no business of the row's.
LEMMA InstallingKeepsRow ==
  ASSUME RowInv, local' \in Versions, UNCHANGED <<upstream, row, checkerVars, seenAge>>
  PROVE  RowInv'
BY DEF checkerVars, RowInv, FreshnessTypeOK, RowIsHonest, Honest, Tags

LEMMA AutoRow == ASSUME IInv, [Next]_vars PROVE RowInv'
<1> USE DEF IInv
<1>1. CASE UNCHANGED vars
  BY <1>1, RowUntouched DEF vars
<1>2. ASSUME NEW c \in Checkers, RunCommand(c) PROVE RowInv'
  BY <1>2, BeginStep, EvidenceIsTyped DEF RunCommand
<1>3. ASSUME NEW c \in Checkers, HeadAnswered(c) PROVE RowInv'
  BY <1>3, HeadSucceedsStep, EvidenceIsTyped DEF HeadAnswered
<1>4. ASSUME NEW c \in Checkers, HeadTimesOut(c) PROVE RowInv'
  BY <1>4, HeadFailsStep, EvidenceIsTyped DEF HeadTimesOut
<1>5. ASSUME NEW c \in Checkers, CheckReturns(c) \/ CheckGivesUp(c) PROVE RowInv'
  BY <1>5, ReturnStep DEF CheckReturns, CheckGivesUp, Persist, PersistAs, GiveUp
<1>6. ASSUME NEW c \in Checkers,
             ClaimUpdate(c) \/ LaunchWorker(c) \/ ReleaseClaim(c) \/ KillCommand(c)
      PROVE  RowInv'
  BY <1>6, RowUntouched DEF ClaimUpdate, LaunchWorker, ReleaseClaim, KillCommand
<1>7. ASSUME NEW w \in Workers, Publish(w) PROVE RowInv'
  <2>1. CASE local' = got[w]
    <3>1. local' \in Versions
      BY <1>7, <2>1 DEF Publish, Core, Ordered
    <3> QED BY <1>7, <3>1, InstallingKeepsRow DEF Publish
  <2>2. CASE local' = local
    BY <1>7, <2>2, RowUntouched DEF Publish, freshnessVars, worldVars
  <2> QED BY <1>7, <2>1, <2>2 DEF Publish
<1>8. ASSUME NEW w \in Workers,
             \/ StartByHand(w) \/ WriteStarted(w) \/ AcquireUpdate(w) \/ Download(w)
             \/ WriteCompleted(w) \/ ReleaseLease(w) \/ WriteFailed(w) \/ KillWorker(w)
      PROVE  RowInv'
  BY <1>8, RowUntouched
     DEF StartByHand, WriteStarted, AcquireUpdate, Download, WriteCompleted, ReleaseLease,
         WriteFailed, KillWorker
<1>9. CASE Time
  BY <1>9, TickStep DEF Time
<1>10. CASE NewFeed
  BY <1>10, NextRowInv DEF NewFeed, FreshnessNext
<1>11. CASE CoverageEnds
  BY <1>11, RowUntouched DEF CoverageEnds
<1> QED
  BY <1>1, <1>2, <1>3, <1>4, <1>5, <1>6, <1>7, <1>8, <1>9, <1>10, <1>11 DEF Next, Command, Worker

-----------------------------------------------------------------------------
(***************************************************************************)
(* The lease and what is done under it.                                    *)
(***************************************************************************)

\* A command that checks, or time: the lease is not involved.
LEMMA CheckingStep ==
  ASSUME Core, NEW c \in Checkers, cmd[c] = "idle" \/ pc[c] # "idle",
         \E s : pc' = [pc EXCEPT ![c] = s],
         \E s \in {"idle", "claim"} : cmd' \in {cmd, [cmd EXCEPT ![c] = s]},
         pc'[c] # "idle" => cmd'[c] = "idle",
         faults' \in {faults} \cup 0 .. MaxFaults,
         UNCHANGED <<upstream, local, lease, workerVars, lapsed>>
  PROVE  Core'
<1> USE DEF Core, workerVars
<1>1. cmd[c] = "idle"
  BY DEF OneAtATime
<1>2. AutoTypes'
  BY DEF AutoTypes, CommandStages
<1>3. Held'
  BY <1>1 DEF Held, AutoTypes
<1>4. OneAtATime'
  <2>1. \A d \in Checkers : d # c => cmd'[d] = cmd[d] /\ (pc'[d] = pc[d] \/ pc'[d] = "idle")
    BY DEF AutoTypes
  <2> QED BY <2>1 DEF OneAtATime
<1>5. Ordered'
  BY DEF Ordered
<1> QED BY <1>2, <1>3, <1>4, <1>5

LEMMA OneLessFault == ASSUME AutoTypes, Fault PROVE faults' \in 0 .. MaxFaults
BY FaultsAssumption DEF AutoTypes, Fault

LEMMA Checking ==
  ASSUME RowInv, Core, NEW c \in Checkers,
         RunCommand(c) \/ HeadAnswered(c) \/ HeadTimesOut(c) \/ CheckReturns(c) \/ CheckGivesUp(c)
  PROVE  Core'
<1> USE DEF autoVars, workerVars, worldVars
<1>1. CASE RunCommand(c)
  <2>1. /\ cmd[c] = "idle" /\ \E s : pc' = [pc EXCEPT ![c] = s]
        /\ UNCHANGED <<upstream, local, cmd, lease, workerVars, lapsed, faults>>
    BY <1>1 DEF RunCommand, Begin
  <2> QED BY <2>1, CheckingStep
<1>2. CASE HeadAnswered(c) \/ HeadTimesOut(c)
  <2>1. /\ pc[c] # "idle" /\ \E s : pc' = [pc EXCEPT ![c] = s]
        /\ UNCHANGED <<upstream, local, cmd, lease, workerVars, lapsed>>
        /\ faults' \in {faults} \cup 0 .. MaxFaults
    BY <1>2, OneLessFault DEF Core, HeadAnswered, HeadTimesOut, HeadSucceeds, HeadFails, Learn
  <2>2. cmd[c] = "idle"
    BY <2>1 DEF Core, OneAtATime
  <2> QED BY <2>1, <2>2, CheckingStep
<1>3. CASE CheckReturns(c) \/ CheckGivesUp(c)
  <2>1. /\ pc[c] # "idle" /\ pc' = [pc EXCEPT ![c] = "idle"]
        /\ \E s \in {"idle", "claim"} : cmd' \in {cmd, [cmd EXCEPT ![c] = s]}
        /\ UNCHANGED <<upstream, local, lease, workerVars, lapsed>>
        /\ faults' \in {faults} \cup 0 .. MaxFaults
    BY <1>3, OneLessFault DEF Core, CheckReturns, CheckGivesUp, Persist, PersistAs, GiveUp, Return
  <2>2. cmd[c] = "idle" /\ (cmd' = cmd => cmd'[c] = "idle") /\ ~(pc'[c] # "idle")
    BY <2>1 DEF Core, OneAtATime, RowInv, FreshnessTypeOK
  <2> QED BY <2>1, <2>2, CheckingStep
<1> QED BY <1>1, <1>2, <1>3

\* Claiming, launching, releasing: one holder at most, the worker that is
\* launched holds nothing yet.
LEMMA Launching ==
  ASSUME Core, NEW c \in Checkers,
         ClaimUpdate(c) \/ LaunchWorker(c) \/ ReleaseClaim(c) \/ KillCommand(c)
  PROVE  Core'
<1> USE NoOneAssumption, ActorsAssumption
        DEF Core, Holders, freshnessVars, worldVars, checkerVars, workerVars, CommandStages,
            WorkerStages, HoldingStages, NoFault
<1>1. CASE ClaimUpdate(c)
  <2>1. AutoTypes'
    BY <1>1 DEF AutoTypes, ClaimUpdate
  <2>2. Held'
    BY <1>1 DEF AutoTypes, Held, ClaimUpdate
  <2>3. OneAtATime' /\ Ordered'
    BY <1>1 DEF AutoTypes, OneAtATime, Ordered, ClaimUpdate
  <2> QED BY <2>1, <2>2, <2>3
<1>2. CASE LaunchWorker(c)
  <2>1. AutoTypes'
    BY <1>2, OneLessFault DEF AutoTypes, LaunchWorker
  <2>2. Held'
    BY <1>2 DEF AutoTypes, Held, LaunchWorker
  <2>3. OneAtATime' /\ Ordered'
    BY <1>2 DEF AutoTypes, OneAtATime, Ordered, LaunchWorker
  <2> QED BY <2>1, <2>2, <2>3
<1>3. CASE ReleaseClaim(c)
  <2>1. AutoTypes'
    BY <1>3 DEF AutoTypes, ReleaseClaim
  <2>2. Held'
    BY <1>3 DEF AutoTypes, Held, ReleaseClaim
  <2>3. OneAtATime' /\ Ordered'
    BY <1>3 DEF AutoTypes, OneAtATime, Ordered, ReleaseClaim
  <2> QED BY <2>1, <2>2, <2>3
<1>4. CASE KillCommand(c)
  <2>1. AutoTypes'
    BY <1>4, OneLessFault DEF AutoTypes, KillCommand
  <2>2. Held'
    BY <1>4 DEF AutoTypes, Held, KillCommand
  <2>3. OneAtATime' /\ Ordered'
    BY <1>4 DEF AutoTypes, OneAtATime, Ordered, KillCommand
  <2> QED BY <2>1, <2>2, <2>3
<1> QED BY <1>1, <1>2, <1>3, <1>4

\* Only the holder of the lease downloads and publishes, so that what another
\* one is about to publish stays in its place.
LEMMA Updating ==
  ASSUME Core, NEW w \in Workers, Worker(w) \/ StartByHand(w) \/ KillWorker(w)
  PROVE  Core' /\ local' >= local
<1> USE NoOneAssumption, ActorsAssumption
        DEF Core, Holders, freshnessVars, worldVars, checkerVars, WorkerStages, HoldingStages, NoFault
<1>1. CASE StartByHand(w)
  <2>1. AutoTypes' /\ OneAtATime'
    BY <1>1 DEF AutoTypes, OneAtATime, StartByHand
  <2>2. Held' /\ Ordered' /\ local' = local
    BY <1>1 DEF AutoTypes, Held, Ordered, StartByHand
  <2> QED BY <2>1, <2>2 DEF AutoTypes, Versions
<1>2. CASE WriteStarted(w)
  <2>1. AutoTypes' /\ OneAtATime'
    BY <1>2 DEF AutoTypes, OneAtATime, WriteStarted
  <2>2. Held' /\ Ordered' /\ local' = local
    BY <1>2 DEF AutoTypes, Held, Ordered, WriteStarted
  <2> QED BY <2>1, <2>2 DEF AutoTypes, Versions
<1>3. CASE AcquireUpdate(w)
  <2>1. AutoTypes' /\ OneAtATime'
    BY <1>3 DEF AutoTypes, OneAtATime, AcquireUpdate, AfterError
  <2>2. Held'
    BY <1>3 DEF AutoTypes, Held, AcquireUpdate, AfterError
  <2>3. Ordered' /\ local' = local
    BY <1>3 DEF AutoTypes, Ordered, AcquireUpdate, AfterError
  <2> QED BY <2>1, <2>2, <2>3 DEF AutoTypes, Versions
<1>4. CASE Download(w)
  <2>1. AutoTypes' /\ OneAtATime'
    BY <1>4, OneLessFault DEF AutoTypes, OneAtATime, Download, Tags
  <2>2. Held'
    BY <1>4 DEF AutoTypes, Held, Download
  <2>3. Ordered' /\ local' = local
    BY <1>4 DEF AutoTypes, Ordered, Download, Versions
  <2> QED BY <2>1, <2>2, <2>3 DEF AutoTypes, Versions
<1>5. CASE Publish(w)
  <2>1. \A v \in Workers : v # w => wpc[v] # "publish"
    BY <1>5 DEF Publish, Held
  <2>2. got[w] \in Versions /\ local <= got[w] /\ got[w] <= upstream
    BY <1>5 DEF Publish, Ordered
  <2>3. AutoTypes' /\ OneAtATime'
    BY <1>5, <2>2, OneLessFault DEF AutoTypes, OneAtATime, Publish
  <2>4. Held'
    BY <1>5 DEF AutoTypes, Held, Publish
  <2>5. Ordered'
    BY <1>5, <2>1, <2>2 DEF AutoTypes, Ordered, Publish
  <2>6. local' >= local
    BY <1>5, <2>2 DEF AutoTypes, Publish, Versions
  <2> QED BY <2>3, <2>4, <2>5, <2>6
<1>6. CASE WriteCompleted(w)
  <2>1. AutoTypes' /\ OneAtATime'
    BY <1>6 DEF AutoTypes, OneAtATime, WriteCompleted
  <2>2. Held' /\ Ordered' /\ local' = local
    BY <1>6 DEF AutoTypes, Held, Ordered, WriteCompleted
  <2> QED BY <2>1, <2>2 DEF AutoTypes, Versions
<1>7. CASE ReleaseLease(w)
  <2>1. AutoTypes' /\ OneAtATime'
    BY <1>7 DEF AutoTypes, OneAtATime, ReleaseLease, AfterError, Tags
  <2>2. Held'
    BY <1>7 DEF AutoTypes, Held, ReleaseLease, AfterError
  <2>3. Ordered' /\ local' = local
    BY <1>7 DEF AutoTypes, Ordered, ReleaseLease, AfterError
  <2> QED BY <2>1, <2>2, <2>3 DEF AutoTypes, Versions
<1>8. CASE WriteFailed(w)
  <2>1. AutoTypes' /\ OneAtATime'
    BY <1>8 DEF AutoTypes, OneAtATime, WriteFailed
  <2>2. Held' /\ Ordered' /\ local' = local
    BY <1>8 DEF AutoTypes, Held, Ordered, WriteFailed
  <2> QED BY <2>1, <2>2 DEF AutoTypes, Versions
<1>9. CASE KillWorker(w)
  <2>1. AutoTypes' /\ OneAtATime'
    BY <1>9, OneLessFault DEF AutoTypes, OneAtATime, KillWorker, Tags
  <2>2. Held'
    BY <1>9 DEF AutoTypes, Held, KillWorker
  <2>3. Ordered' /\ local' = local
    BY <1>9 DEF AutoTypes, Ordered, KillWorker
  <2> QED BY <2>1, <2>2, <2>3 DEF AutoTypes, Versions
<1> QED BY <1>1, <1>2, <1>3, <1>4, <1>5, <1>6, <1>7, <1>8, <1>9 DEF Worker

LEMMA CoreStep == IInv /\ [Next]_vars => Core' /\ local' >= local
<1> SUFFICES ASSUME IInv, RowInv, Core, [Next]_vars PROVE Core' /\ local' >= local
  BY DEF IInv
<1>1. ASSUME local' = local PROVE local' >= local
  BY <1>1 DEF Core, AutoTypes, Versions
<1>2. CASE UNCHANGED vars
  BY <1>1, <1>2
     DEF vars, autoVars, workerVars, freshnessVars, worldVars, checkerVars, Core, AutoTypes, Held,
         OneAtATime, Ordered
<1>3. ASSUME NEW c \in Checkers, Command(c) \/ HeadTimesOut(c) \/ CheckGivesUp(c) \/ KillCommand(c)
      PROVE  Core' /\ local' = local
  <2>1. Core'
    BY <1>3, Checking, Launching DEF Command
  <2>2. local' = local
    BY <1>3
       DEF Command, RunCommand, Begin, HeadAnswered, HeadTimesOut, HeadSucceeds, HeadFails, Learn,
           CheckReturns, CheckGivesUp, Persist, PersistAs, GiveUp, Return, ClaimUpdate, LaunchWorker,
           ReleaseClaim, KillCommand, freshnessVars, worldVars
  <2> QED BY <2>1, <2>2
<1>4. ASSUME NEW w \in Workers, Worker(w) \/ StartByHand(w) \/ KillWorker(w)
      PROVE  Core' /\ local' >= local
  BY <1>4, Updating
<1>5. CASE Time
  BY <1>1, <1>5
     DEF Time, Tick, autoVars, workerVars, worldVars, Core, AutoTypes, Held, OneAtATime, Ordered
<1>6. CASE NewFeed
  <2>1. /\ upstream' = upstream + 1 /\ upstream < MaxVersion
        /\ UNCHANGED <<local, pc, cmd, lease, wpc, background, got, progress, lapsed, faults>>
    BY <1>6 DEF NewFeed, UpstreamPublishes, autoVars, workerVars, checkerVars
  <2>2. Core'
    BY <2>1, BoundsAssumption DEF Core, AutoTypes, Held, OneAtATime, Ordered, Versions
  <2> QED BY <1>1, <2>1, <2>2
<1>7. CASE CoverageEnds
  BY <1>1, <1>7
     DEF CoverageEnds, freshnessVars, workerVars, worldVars, checkerVars, Core, AutoTypes, Held,
         OneAtATime, Ordered
<1> QED BY <1>1, <1>2, <1>3, <1>4, <1>5, <1>6, <1>7 DEF Next

-----------------------------------------------------------------------------
(***************************************************************************)
(* Theorems.                                                               *)
(***************************************************************************)
\* The strengthened invariant holds whatever commands, workers and faults do
\* (CheckAndAutoUpdate, newGTFSUpdateCmd).
THEOREM AutoInductive == Spec => []IInv
BY AutoInit, AutoRow, CoreStep, PTL DEF Spec, IInv

\* Every reachable state is well typed, and the lease is held exactly by a
\* command between its claim and its release (CheckAndAutoUpdate) or by a
\* worker between AcquireUpdate and Release, through every fault and kill.
THEOREM AutoTypeCorrect == Spec => []TypeOK
<1>1. IInv => TypeOK
  BY DEF IInv, Core, RowInv, AutoTypes, Held, TypeOK, CommandStages, WorkerStages, HoldingStages
<1> QED BY <1>1, AutoInductive, PTL

\* No update replaces the installed dataset by an older download.
THEOREM UpdatesNeverGoBack == Spec => NeverOlder
<1>1. IInv /\ [Next]_vars => [local' >= local]_vars
  BY CoreStep DEF IInv
<1> QED BY <1>1, AutoInductive, PTL DEF Spec, NeverOlder

\* What is shown of the row above holds around updates that install a
\* version some time after it was the latest one, too.
THEOREM RowsStayHonestAround == Spec => []RowIsHonest
<1>1. IInv => RowIsHonest
  BY DEF IInv, RowInv
<1> QED BY <1>1, AutoInductive, PTL
=============================================================================
