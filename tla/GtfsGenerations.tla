-------------------------- MODULE GtfsGenerations --------------------------
(***************************************************************************)
(* The life of a GTFS dataset generation (internal/gtfs/generation.go) and *)
(* the command that drives it (`ptv gtfs update`, cmd/gtfs.go).  Processes *)
(* compete for the SQLite update lease; its holder downloads the feed zip, *)
(* fills a staging database, installs it under generations/ and moves      *)
(* current.json.  Readers resolve current.json and then open the file it   *)
(* names.  Any step may fail, a process may be killed between any two      *)
(* steps, and the machine may lose power, which undoes directory changes   *)
(* and tears file contents that were not synced.                           *)
(*                                                                         *)
(* Identifiers are random in the code (newGenerationID); here each one is  *)
(* used once, and the size of Gens bounds the number of staged updates.    *)
(***************************************************************************)
EXTENDS FiniteSets

CONSTANTS Procs,   \* processes that update or roll back
          Readers, \* processes that open the current generation
          Gens,    \* generation identifiers
          NoProc,  \* nobody
          NoGen    \* no generation

ASSUME NoProcAssumption == NoProc \notin Procs
ASSUME NoGenAssumption == NoGen \notin Gens

VARIABLES
  lease,       \* who holds .update-lock.sqlite
  pc,          \* where each process is
  cand,        \* the generation each process has staged
  seen,        \* the manifest each process has read
  result,      \* what the operation of each process is about to return
  zip,         \* whose download gtfs.zip holds
  where,       \* the directory that holds each generation's file
  ready,       \* generations whose database passed prepareForPublication
  flushed,     \* generations whose contents were fsynced
  anchored,    \* generations whose entry in generations/ was fsynced
  layout,      \* generations/ itself: missing, made, or durable in the data directory
  manifest,    \* current.json, NoManifest when there is none
  recoverable, \* the current.json a power loss may leave
  published,   \* generations this data directory's current.json has named (history)
  rooted,      \* has the data directory been found after a power loss?
  spilled,     \* candidates abandoned by a crash or a failed removal (history)
  rpc,         \* where each reader is
  rgen         \* the generation each reader resolved

procVars   == <<lease, pc, cand, seen, result>>
fileVars   == <<zip, where, ready, flushed, anchored, layout>>
dataVars   == <<manifest, recoverable, published, rooted>>
readerVars == <<rpc, rgen>>
vars == <<procVars, fileVars, dataVars, spilled, readerVars>>

NoManifest == [current |-> NoGen, previous |-> NoGen]
Manifests == [current : Gens \cup {NoGen}, previous : Gens \cup {NoGen}]
Places == {"unused", "staging", "generations", "removed"}
Results == {"none", "ok", "error", "ambiguous"}

UpdateSteps == {"download", "stage", "ingest", "prepare", "flush", "install", "seal",
                "anchor", "readOld", "write", "harden", "readBack", "discard",
                "cleanup", "zip"}
RollbackSteps == {"rbRead", "rbOpen", "rbWrite", "rbHarden"}
Steps == {"idle", "release"} \cup UpdateSteps \cup RollbackSteps

Unused == {g \in Gens : where[g] = "unused"}

Goto(p, step) == pc' = [pc EXCEPT ![p] = step]

Fail(p, step) == /\ Goto(p, step)
                 /\ result' = [result EXCEPT ![p] = "error"]

(***************************************************************************)
(* Init: a data directory not yet made.  One that has been there for long  *)
(* is the one a power loss leaves of this.                                 *)
(***************************************************************************)
Init ==
  /\ lease = NoProc
  /\ pc = [p \in Procs |-> "idle"]
  /\ cand = [p \in Procs |-> NoGen]
  /\ seen = [p \in Procs |-> NoManifest]
  /\ result = [p \in Procs |-> "none"]
  /\ zip = NoProc
  /\ where = [g \in Gens |-> "unused"]
  /\ ready = {} /\ flushed = {} /\ anchored = {}
  /\ layout = "missing"
  /\ manifest = NoManifest
  /\ recoverable = {NoManifest}
  /\ published = {}
  /\ rooted = FALSE
  /\ spilled = {}
  /\ rpc = [r \in Readers |-> "idle"]
  /\ rgen = [r \in Readers |-> NoGen]

(***************************************************************************)
(* The lease.  A process that finds it taken returns ErrUpdateInProgress   *)
(* at once and changes nothing, which is a stuttering step.  An update is  *)
(* started only while an unused identifier is left (the bound).            *)
(***************************************************************************)

\* ensureLayout makes the directories that are not there, and syncs none.  The
\* data directory is one of them, and nothing later syncs the directory it is in.
EnsureLayout == layout' = IF layout = "missing" THEN "made" ELSE layout

AcquireUpdate(p, first) ==
  /\ pc[p] = "idle"
  /\ lease = NoProc
  /\ Unused # {}
  /\ lease' = p
  /\ Goto(p, first)
  /\ cand' = [cand EXCEPT ![p] = NoGen]
  /\ seen' = [seen EXCEPT ![p] = NoManifest]
  /\ result' = [result EXCEPT ![p] = "none"]
  /\ EnsureLayout
  /\ UNCHANGED <<zip, where, ready, flushed, anchored, dataVars, spilled, readerVars>>

Release(p) ==
  /\ pc[p] = "release"
  /\ lease' = NoProc
  /\ Goto(p, "idle")
  /\ UNCHANGED <<cand, seen, result, fileVars, dataVars, spilled, readerVars>>

(***************************************************************************)
(* gtfs update, up to Publish.                                             *)
(***************************************************************************)

\* Mutated form: the zip is renamed and its directory not synced.
DownloadUnsynced(p) ==
  /\ pc[p] = "download"
  /\ \/ zip' = p /\ Goto(p, "stage") /\ UNCHANGED result
     \/ zip' \in {zip, p} /\ Fail(p, "release")
  /\ UNCHANGED <<lease, cand, seen, where, ready, flushed, anchored, layout, dataVars, spilled, readerVars>>

\* Download replaces gtfs.zip and syncs the data directory, which makes the
\* layout durable too.  The sync may fail after the replacement, in which case
\* no deferred removal was registered yet.
Download(p) ==
  /\ pc[p] = "download"
  /\ \/ zip' = p /\ layout' = "durable" /\ Goto(p, "stage") /\ UNCHANGED result
     \/ zip' \in {zip, p} /\ Fail(p, "release") /\ UNCHANGED layout
  /\ UNCHANGED <<lease, cand, seen, where, ready, flushed, anchored, dataVars, spilled, readerVars>>

NewStaging(p) ==
  /\ pc[p] = "stage"
  /\ \/ \E g \in Unused :
          /\ where' = [where EXCEPT ![g] = "staging"]
          /\ cand' = [cand EXCEPT ![p] = g]
          /\ Goto(p, "ingest")
          /\ UNCHANGED result
     \/ Fail(p, "zip") /\ UNCHANGED <<where, cand>>
  /\ UNCHANGED <<lease, seen, zip, ready, flushed, anchored, layout, dataVars, spilled, readerVars>>

IngestGeneration(p) ==
  /\ pc[p] = "ingest"
  /\ \/ Goto(p, "prepare") /\ UNCHANGED result
     \/ Fail(p, "cleanup")
  /\ UNCHANGED <<lease, cand, seen, fileVars, dataVars, spilled, readerVars>>

(***************************************************************************)
(* Publish, one step per system call that another process, a crash or a    *)
(* power loss can fall between.                                            *)
(***************************************************************************)

\* Schema, dataset state, counts, integrity and checkpoint all hold, or the
\* candidate is refused.
PrepareForPublication(p) ==
  /\ pc[p] = "prepare"
  /\ \/ ready' = ready \cup {cand[p]} /\ Goto(p, "flush") /\ UNCHANGED result
     \/ Fail(p, "cleanup") /\ UNCHANGED ready
  /\ UNCHANGED <<lease, cand, seen, zip, where, flushed, anchored, layout, dataVars, spilled, readerVars>>

SyncFile(p) ==
  /\ pc[p] = "flush"
  /\ \/ flushed' = flushed \cup {cand[p]} /\ Goto(p, "install") /\ UNCHANGED result
     \/ Fail(p, "cleanup") /\ UNCHANGED flushed
  /\ UNCHANGED <<lease, cand, seen, zip, where, ready, anchored, layout, dataVars, spilled, readerVars>>

Install(p) ==
  /\ pc[p] = "install"
  /\ \/ /\ where[cand[p]] = "staging"
        /\ where' = [where EXCEPT ![cand[p]] = "generations"]
        /\ Goto(p, "seal")
        /\ UNCHANGED result
     \/ Fail(p, "cleanup") /\ UNCHANGED where
  /\ UNCHANGED <<lease, cand, seen, zip, ready, flushed, anchored, layout, dataVars, spilled, readerVars>>

\* Chmod 0400.
Seal(p) ==
  /\ pc[p] = "seal"
  /\ \/ Goto(p, "anchor") /\ UNCHANGED result
     \/ Fail(p, "discard")
  /\ UNCHANGED <<lease, cand, seen, fileVars, dataVars, spilled, readerVars>>

\* Mutated form: go on without the fsync.
SyncGenerationsSkipped(p) ==
  /\ pc[p] = "anchor"
  /\ Goto(p, "readOld")
  /\ UNCHANGED <<lease, cand, seen, result, fileVars, dataVars, spilled, readerVars>>

\* fsync of generations/ makes every entry and every removal in it durable.
SyncGenerations(p) ==
  /\ pc[p] = "anchor"
  /\ \/ /\ anchored' = {g \in Gens : where[g] = "generations"}
        /\ Goto(p, "readOld")
        /\ UNCHANGED result
     \/ Fail(p, "discard") /\ UNCHANGED anchored
  /\ UNCHANGED <<lease, cand, seen, zip, where, ready, flushed, layout, dataVars, spilled, readerVars>>

\* Mutated form: any read error counts as "no manifest".
ReadOldForgets(p) ==
  /\ pc[p] = "readOld"
  /\ \E m \in {manifest, NoManifest} : seen' = [seen EXCEPT ![p] = m]
  /\ Goto(p, "write")
  /\ UNCHANGED <<lease, cand, result, fileVars, dataVars, spilled, readerVars>>

\* The manifest being replaced is read for its current generation; one that
\* does not exist is fine, one that cannot be read is not.
ReadOld(p) ==
  /\ pc[p] = "readOld"
  /\ \/ seen' = [seen EXCEPT ![p] = manifest] /\ Goto(p, "write") /\ UNCHANGED result
     \/ Fail(p, "discard") /\ UNCHANGED seen
  /\ UNCHANGED <<lease, cand, fileVars, dataVars, spilled, readerVars>>

\* The rename of a synced temporary file over current.json is the commit
\* point: readers see it at once, a power loss may undo it until the data
\* directory is synced.
ReplaceManifest(m) ==
  /\ manifest' = m
  /\ recoverable' = recoverable \cup {m}
  /\ published' = published \cup {m.current}
  /\ UNCHANGED rooted

WriteManifest(p) ==
  /\ pc[p] = "write"
  /\ \/ /\ ReplaceManifest([current |-> cand[p], previous |-> seen[p].current])
        /\ Goto(p, "harden")
     \/ Goto(p, "readBack") /\ UNCHANGED dataVars
  /\ UNCHANGED <<lease, cand, seen, result, fileVars, spilled, readerVars>>

SyncManifest(p) ==
  /\ pc[p] = "harden"
  /\ \/ /\ recoverable' = {manifest} /\ layout' = "durable"
        /\ Goto(p, "cleanup")
        /\ result' = [result EXCEPT ![p] = "ok"]
     \/ Goto(p, "readBack") /\ UNCHANGED <<recoverable, layout, result>>
  /\ UNCHANGED <<lease, cand, seen, zip, where, ready, flushed, anchored, manifest, published,
                 rooted, spilled, readerVars>>

\* A failed write may have committed.  The pointer itself decides: it names
\* this candidate, it does not, or it cannot be read.
ReadBackOutcome(p, matches) ==
  \/ /\ matches
     /\ Goto(p, "cleanup")
     /\ result' = [result EXCEPT ![p] = "ok"]
     /\ UNCHANGED spilled
  \/ /\ ~matches
     /\ Fail(p, "discard")
     /\ UNCHANGED spilled
  \/ /\ Goto(p, "cleanup")
     /\ result' = [result EXCEPT ![p] = "ambiguous"]
     /\ spilled' = spilled \cup {cand[p]}

\* Mutated forms: clean up without reading back; report the error without
\* reading back.
ReadBackDiscards(p) ==
  /\ pc[p] = "readBack"
  /\ Fail(p, "discard")
  /\ UNCHANGED <<lease, cand, seen, fileVars, dataVars, spilled, readerVars>>

ReadBackGivesUp(p) ==
  /\ pc[p] = "readBack"
  /\ Fail(p, "cleanup")
  /\ UNCHANGED <<lease, cand, seen, fileVars, dataVars, spilled, readerVars>>

ReadBack(p) ==
  /\ pc[p] = "readBack"
  /\ ReadBackOutcome(p, manifest.current = cand[p])
  /\ UNCHANGED <<lease, cand, seen, fileVars, dataVars, readerVars>>

\* removeUnpublishedGeneration; the removal itself may fail.
DiscardTo(p, step) ==
  /\ pc[p] = "discard"
  /\ \/ where' = [where EXCEPT ![cand[p]] = "removed"] /\ UNCHANGED spilled
     \/ spilled' = spilled \cup {cand[p]} /\ UNCHANGED where
  /\ Fail(p, step)
  /\ UNCHANGED <<lease, cand, seen, zip, ready, flushed, anchored, layout, dataVars, readerVars>>

\* Mutated form: return without running the deferred calls.
DiscardReturns(p) == DiscardTo(p, "idle")

Discard(p) == DiscardTo(p, "cleanup")

(***************************************************************************)
(* The deferred calls of gtfs update, last one first: remove a candidate   *)
(* that is still a staging file, remove the zip unless --keep-zip, release *)
(* the lease.                                                              *)
(***************************************************************************)

\* Mutated forms: keep the staging file; release the lease before the zip is
\* removed.
CleanupKeepsStaging(p) ==
  /\ pc[p] = "cleanup"
  /\ Goto(p, "zip")
  /\ UNCHANGED <<lease, cand, seen, result, fileVars, dataVars, spilled, readerVars>>

CleanupReleasesFirst(p) ==
  /\ pc[p] = "cleanup"
  /\ Goto(p, "zip")
  /\ lease' = NoProc
  /\ UNCHANGED <<cand, seen, result, fileVars, dataVars, spilled, readerVars>>

Cleanup(p) ==
  /\ pc[p] = "cleanup"
  /\ IF where[cand[p]] = "staging"
     THEN \/ where' = [where EXCEPT ![cand[p]] = "removed"] /\ UNCHANGED spilled
          \/ spilled' = spilled \cup {cand[p]} /\ UNCHANGED where
     ELSE UNCHANGED <<where, spilled>>
  /\ Goto(p, "zip")
  /\ UNCHANGED <<lease, cand, seen, result, zip, ready, flushed, anchored, layout, dataVars, readerVars>>

RemoveZip(p) ==
  /\ pc[p] = "zip"
  /\ zip' \in {NoProc, zip}
  /\ Goto(p, "release")
  /\ UNCHANGED <<lease, cand, seen, result, where, ready, flushed, anchored, layout, dataVars, spilled, readerVars>>

(***************************************************************************)
(* Rollback: swap current and previous after opening the retained file.    *)
(* No read-back follows a failed write here.                               *)
(***************************************************************************)
RollbackRead(p) ==
  /\ pc[p] = "rbRead"
  /\ \/ /\ manifest.previous # NoGen
        /\ seen' = [seen EXCEPT ![p] = manifest]
        /\ Goto(p, "rbOpen")
        /\ UNCHANGED result
     \/ Fail(p, "release") /\ UNCHANGED seen
  /\ UNCHANGED <<lease, cand, fileVars, dataVars, spilled, readerVars>>

RollbackOpen(p) ==
  /\ pc[p] = "rbOpen"
  /\ \/ where[seen[p].previous] = "generations" /\ Goto(p, "rbWrite") /\ UNCHANGED result
     \/ Fail(p, "release")
  /\ UNCHANGED <<lease, cand, seen, fileVars, dataVars, spilled, readerVars>>

RollbackWrite(p) ==
  /\ pc[p] = "rbWrite"
  /\ \/ /\ ReplaceManifest([current |-> seen[p].previous, previous |-> seen[p].current])
        /\ Goto(p, "rbHarden")
        /\ UNCHANGED result
     \/ Fail(p, "release") /\ UNCHANGED dataVars
  /\ UNCHANGED <<lease, cand, seen, fileVars, spilled, readerVars>>

RollbackSync(p) ==
  /\ pc[p] = "rbHarden"
  /\ \/ /\ recoverable' = {manifest} /\ layout' = "durable"
        /\ Goto(p, "release")
        /\ result' = [result EXCEPT ![p] = "ok"]
     \/ Fail(p, "release") /\ UNCHANGED <<recoverable, layout>>
  /\ UNCHANGED <<lease, cand, seen, zip, where, ready, flushed, anchored, manifest, published,
                 rooted, spilled, readerVars>>

(***************************************************************************)
(* Readers: OpenCurrent resolves the manifest once, then opens the file it *)
(* names.  Without a manifest it returns ErrNoCurrentGeneration and does   *)
(* nothing.  An open file stays readable, so closing is the last step.     *)
(***************************************************************************)
\* Mutated form: resolve the pointer without the ErrNotExist check.
ReadPointerUnchecked(r) ==
  /\ rpc[r] = "idle"
  /\ rgen' = [rgen EXCEPT ![r] = manifest.current]
  /\ rpc' = [rpc EXCEPT ![r] = "opening"]
  /\ UNCHANGED <<procVars, fileVars, dataVars, spilled>>

ReadPointer(r) ==
  /\ rpc[r] = "idle"
  /\ manifest.current # NoGen
  /\ rgen' = [rgen EXCEPT ![r] = manifest.current]
  /\ rpc' = [rpc EXCEPT ![r] = "opening"]
  /\ UNCHANGED <<procVars, fileVars, dataVars, spilled>>

OpenGeneration(r) ==
  /\ rpc[r] = "opening"
  /\ rpc' = [rpc EXCEPT ![r] =
               IF where[rgen[r]] = "generations" /\ rgen[r] \in ready
               THEN "reading" ELSE "failed"]
  /\ UNCHANGED <<procVars, fileVars, dataVars, spilled, rgen>>

CloseStore(r) ==
  /\ rpc[r] \in {"reading", "failed"}
  /\ rpc' = [rpc EXCEPT ![r] = "idle"]
  /\ rgen' = [rgen EXCEPT ![r] = NoGen]
  /\ UNCHANGED <<procVars, fileVars, dataVars, spilled>>

(***************************************************************************)
(* Failures the code does not choose.                                      *)
(***************************************************************************)

\* The operating system drops the lease of a killed process.
Crash(p) ==
  /\ pc[p] # "idle"
  /\ lease' = IF lease = p THEN NoProc ELSE lease
  /\ Goto(p, "idle")
  /\ spilled' = spilled \cup ({cand[p]} \cap Gens)
  /\ UNCHANGED <<cand, seen, result, fileVars, dataVars, readerVars>>

\* Where a file may be found once power is back: directory changes that were
\* not synced may or may not have reached the disk.  Without generations/ there
\* is nothing left of what was in it, however often it was synced itself.
SurvivesAt(g, layoutKept) ==
  LET There == IF layoutKept THEN {"generations"} ELSE {"removed"}
  IN  CASE where[g] = "unused" -> {"unused"}
        [] where[g] = "staging" -> {"staging", "removed"}
        [] where[g] = "generations" -> There \cup IF g \in anchored THEN {} ELSE {"staging", "removed"}
        [] where[g] = "removed" -> {"staging", "removed"} \cup IF g \in anchored THEN There ELSE {}

\* Nobody works or reads any more.
MachineStops == /\ lease' = NoProc
                /\ pc' = [p \in Procs |-> "idle"]
                /\ rpc' = [r \in Readers |-> "idle"]
                /\ rgen' = [r \in Readers |-> NoGen]
                /\ UNCHANGED <<cand, seen, result>>

PowerLoss ==
  /\ MachineStops
  /\ \E w \in [Gens -> Places], layoutKept \in (IF layout = "made" THEN BOOLEAN ELSE {TRUE}) :
       /\ \A g \in Gens : w[g] \in SurvivesAt(g, layoutKept)
       /\ where' = w
       /\ anchored' = {g \in Gens : w[g] = "generations"}
       /\ layout' = CASE layout = "made" /\ ~layoutKept -> "missing"
                      [] layout = "made" /\ layoutKept -> "durable"
                      [] layout # "made" -> layout
  /\ ready' = ready \cap flushed
  /\ manifest' \in recoverable
  /\ recoverable' = {manifest'}
  /\ rooted' = TRUE
  /\ spilled' = spilled \cup (Gens \ (Unused \cup published))
  /\ UNCHANGED <<zip, flushed, published>>

\* The data directory's own entry was not on disk when the power failed: all that
\* was in it is gone, synced or not, and the next command makes a new one.
LoseDataDirectory ==
  /\ ~rooted
  /\ MachineStops
  /\ where' = [g \in Gens |-> IF g \in Unused THEN "unused" ELSE "removed"]
  /\ zip' = NoProc
  /\ layout' = "missing"
  /\ ready' = {} /\ flushed' = {} /\ anchored' = {}
  /\ manifest' = NoManifest
  /\ recoverable' = {NoManifest}
  /\ published' = {}
  /\ spilled' = {}
  /\ UNCHANGED rooted

(***************************************************************************)
(* The system.                                                             *)
(***************************************************************************)
Publish(p) == \/ PrepareForPublication(p) \/ SyncFile(p) \/ Install(p) \/ Seal(p)
              \/ SyncGenerations(p) \/ ReadOld(p) \/ WriteManifest(p) \/ SyncManifest(p)
              \/ ReadBack(p) \/ Discard(p)

Rollback(p) == RollbackRead(p) \/ RollbackOpen(p) \/ RollbackWrite(p) \/ RollbackSync(p)

ProcStep(p) == \/ Download(p) \/ NewStaging(p) \/ IngestGeneration(p)
               \/ Publish(p)
               \/ Cleanup(p) \/ RemoveZip(p)
               \/ Rollback(p)
               \/ Release(p)

ReaderStep(r) == ReadPointer(r) \/ OpenGeneration(r) \/ CloseStore(r)

Next == \/ \E p \in Procs : \/ AcquireUpdate(p, "download")
                            \/ AcquireUpdate(p, "rbRead")
                            \/ ProcStep(p)
                            \/ Crash(p)
        \/ \E r \in Readers : ReaderStep(r)
        \/ PowerLoss
        \/ LoseDataDirectory

Spec == Init /\ [][Next]_vars

\* A running process keeps running: every wait of an update is a bounded
\* network or disk operation.
FairSpec == Spec /\ \A p \in Procs : WF_vars(ProcStep(p))

(***************************************************************************)
(* Properties.                                                             *)
(***************************************************************************)

\* Every variable has its type; only a process that took the lease runs; a
\* process past NewStaging has a candidate; a reader past the manifest has a
\* generation to open (OpenCurrent returns before that when there is none).
TypeOK ==
  /\ lease \in Procs \cup {NoProc}
  /\ pc \in [Procs -> Steps]
  /\ cand \in [Procs -> Gens \cup {NoGen}]
  /\ seen \in [Procs -> Manifests]
  /\ result \in [Procs -> Results]
  /\ zip \in Procs \cup {NoProc}
  /\ where \in [Gens -> Places]
  /\ layout \in {"missing", "made", "durable"}
  /\ ready \subseteq Gens /\ flushed \subseteq Gens /\ anchored \subseteq Gens
  /\ manifest \in Manifests
  /\ recoverable \subseteq Manifests
  /\ published \subseteq Gens
  /\ rooted \in BOOLEAN
  /\ spilled \subseteq Gens
  /\ rpc \in [Readers -> {"idle", "opening", "reading", "failed"}]
  /\ rgen \in [Readers -> Gens \cup {NoGen}]
  /\ \A r \in Readers : rpc[r] # "idle" => rgen[r] \in Gens

\* A generation that readers can rely on whatever happens next: its file is
\* in generations/ with a durable entry, complete and flushed.
Solid(g) == /\ where[g] = "generations"
            /\ g \in ready \cap flushed \cap anchored

\* Whatever current.json says now, or may say after a power loss that leaves the
\* data directory, names a solid current generation, and the one it retains for
\* Rollback is solid too (Publish installs and syncs before it moves the pointer).
PointerIsSolid ==
  \A m \in recoverable \cup {manifest} :
    \A g \in {m.current, m.previous} \ {NoGen} : Solid(g)

\* A reader that has resolved current.json finds the file it names, however
\* many updates, rollbacks and failed publications pass in between.
ReaderNeverMisses == \A r \in Readers : rpc[r] # "failed"

\* Publish tells the truth: it returns nil only when current.json names its
\* candidate, and an error other than the ambiguous one only when it does
\* not (the read-back after a failed manifest write).
ReportMatchesPointer ==
  \A p \in Procs :
    /\ pc[p] \in {"cleanup", "zip"} /\ result[p] = "ok" => manifest.current = cand[p]
    /\ pc[p] \in {"cleanup", "zip"} /\ result[p] = "error" /\ cand[p] # NoGen
         => manifest.current # cand[p]

\* The zip an update ingests is the one it downloaded itself, although every
\* update uses the same path and removes it on the way out.
IngestsOwnDownload == \A p \in Procs : pc[p] = "ingest" => zip = p

\* Once no process is working, files on disk belong to generations that have
\* been published, or to updates that were killed or could not remove them:
\* a failed update leaves nothing of its own behind.
FailedUpdateLeavesNothing ==
  (\A p \in Procs : pc[p] = "idle") =>
    \A g \in Gens : where[g] \in {"staging", "generations"} => g \in published \cup spilled

\* The pointer behaves as DatasetPointer promises, for all the file-system
\* steps, failures and crashes in between.
Pointer == INSTANCE DatasetPointer WITH pointer <- manifest
PointerSpec == Pointer!Spec

\* No update, failure or crash keeps the lease for ever.
LeaseIsReleased == \A p \in Procs : (lease = p) ~> (lease # p)
=============================================================================
