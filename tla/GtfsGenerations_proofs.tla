----------------------- MODULE GtfsGenerations_proofs -----------------------
(***************************************************************************)
(* Proofs about GtfsGenerations for any number of processes, readers and   *)
(* generations.  The inductive invariant says three things that no safety  *)
(* property states by itself: a running process holds the lease, so only   *)
(* one runs; a candidate stays unpublished until the manifest names it;    *)
(* and a published generation is solid for good.                           *)
(***************************************************************************)
EXTENDS GtfsGenerations, TLAPS

USE NoProcAssumption, NoGenAssumption

(***************************************************************************)
(* The inductive invariant.                                                *)
(***************************************************************************)

\* The generations a pointer names have been published.
Names(m) == {m.current, m.previous} \ {NoGen}

PublishedInv ==
  /\ manifest \in recoverable
  /\ \A m \in recoverable : Names(m) \subseteq published
  /\ \A g \in published : Solid(g)

Working == {"ingest", "prepare", "flush", "install", "seal", "anchor", "readOld", "write",
            "harden", "readBack", "discard", "cleanup"}

\* What is published lies in a directory that cannot go away, and so does what
\* is worked on: the download has seen to that.
LayoutInv == /\ published # {} => layout = "durable"
             /\ \A p \in Procs : pc[p] \in {"stage"} \cup Working => layout = "durable"

\* What holds of the candidate of the process at each step of an update.
CandidateInv(p) ==
  /\ pc[p] \in Working => cand[p] \in Gens
  /\ pc[p] \in {"ingest", "prepare", "flush", "install"} => where[cand[p]] = "staging"
  /\ pc[p] \in {"seal", "anchor", "readOld", "write"} => where[cand[p]] = "generations"
  /\ pc[p] \in {"flush", "install", "seal", "anchor", "readOld", "write"} => cand[p] \in ready
  /\ pc[p] \in {"install", "seal", "anchor", "readOld", "write"} => cand[p] \in flushed
  /\ pc[p] \in {"readOld", "write"} => cand[p] \in anchored
  /\ pc[p] \in Working \ {"harden", "readBack", "cleanup"} => cand[p] \notin published
  /\ pc[p] = "harden" => manifest.current = cand[p]
  /\ pc[p] = "readBack" => manifest.current = cand[p] \/ cand[p] \notin published
  /\ pc[p] \in {"cleanup", "zip"} /\ result[p] = "ok" => manifest.current = cand[p]
  /\ pc[p] \in {"cleanup", "zip"} /\ result[p] = "error" => cand[p] \notin published
  /\ pc[p] = "cleanup" /\ where[cand[p]] = "generations" => cand[p] \in published \cup spilled

ProcInv(p) ==
  pc[p] # "idle" =>
    /\ lease = p
    /\ pc[p] \in {"stage", "ingest"} => zip = p
    /\ pc[p] \in {"download", "stage"} => cand[p] = NoGen
    /\ pc[p] \in {"write", "rbOpen", "rbWrite"} => seen[p] = manifest
    /\ pc[p] \in {"rbOpen", "rbWrite"} => seen[p].previous # NoGen
    /\ CandidateInv(p)

ReaderInv(r) == /\ rpc[r] # "idle" => rgen[r] \in published
                /\ rpc[r] # "failed"

\* Every file on disk is published, given up, or being worked on.
Accounted ==
  \A g \in Gens :
    where[g] \in {"staging", "generations"} =>
      \/ g \in published \cup spilled
      \/ \E p \in Procs : pc[p] \in Working /\ cand[p] = g

IInv == /\ TypeOK
        /\ PublishedInv
        /\ LayoutInv
        /\ \A p \in Procs : ProcInv(p)
        /\ \A r \in Readers : ReaderInv(r)
        /\ Accounted

-----------------------------------------------------------------------------

\* A process that is running keeps every other one idle.
LEMMA OnlyOneRuns ==
  ASSUME IInv, NEW p \in Procs, pc[p] # "idle", NEW q \in Procs, q # p
  PROVE  pc[q] = "idle"
  BY DEF IInv, ProcInv

LEMMA InitIInv == Init => IInv
  <1> SUFFICES ASSUME Init PROVE IInv
    OBVIOUS
  <1>1. TypeOK
    <2>1. rooted \in BOOLEAN
      BY DEF Init
    <2>2. NoManifest \in Manifests
      BY DEF NoManifest, Manifests
    <2> QED BY <2>1, <2>2 DEF Init, TypeOK, Steps, Places, Results
  <1>2. PublishedInv /\ LayoutInv
    BY DEF Init, PublishedInv, LayoutInv, Working, Names, NoManifest
  <1>3. (\A p \in Procs : ProcInv(p)) /\ (\A r \in Readers : ReaderInv(r)) /\ Accounted
    BY DEF Init, ProcInv, ReaderInv, Accounted
  <1> QED BY <1>1, <1>2, <1>3 DEF IInv

LEMMA DownloadStep ==
  ASSUME IInv, NEW p \in Procs, Download(p) PROVE IInv'
  <1> USE DEF Download, Goto, Fail, procVars, fileVars, dataVars, readerVars
  <1>1. TypeOK'
    BY DEF IInv, TypeOK, Steps, UpdateSteps, RollbackSteps, Results, Places, Manifests
  <1>2. PublishedInv'
    BY DEF IInv, PublishedInv, Names, Solid, TypeOK
  <1>3. ASSUME NEW q \in Procs PROVE ProcInv(q)'
    BY <1>3, OnlyOneRuns DEF IInv, ProcInv, CandidateInv, TypeOK, Working
  <1>4. \A r \in Readers : ReaderInv(r)'
    BY DEF IInv, ReaderInv
  <1>5. Accounted'
    BY DEF IInv, Accounted, TypeOK, Working
  <1>6. LayoutInv'
    BY DEF IInv, LayoutInv, TypeOK, Working
  <1> QED BY <1>1, <1>2, <1>3, <1>4, <1>5, <1>6 DEF IInv

LEMMA NewStagingStep ==
  ASSUME IInv, NEW p \in Procs, NewStaging(p) PROVE IInv'
  <1> USE DEF NewStaging, Unused, Goto, Fail, procVars, fileVars, dataVars, readerVars
  <1>1. TypeOK'
    BY DEF IInv, TypeOK, Steps, UpdateSteps, RollbackSteps, Results, Places, ProcInv, CandidateInv, Working
  <1>2. PublishedInv'
    BY DEF IInv, PublishedInv, Names, Solid, TypeOK, Places
  <1>3. ASSUME NEW q \in Procs PROVE ProcInv(q)'
    <2>1. CASE q # p
      BY <2>1, OnlyOneRuns DEF IInv, ProcInv, TypeOK
    <2>2. CASE q = p
      <3>1. \A g \in Unused : g \notin published
        BY DEF IInv, PublishedInv, Solid
      <3> QED BY <2>2, <3>1 DEF IInv, ProcInv, CandidateInv, TypeOK, Working
    <2> QED BY <2>1, <2>2
  <1>4. \A r \in Readers : ReaderInv(r)'
    BY DEF IInv, ReaderInv
  <1>5. Accounted'
    BY DEF IInv, Accounted, TypeOK, Working
  <1>6. LayoutInv'
    BY DEF IInv, LayoutInv, TypeOK, Working
  <1> QED BY <1>1, <1>2, <1>3, <1>4, <1>5, <1>6 DEF IInv

LEMMA IngestGenerationStep ==
  ASSUME IInv, NEW p \in Procs, IngestGeneration(p) PROVE IInv'
  <1> USE DEF IngestGeneration, Goto, Fail, procVars, fileVars, dataVars, readerVars
  <1>1. TypeOK'
    BY DEF IInv, TypeOK, Steps, UpdateSteps, RollbackSteps, Results, Places, Manifests
  <1>2. PublishedInv'
    BY DEF IInv, PublishedInv, Names, Solid, TypeOK
  <1>3. ASSUME NEW q \in Procs PROVE ProcInv(q)'
    BY <1>3, OnlyOneRuns DEF IInv, ProcInv, CandidateInv, TypeOK, Working
  <1>4. \A r \in Readers : ReaderInv(r)'
    BY DEF IInv, ReaderInv
  <1>5. Accounted'
    BY DEF IInv, Accounted, TypeOK, Working
  <1>6. LayoutInv'
    BY DEF IInv, LayoutInv, TypeOK, Working
  <1> QED BY <1>1, <1>2, <1>3, <1>4, <1>5, <1>6 DEF IInv

LEMMA PrepareForPublicationStep ==
  ASSUME IInv, NEW p \in Procs, PrepareForPublication(p) PROVE IInv'
  <1> USE DEF PrepareForPublication, Goto, Fail, procVars, fileVars, dataVars, readerVars
  <1>1. TypeOK'
    BY DEF IInv, TypeOK, Steps, UpdateSteps, RollbackSteps, Results, Places, ProcInv, CandidateInv, Working
  <1>2. PublishedInv'
    BY DEF IInv, PublishedInv, Names, Solid, TypeOK
  <1>3. ASSUME NEW q \in Procs PROVE ProcInv(q)'
    BY <1>3, OnlyOneRuns DEF IInv, ProcInv, CandidateInv, TypeOK, Working
  <1>4. \A r \in Readers : ReaderInv(r)'
    BY DEF IInv, ReaderInv
  <1>5. Accounted'
    BY DEF IInv, Accounted, TypeOK, Working
  <1>6. LayoutInv'
    BY DEF IInv, LayoutInv, TypeOK, Working
  <1> QED BY <1>1, <1>2, <1>3, <1>4, <1>5, <1>6 DEF IInv

LEMMA SyncFileStep ==
  ASSUME IInv, NEW p \in Procs, SyncFile(p) PROVE IInv'
  <1> USE DEF SyncFile, Goto, Fail, procVars, fileVars, dataVars, readerVars
  <1>1. TypeOK'
    BY DEF IInv, TypeOK, Steps, UpdateSteps, RollbackSteps, Results, Places, ProcInv, CandidateInv, Working
  <1>2. PublishedInv'
    BY DEF IInv, PublishedInv, Names, Solid, TypeOK
  <1>3. ASSUME NEW q \in Procs PROVE ProcInv(q)'
    BY <1>3, OnlyOneRuns DEF IInv, ProcInv, CandidateInv, TypeOK, Working
  <1>4. \A r \in Readers : ReaderInv(r)'
    BY DEF IInv, ReaderInv
  <1>5. Accounted'
    BY DEF IInv, Accounted, TypeOK, Working
  <1>6. LayoutInv'
    BY DEF IInv, LayoutInv, TypeOK, Working
  <1> QED BY <1>1, <1>2, <1>3, <1>4, <1>5, <1>6 DEF IInv

LEMMA InstallStep ==
  ASSUME IInv, NEW p \in Procs, Install(p) PROVE IInv'
  <1> USE DEF Install, Goto, Fail, procVars, fileVars, dataVars, readerVars
  <1>1. TypeOK'
    BY DEF IInv, TypeOK, Steps, UpdateSteps, RollbackSteps, Results, Places, ProcInv, CandidateInv, Working
  <1>2. PublishedInv'
    BY DEF IInv, PublishedInv, Names, Solid, TypeOK, ProcInv, CandidateInv, Working
  <1>3. ASSUME NEW q \in Procs PROVE ProcInv(q)'
    BY <1>3, OnlyOneRuns DEF IInv, ProcInv, CandidateInv, TypeOK, Working
  <1>4. \A r \in Readers : ReaderInv(r)'
    BY DEF IInv, ReaderInv
  <1>5. Accounted'
    BY DEF IInv, Accounted, TypeOK, Working
  <1>6. LayoutInv'
    BY DEF IInv, LayoutInv, TypeOK, Working
  <1> QED BY <1>1, <1>2, <1>3, <1>4, <1>5, <1>6 DEF IInv

LEMMA SealStep ==
  ASSUME IInv, NEW p \in Procs, Seal(p) PROVE IInv'
  <1> USE DEF Seal, Goto, Fail, procVars, fileVars, dataVars, readerVars
  <1>1. TypeOK'
    BY SMTT(60) DEF IInv, TypeOK, Steps, UpdateSteps, RollbackSteps, Results, Places, Manifests
  <1>2. PublishedInv'
    BY DEF IInv, PublishedInv, Names, Solid, TypeOK
  <1>3. ASSUME NEW q \in Procs PROVE ProcInv(q)'
    BY <1>3, OnlyOneRuns DEF IInv, ProcInv, CandidateInv, TypeOK, Working
  <1>4. \A r \in Readers : ReaderInv(r)'
    BY DEF IInv, ReaderInv
  <1>5. Accounted'
    BY DEF IInv, Accounted, TypeOK, Working
  <1>6. LayoutInv'
    BY DEF IInv, LayoutInv, TypeOK, Working
  <1> QED BY <1>1, <1>2, <1>3, <1>4, <1>5, <1>6 DEF IInv

LEMMA SyncGenerationsStep ==
  ASSUME IInv, NEW p \in Procs, SyncGenerations(p) PROVE IInv'
  <1> USE DEF SyncGenerations, Goto, Fail, procVars, fileVars, dataVars, readerVars
  <1>1. TypeOK'
    BY SMTT(30) DEF IInv, TypeOK, Steps, UpdateSteps, RollbackSteps, Results, Places, Manifests
  <1>2. PublishedInv'
    BY DEF IInv, PublishedInv, Names, Solid, TypeOK
  <1>3. ASSUME NEW q \in Procs PROVE ProcInv(q)'
    BY <1>3, OnlyOneRuns DEF IInv, ProcInv, CandidateInv, TypeOK, Working
  <1>4. \A r \in Readers : ReaderInv(r)'
    BY DEF IInv, ReaderInv
  <1>5. Accounted'
    BY DEF IInv, Accounted, TypeOK, Working
  <1>6. LayoutInv'
    BY DEF IInv, LayoutInv, TypeOK, Working
  <1> QED BY <1>1, <1>2, <1>3, <1>4, <1>5, <1>6 DEF IInv

LEMMA ReadOldStep ==
  ASSUME IInv, NEW p \in Procs, ReadOld(p) PROVE IInv'
  <1> USE DEF ReadOld, Goto, Fail, procVars, fileVars, dataVars, readerVars
  <1>1. TypeOK'
    BY DEF IInv, TypeOK, Steps, UpdateSteps, RollbackSteps, Results, Places
  <1>2. PublishedInv'
    BY DEF IInv, PublishedInv, Names, Solid, TypeOK
  <1>3. ASSUME NEW q \in Procs PROVE ProcInv(q)'
    BY <1>3, OnlyOneRuns DEF IInv, ProcInv, CandidateInv, TypeOK, Working
  <1>4. \A r \in Readers : ReaderInv(r)'
    BY DEF IInv, ReaderInv
  <1>5. Accounted'
    BY DEF IInv, Accounted, TypeOK, Working
  <1>6. LayoutInv'
    BY DEF IInv, LayoutInv, TypeOK, Working
  <1> QED BY <1>1, <1>2, <1>3, <1>4, <1>5, <1>6 DEF IInv

LEMMA WriteManifestStep ==
  ASSUME IInv, NEW p \in Procs, WriteManifest(p) PROVE IInv'
  <1> USE DEF WriteManifest, ReplaceManifest, Goto, Fail, procVars, fileVars, dataVars, readerVars
  <1>0. manifest' \in Manifests
    BY DEF IInv, TypeOK, ProcInv, CandidateInv, Working, Manifests
  <1>1. TypeOK'
    BY <1>0 DEF IInv, TypeOK, Steps, UpdateSteps, RollbackSteps, Results, Places, ProcInv, CandidateInv, Working
  <1>2. PublishedInv'
    BY DEF IInv, PublishedInv, Names, Solid, TypeOK, ProcInv, CandidateInv, Working
  <1>3. ASSUME NEW q \in Procs PROVE ProcInv(q)'
    BY <1>3, OnlyOneRuns DEF IInv, ProcInv, CandidateInv, TypeOK, Working
  <1>4. \A r \in Readers : ReaderInv(r)'
    BY DEF IInv, ReaderInv
  <1>5. Accounted'
    BY DEF IInv, Accounted, TypeOK, Working
  <1>6. LayoutInv'
    BY DEF IInv, LayoutInv, TypeOK, Working
  <1> QED BY <1>1, <1>2, <1>3, <1>4, <1>5, <1>6 DEF IInv

LEMMA SyncManifestStep ==
  ASSUME IInv, NEW p \in Procs, SyncManifest(p) PROVE IInv'
  <1> USE DEF SyncManifest, Goto, Fail, procVars, fileVars, dataVars, readerVars
  <1>1. TypeOK'
    BY DEF IInv, TypeOK, Steps, UpdateSteps, RollbackSteps, Results, Places, Manifests
  <1>2. PublishedInv'
    BY DEF IInv, PublishedInv, Names, Solid, TypeOK
  <1>3. ASSUME NEW q \in Procs PROVE ProcInv(q)'
    BY <1>3, OnlyOneRuns DEF IInv, ProcInv, CandidateInv, TypeOK, Working, PublishedInv, Names, Manifests
  <1>4. \A r \in Readers : ReaderInv(r)'
    BY DEF IInv, ReaderInv
  <1>5. Accounted'
    BY DEF IInv, Accounted, TypeOK, Working, ProcInv, CandidateInv
  <1>6. LayoutInv'
    BY DEF IInv, LayoutInv, TypeOK, Working
  <1> QED BY <1>1, <1>2, <1>3, <1>4, <1>5, <1>6 DEF IInv

LEMMA ReadBackStep ==
  ASSUME IInv, NEW p \in Procs, ReadBack(p) PROVE IInv'
  <1> USE DEF ReadBack, ReadBackOutcome, Goto, Fail, procVars, fileVars, dataVars, readerVars
  <1>1. TypeOK'
    BY DEF IInv, TypeOK, Steps, UpdateSteps, RollbackSteps, Results, Places, ProcInv, CandidateInv, Working
  <1>2. PublishedInv'
    BY DEF IInv, PublishedInv, Names, Solid, TypeOK
  <1>3. ASSUME NEW q \in Procs PROVE ProcInv(q)'
    BY <1>3, OnlyOneRuns DEF IInv, ProcInv, CandidateInv, TypeOK, Working, PublishedInv, Names, Manifests
  <1>4. \A r \in Readers : ReaderInv(r)'
    BY DEF IInv, ReaderInv
  <1>5. Accounted'
    BY DEF IInv, Accounted, TypeOK, Working, ProcInv, CandidateInv
  <1>6. LayoutInv'
    BY DEF IInv, LayoutInv, TypeOK, Working
  <1> QED BY <1>1, <1>2, <1>3, <1>4, <1>5, <1>6 DEF IInv

LEMMA DiscardStep ==
  ASSUME IInv, NEW p \in Procs, Discard(p) PROVE IInv'
  <1> USE DEF Discard, DiscardTo, Goto, Fail, procVars, fileVars, dataVars, readerVars
  <1>1. TypeOK'
    BY DEF IInv, TypeOK, Steps, UpdateSteps, RollbackSteps, Results, Places, ProcInv, CandidateInv, Working
  <1>2. PublishedInv'
    BY DEF IInv, PublishedInv, Names, Solid, TypeOK, ProcInv, CandidateInv, Working
  <1>3. ASSUME NEW q \in Procs PROVE ProcInv(q)'
    BY <1>3, OnlyOneRuns DEF IInv, ProcInv, CandidateInv, TypeOK, Working
  <1>4. \A r \in Readers : ReaderInv(r)'
    BY DEF IInv, ReaderInv
  <1>5. Accounted'
    BY DEF IInv, Accounted, TypeOK, Working, ProcInv, CandidateInv
  <1>6. LayoutInv'
    BY DEF IInv, LayoutInv, TypeOK, Working
  <1> QED BY <1>1, <1>2, <1>3, <1>4, <1>5, <1>6 DEF IInv

LEMMA CleanupStep ==
  ASSUME IInv, NEW p \in Procs, Cleanup(p) PROVE IInv'
  <1> USE DEF Cleanup, Goto, Fail, procVars, fileVars, dataVars, readerVars
  <1>1. TypeOK'
    BY DEF IInv, TypeOK, Steps, UpdateSteps, RollbackSteps, Results, Places, ProcInv, CandidateInv, Working
  <1>2. PublishedInv'
    BY DEF IInv, PublishedInv, Names, Solid, TypeOK, ProcInv, CandidateInv, Working
  <1>3. ASSUME NEW q \in Procs PROVE ProcInv(q)'
    BY <1>3, OnlyOneRuns DEF IInv, ProcInv, CandidateInv, TypeOK, Working
  <1>4. \A r \in Readers : ReaderInv(r)'
    BY DEF IInv, ReaderInv
  <1>5. Accounted'
    BY DEF IInv, Accounted, TypeOK, Working, ProcInv, CandidateInv
  <1>6. LayoutInv'
    BY DEF IInv, LayoutInv, TypeOK, Working
  <1> QED BY <1>1, <1>2, <1>3, <1>4, <1>5, <1>6 DEF IInv

LEMMA RemoveZipStep ==
  ASSUME IInv, NEW p \in Procs, RemoveZip(p) PROVE IInv'
  <1> USE DEF RemoveZip, Goto, Fail, procVars, fileVars, dataVars, readerVars
  <1>1. TypeOK'
    BY DEF IInv, TypeOK, Steps, UpdateSteps, RollbackSteps, Results, Places, Manifests
  <1>2. PublishedInv'
    BY DEF IInv, PublishedInv, Names, Solid, TypeOK
  <1>3. ASSUME NEW q \in Procs PROVE ProcInv(q)'
    BY <1>3, OnlyOneRuns DEF IInv, ProcInv, CandidateInv, TypeOK, Working
  <1>4. \A r \in Readers : ReaderInv(r)'
    BY DEF IInv, ReaderInv
  <1>5. Accounted'
    BY DEF IInv, Accounted, TypeOK, Working
  <1>6. LayoutInv'
    BY DEF IInv, LayoutInv, TypeOK, Working
  <1> QED BY <1>1, <1>2, <1>3, <1>4, <1>5, <1>6 DEF IInv

LEMMA RollbackReadStep ==
  ASSUME IInv, NEW p \in Procs, RollbackRead(p) PROVE IInv'
  <1> USE DEF RollbackRead, Goto, Fail, procVars, fileVars, dataVars, readerVars
  <1>1. TypeOK'
    BY DEF IInv, TypeOK, Steps, UpdateSteps, RollbackSteps, Results, Places
  <1>2. PublishedInv'
    BY DEF IInv, PublishedInv, Names, Solid, TypeOK
  <1>3. ASSUME NEW q \in Procs PROVE ProcInv(q)'
    BY <1>3, OnlyOneRuns DEF IInv, ProcInv, CandidateInv, TypeOK, Working
  <1>4. \A r \in Readers : ReaderInv(r)'
    BY DEF IInv, ReaderInv
  <1>5. Accounted'
    BY DEF IInv, Accounted, TypeOK, Working
  <1>6. LayoutInv'
    BY DEF IInv, LayoutInv, TypeOK, Working
  <1> QED BY <1>1, <1>2, <1>3, <1>4, <1>5, <1>6 DEF IInv

LEMMA RollbackOpenStep ==
  ASSUME IInv, NEW p \in Procs, RollbackOpen(p) PROVE IInv'
  <1> USE DEF RollbackOpen, Goto, Fail, procVars, fileVars, dataVars, readerVars
  <1>1. TypeOK'
    BY DEF IInv, TypeOK, Steps, UpdateSteps, RollbackSteps, Results, Places, Manifests
  <1>2. PublishedInv'
    BY DEF IInv, PublishedInv, Names, Solid, TypeOK
  <1>3. ASSUME NEW q \in Procs PROVE ProcInv(q)'
    BY <1>3, OnlyOneRuns DEF IInv, ProcInv, CandidateInv, TypeOK, Working
  <1>4. \A r \in Readers : ReaderInv(r)'
    BY DEF IInv, ReaderInv
  <1>5. Accounted'
    BY DEF IInv, Accounted, TypeOK, Working
  <1>6. LayoutInv'
    BY DEF IInv, LayoutInv, TypeOK, Working
  <1> QED BY <1>1, <1>2, <1>3, <1>4, <1>5, <1>6 DEF IInv

LEMMA RollbackWriteStep ==
  ASSUME IInv, NEW p \in Procs, RollbackWrite(p) PROVE IInv'
  <1> USE DEF RollbackWrite, ReplaceManifest, Goto, Fail, procVars, fileVars, dataVars, readerVars
  <1>a. seen[p].previous \in Gens
    BY DEF IInv, TypeOK, ProcInv, Manifests
  <1>0. manifest' \in Manifests
    BY DEF IInv, TypeOK, ProcInv, CandidateInv, Working, Manifests
  <1>1. TypeOK'
    BY <1>0, <1>a DEF IInv, TypeOK, Steps, UpdateSteps, RollbackSteps, Results, Places
  <1>2. PublishedInv'
    BY DEF IInv, PublishedInv, Names, Solid, TypeOK, ProcInv, CandidateInv
  <1>3. ASSUME NEW q \in Procs PROVE ProcInv(q)'
    BY <1>3, OnlyOneRuns DEF IInv, ProcInv, CandidateInv, TypeOK, Working
  <1>4. \A r \in Readers : ReaderInv(r)'
    BY DEF IInv, ReaderInv
  <1>5. Accounted'
    BY DEF IInv, Accounted, TypeOK, Working
  <1>6. LayoutInv'
    BY <1>a DEF IInv, LayoutInv, TypeOK, Working, PublishedInv, Names, ProcInv
  <1> QED BY <1>1, <1>2, <1>3, <1>4, <1>5, <1>6 DEF IInv

LEMMA RollbackSyncStep ==
  ASSUME IInv, NEW p \in Procs, RollbackSync(p) PROVE IInv'
  <1> USE DEF RollbackSync, Goto, Fail, procVars, fileVars, dataVars, readerVars
  <1>1. TypeOK'
    BY DEF IInv, TypeOK, Steps, UpdateSteps, RollbackSteps, Results, Places, Manifests
  <1>2. PublishedInv'
    BY DEF IInv, PublishedInv, Names, Solid, TypeOK
  <1>3. ASSUME NEW q \in Procs PROVE ProcInv(q)'
    BY <1>3, OnlyOneRuns DEF IInv, ProcInv, CandidateInv, TypeOK, Working, PublishedInv, Names, Manifests
  <1>4. \A r \in Readers : ReaderInv(r)'
    BY DEF IInv, ReaderInv
  <1>5. Accounted'
    BY DEF IInv, Accounted, TypeOK, Working
  <1>6. LayoutInv'
    BY DEF IInv, LayoutInv, TypeOK, Working
  <1> QED BY <1>1, <1>2, <1>3, <1>4, <1>5, <1>6 DEF IInv

LEMMA ReleaseStep ==
  ASSUME IInv, NEW p \in Procs, Release(p) PROVE IInv'
  <1> USE DEF Release, Goto, Fail, procVars, fileVars, dataVars, readerVars
  <1>1. TypeOK'
    BY DEF IInv, TypeOK, Steps, UpdateSteps, RollbackSteps, Results, Places, Manifests
  <1>2. PublishedInv'
    BY DEF IInv, PublishedInv, Names, Solid, TypeOK
  <1>3. ASSUME NEW q \in Procs PROVE ProcInv(q)'
    BY <1>3, OnlyOneRuns DEF IInv, ProcInv, CandidateInv, TypeOK, Working
  <1>4. \A r \in Readers : ReaderInv(r)'
    BY DEF IInv, ReaderInv
  <1>5. Accounted'
    BY DEF IInv, Accounted, TypeOK, Working
  <1>6. LayoutInv'
    BY DEF IInv, LayoutInv, TypeOK, Working
  <1> QED BY <1>1, <1>2, <1>3, <1>4, <1>5, <1>6 DEF IInv

LEMMA CrashStep ==
  ASSUME IInv, NEW p \in Procs, Crash(p) PROVE IInv'
  <1> USE DEF Crash, Goto, Fail, procVars, fileVars, dataVars, readerVars
  <1>1. TypeOK'
    BY DEF IInv, TypeOK, Steps, UpdateSteps, RollbackSteps, Results, Places, Manifests
  <1>2. PublishedInv'
    BY DEF IInv, PublishedInv, Names, Solid, TypeOK
  <1>3. ASSUME NEW q \in Procs PROVE ProcInv(q)'
    BY <1>3, OnlyOneRuns DEF IInv, ProcInv, CandidateInv, TypeOK, Working
  <1>4. \A r \in Readers : ReaderInv(r)'
    BY DEF IInv, ReaderInv
  <1>5. Accounted'
    BY DEF IInv, Accounted, TypeOK, Working
  <1>6. LayoutInv'
    BY DEF IInv, LayoutInv, TypeOK, Working
  <1> QED BY <1>1, <1>2, <1>3, <1>4, <1>5, <1>6 DEF IInv

LEMMA AcquireStep ==
  ASSUME IInv, NEW p \in Procs, NEW first \in {"download", "rbRead"}, AcquireUpdate(p, first) PROVE IInv'
  <1> USE DEF AcquireUpdate, EnsureLayout, Goto, Fail, procVars, fileVars, dataVars, readerVars
  <1>1. TypeOK'
    BY DEF IInv, TypeOK, Steps, UpdateSteps, RollbackSteps, Results, NoManifest, Manifests, Unused
  <1>2. PublishedInv'
    BY DEF IInv, PublishedInv, Names, Solid, TypeOK
  <1>3. ASSUME NEW q \in Procs PROVE ProcInv(q)'
    BY <1>3, OnlyOneRuns DEF IInv, ProcInv, CandidateInv, TypeOK, Working
  <1>4. \A r \in Readers : ReaderInv(r)'
    BY DEF IInv, ReaderInv
  <1>5. Accounted'
    BY DEF IInv, Accounted, TypeOK, Working
  <1>6. LayoutInv'
    BY DEF IInv, LayoutInv, TypeOK, Working
  <1> QED BY <1>1, <1>2, <1>3, <1>4, <1>5, <1>6 DEF IInv

LEMMA ReadPointerStep ==
  ASSUME IInv, NEW r \in Readers, ReadPointer(r) PROVE IInv'
  <1> USE DEF ReadPointer, Goto, Fail, procVars, fileVars, dataVars, readerVars
  <1>1. TypeOK'
    BY DEF IInv, TypeOK, Steps, UpdateSteps, RollbackSteps, Results, Places, Manifests
  <1>2. PublishedInv'
    BY DEF IInv, PublishedInv, Names, Solid, TypeOK
  <1>3. ASSUME NEW q \in Procs PROVE ProcInv(q)'
    BY <1>3 DEF IInv, ProcInv, CandidateInv, TypeOK, Working
  <1>4. \A s \in Readers : ReaderInv(s)'
    BY DEF IInv, ReaderInv, PublishedInv, Names, Solid, TypeOK
  <1>5. Accounted'
    BY DEF IInv, Accounted, TypeOK, Working
  <1>6. LayoutInv'
    BY DEF IInv, LayoutInv, TypeOK, Working
  <1> QED BY <1>1, <1>2, <1>3, <1>4, <1>5, <1>6 DEF IInv

LEMMA OpenGenerationStep ==
  ASSUME IInv, NEW r \in Readers, OpenGeneration(r) PROVE IInv'
  <1> USE DEF OpenGeneration, Goto, Fail, procVars, fileVars, dataVars, readerVars
  <1>1. TypeOK'
    BY DEF IInv, TypeOK, Steps, UpdateSteps, RollbackSteps, Results, Places, Manifests
  <1>2. PublishedInv'
    BY DEF IInv, PublishedInv, Names, Solid, TypeOK
  <1>3. ASSUME NEW q \in Procs PROVE ProcInv(q)'
    BY <1>3 DEF IInv, ProcInv, CandidateInv, TypeOK, Working
  <1>4. \A s \in Readers : ReaderInv(s)'
    BY DEF IInv, ReaderInv, PublishedInv, Names, Solid, TypeOK
  <1>5. Accounted'
    BY DEF IInv, Accounted, TypeOK, Working
  <1>6. LayoutInv'
    BY DEF IInv, LayoutInv, TypeOK, Working
  <1> QED BY <1>1, <1>2, <1>3, <1>4, <1>5, <1>6 DEF IInv

LEMMA CloseStoreStep ==
  ASSUME IInv, NEW r \in Readers, CloseStore(r) PROVE IInv'
  <1> USE DEF CloseStore, Goto, Fail, procVars, fileVars, dataVars, readerVars
  <1>1. TypeOK'
    BY DEF IInv, TypeOK, Steps, UpdateSteps, RollbackSteps, Results, Places, Manifests
  <1>2. PublishedInv'
    BY DEF IInv, PublishedInv, Names, Solid, TypeOK
  <1>3. ASSUME NEW q \in Procs PROVE ProcInv(q)'
    BY <1>3 DEF IInv, ProcInv, CandidateInv, TypeOK, Working
  <1>4. \A s \in Readers : ReaderInv(s)'
    BY DEF IInv, ReaderInv, PublishedInv, Names, Solid, TypeOK
  <1>5. Accounted'
    BY DEF IInv, Accounted, TypeOK, Working
  <1>6. LayoutInv'
    BY DEF IInv, LayoutInv, TypeOK, Working
  <1> QED BY <1>1, <1>2, <1>3, <1>4, <1>5, <1>6 DEF IInv

LEMMA PowerLossStep ==
  ASSUME IInv, PowerLoss PROVE IInv'
  <1> USE DEF PowerLoss, MachineStops, SurvivesAt, Unused, Goto, Fail, procVars, fileVars, dataVars, readerVars
  <1>1. TypeOK'
    BY DEF IInv, TypeOK, Steps, UpdateSteps, RollbackSteps, Results, Places, Manifests
  <1>2. PublishedInv'
    <2>1. ASSUME NEW g \in published PROVE Solid(g)'
      <3>1. layout = "durable" /\ Solid(g) /\ g \in Gens
        BY DEF IInv, LayoutInv, PublishedInv, TypeOK
      <3>2. where'[g] \in SurvivesAt(g, TRUE) /\ anchored' = {x \in Gens : where'[x] = "generations"}
        BY <3>1
      <3>3. where'[g] = "generations"
        BY <3>1, <3>2 DEF Solid
      <3> QED BY <3>1, <3>2, <3>3 DEF Solid
    <2> QED BY <2>1 DEF IInv, PublishedInv, Names, TypeOK
  <1>3. ASSUME NEW q \in Procs PROVE ProcInv(q)'
    BY <1>3 DEF IInv, ProcInv, CandidateInv, TypeOK, Working
  <1>4. \A r \in Readers : ReaderInv(r)'
    BY DEF IInv, ReaderInv
  <1>5. Accounted'
    BY DEF IInv, Accounted, TypeOK, Working
  <1>6. LayoutInv'
    BY DEF IInv, LayoutInv, TypeOK, Working
  <1> QED BY <1>1, <1>2, <1>3, <1>4, <1>5, <1>6 DEF IInv

\* With the data directory goes everything the invariant speaks of.
LEMMA LoseDataDirectoryStep ==
  ASSUME IInv, LoseDataDirectory PROVE IInv'
  <1> USE DEF LoseDataDirectory, MachineStops
  <1>1. TypeOK'
    <2>1. pc' \in [Procs -> Steps] /\ rpc' \in [Readers -> {"idle", "opening", "reading", "failed"}]
      BY DEF Steps
    <2>2. where' \in [Gens -> Places] /\ NoManifest \in Manifests
      BY DEF Places, NoManifest, Manifests
    <2> QED BY <2>1, <2>2 DEF IInv, TypeOK
  <1>2. PublishedInv'
    BY DEF PublishedInv, Names, NoManifest
  <1>3. ASSUME NEW q \in Procs PROVE ProcInv(q)'
    BY DEF ProcInv
  <1>4. \A r \in Readers : ReaderInv(r)'
    BY DEF ReaderInv
  <1>5. Accounted'
    BY DEF Accounted
  <1>6. LayoutInv'
    BY DEF LayoutInv, Working
  <1> QED BY <1>1, <1>2, <1>3, <1>4, <1>5, <1>6 DEF IInv

-----------------------------------------------------------------------------

LEMMA NextIInv == IInv /\ [Next]_vars => IInv'
  <1> SUFFICES ASSUME IInv, [Next]_vars PROVE IInv'
    OBVIOUS
  <1>1. CASE UNCHANGED vars
    BY <1>1 DEF vars, procVars, fileVars, dataVars, readerVars, IInv, TypeOK, PublishedInv,
       LayoutInv, Names, Solid, ProcInv, CandidateInv, ReaderInv, Accounted
  <1>2. ASSUME NEW p \in Procs, ProcStep(p) PROVE IInv'
    <2>1. CASE Publish(p)
      BY <2>1, PrepareForPublicationStep, SyncFileStep, InstallStep, SealStep,
         SyncGenerationsStep, ReadOldStep, WriteManifestStep, SyncManifestStep,
         ReadBackStep, DiscardStep DEF Publish
    <2>2. CASE Rollback(p)
      BY <2>2, RollbackReadStep, RollbackOpenStep, RollbackWriteStep, RollbackSyncStep
         DEF Rollback
    <2> QED
      BY <1>2, <2>1, <2>2, DownloadStep, NewStagingStep, IngestGenerationStep, CleanupStep,
         RemoveZipStep, ReleaseStep DEF ProcStep
  <1>3. ASSUME NEW r \in Readers, ReaderStep(r) PROVE IInv'
    BY <1>3, ReadPointerStep, OpenGenerationStep, CloseStoreStep DEF ReaderStep
  <1> QED
    BY <1>1, <1>2, <1>3, AcquireStep, CrashStep, PowerLossStep, LoseDataDirectoryStep DEF Next

\* Type correctness, and the facts about candidates and published generations
\* that the safety properties follow from.
THEOREM Inductive == Spec => []IInv
  BY InitIInv, NextIInv, PTL DEF Spec

\* Every variable has its type in every reachable state.
THEOREM TypeCorrect == Spec => []TypeOK
  <1>1. IInv => TypeOK
    BY DEF IInv
  <1> QED BY <1>1, Inductive, PTL

\* current.json always names, and always retains, generations that survive
\* any crash, and any power loss that the data directory survives.
THEOREM PointerAlwaysSolid == Spec => []PointerIsSolid
  <1>1. IInv => PointerIsSolid
    BY DEF IInv, PublishedInv, PointerIsSolid, Names
  <1> QED BY <1>1, Inductive, PTL

\* A reader that resolved the pointer can open what it resolved.
THEOREM ReadersNeverMiss == Spec => []ReaderNeverMisses
  <1>1. IInv => ReaderNeverMisses
    BY DEF IInv, ReaderInv, ReaderNeverMisses
  <1> QED BY <1>1, Inductive, PTL

\* What Publish returns agrees with what current.json says.
THEOREM ReportsMatchPointer == Spec => []ReportMatchesPointer
  <1>1. IInv => ReportMatchesPointer
    <2> SUFFICES ASSUME IInv, NEW p \in Procs, pc[p] \in {"cleanup", "zip"}
                 PROVE  /\ result[p] = "ok" => manifest.current = cand[p]
                        /\ result[p] = "error" /\ cand[p] # NoGen
                             => manifest.current # cand[p]
      BY DEF ReportMatchesPointer
    <2>1. ProcInv(p) /\ CandidateInv(p)
      BY DEF IInv, ProcInv
    <2>2. manifest.current # NoGen => manifest.current \in published
      BY DEF IInv, PublishedInv, Names
    <2> QED BY <2>1, <2>2 DEF CandidateInv
  <1> QED BY <1>1, Inductive, PTL

\* An update ingests the zip it downloaded.
THEOREM AlwaysIngestsOwnDownload == Spec => []IngestsOwnDownload
  <1>1. IInv => IngestsOwnDownload
    BY DEF IInv, ProcInv, IngestsOwnDownload
  <1> QED BY <1>1, Inductive, PTL

\* Failed updates clean up after themselves.
THEOREM FailedUpdatesLeaveNothing == Spec => []FailedUpdateLeavesNothing
  <1>1. IInv => FailedUpdateLeavesNothing
    BY DEF IInv, Accounted, Working, FailedUpdateLeavesNothing
  <1> QED BY <1>1, Inductive, PTL

-----------------------------------------------------------------------------

(***************************************************************************)
(* GtfsGenerations implements DatasetPointer: the two renames of           *)
(* current.json are Publish and Swap, a successful sync of the data        *)
(* directory is Harden, a power loss is Recover, or Lose when it takes the *)
(* data directory, and every other step stutters.                          *)
(***************************************************************************)

LEMMA WritePublishes ==
  ASSUME IInv, NEW p \in Procs, WriteManifest(p)
  PROVE  (\E g \in Gens : Pointer!Publish(g)) \/ UNCHANGED dataVars
  <1>1. CASE UNCHANGED dataVars
    BY <1>1
  <1>2. CASE ReplaceManifest([current |-> cand[p], previous |-> seen[p].current])
    <2>1. cand[p] \in Gens /\ cand[p] \notin published /\ seen[p] = manifest
      BY DEF IInv, ProcInv, CandidateInv, Working, WriteManifest
    <2>2. Pointer!Publish(cand[p])
      BY <1>2, <2>1 DEF ReplaceManifest, Pointer!Publish
    <2> QED BY <2>1, <2>2
  <1> QED BY <1>1, <1>2 DEF WriteManifest

LEMMA RollbackSwaps ==
  ASSUME IInv, NEW p \in Procs, RollbackWrite(p)
  PROVE  Pointer!Swap \/ UNCHANGED dataVars
  <1>1. CASE UNCHANGED dataVars
    BY <1>1
  <1>2. CASE ReplaceManifest([current |-> seen[p].previous, previous |-> seen[p].current])
    <2>1. seen[p] = manifest /\ manifest.previous # NoGen
      BY DEF IInv, ProcInv, RollbackWrite
    <2>2. manifest.previous \in published
      BY <2>1 DEF IInv, PublishedInv, Names
    <2> QED BY <1>2, <2>1, <2>2 DEF ReplaceManifest, Pointer!Swap
  <1> QED BY <1>1, <1>2 DEF RollbackWrite

LEMMA StepImplementsPointer ==
  IInv /\ [Next]_vars => [Pointer!Next]_<<manifest, recoverable, published, rooted>>
  <1> SUFFICES ASSUME IInv, [Next]_vars, ~UNCHANGED dataVars PROVE Pointer!Next
    BY DEF dataVars
  <1>1. ~UNCHANGED vars
    BY DEF vars
  <1>2. ASSUME NEW p \in Procs, ProcStep(p) PROVE Pointer!Next
    <2>1. WriteManifest(p) \/ RollbackWrite(p) \/ SyncManifest(p) \/ RollbackSync(p)
      BY <1>2 DEF ProcStep, Publish, Rollback, Download, NewStaging, IngestGeneration,
         PrepareForPublication, SyncFile, Install, Seal, SyncGenerations, ReadOld, ReadBack,
         Discard, DiscardTo, Cleanup, RemoveZip, RollbackRead, RollbackOpen, Release
    <2>2. CASE WriteManifest(p)
      BY <2>2, WritePublishes DEF Pointer!Next
    <2>3. CASE RollbackWrite(p)
      BY <2>3, RollbackSwaps DEF Pointer!Next
    <2>4. CASE SyncManifest(p) \/ RollbackSync(p)
      BY <2>4 DEF SyncManifest, RollbackSync, dataVars, Pointer!Next, Pointer!Harden
    <2> QED BY <2>1, <2>2, <2>3, <2>4
  <1>3. ASSUME NEW r \in Readers, ReaderStep(r) PROVE FALSE
    BY <1>3 DEF ReaderStep, ReadPointer, OpenGeneration, CloseStore
  <1>4. ASSUME NEW p \in Procs,
               AcquireUpdate(p, "download") \/ AcquireUpdate(p, "rbRead") \/ Crash(p)
        PROVE  FALSE
    BY <1>4 DEF AcquireUpdate, Crash
  <1>5. CASE PowerLoss
    BY <1>5 DEF PowerLoss, Pointer!Next, Pointer!Recover
  <1>6. CASE LoseDataDirectory
    BY <1>6 DEF LoseDataDirectory, NoManifest, Pointer!NoPointer, Pointer!Next, Pointer!Lose
  <1> QED BY <1>1, <1>2, <1>3, <1>4, <1>5, <1>6 DEF Next

\* The whole life of current.json, with its crashes and power losses, is a
\* behaviour of DatasetPointer.
THEOREM ImplementsPointer == Spec => PointerSpec
  <1>1. Init => Pointer!Init
    BY DEF Init, Pointer!Init, NoManifest, Pointer!NoPointer
  <1> QED
    BY <1>1, Inductive, StepImplementsPointer, PTL DEF Spec, PointerSpec, Pointer!Spec
=============================================================================
