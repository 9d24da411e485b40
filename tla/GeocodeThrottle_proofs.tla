----------------------- MODULE GeocodeThrottle_proofs -----------------------
(***************************************************************************)
(* Proofs about GeocodeThrottle for any number of callers and crashes and  *)
(* any interval and staleness.  What carries the pacing is that, as long   *)
(* as no working caller has lost its lock, nobody writes the timestamp     *)
(* between a caller's reading it and its turn: the wait a caller still has *)
(* to do covers what the timestamp lacks to a full interval.               *)
(***************************************************************************)
EXTENDS GeocodeThrottle, TLAPS

USE NoOneAssumption, TicksAssumption, CrashesAssumption DEF AtWork

\* A waiting caller waits long enough.
WaitsCover == ~usurped => \A c \in Callers : pc[c] = "wait" => Interval - stamp <= due[c]

PaceInv == ThrottleTypeOK /\ WaitsCover

LEMMA InitPace == Init => PaceInv
  <1> SUFFICES ASSUME Init PROVE PaceInv
    OBVIOUS
  <1>1. \A c \in Callers : pc[c] = "idle" /\ due[c] = 0
    BY DEF Init
  <1>2. ThrottleTypeOK
    <2>1. pc \in [Callers -> {"idle", "try", "break"} \cup AtWork]
      BY DEF Init
    <2>2. due \in [Callers -> 0 .. Interval]
      BY DEF Init
    <2>3. lockAge \in 0 .. Stale + 1 /\ stamp \in 0 .. Interval /\ crashes \in 0 .. MaxCrashes
      BY DEF Init
    <2>4. lock \in Callers \cup {NoOne} /\ granted \subseteq Callers /\ usurped \in BOOLEAN
      BY DEF Init
    <2> QED BY <1>1, <2>1, <2>2, <2>3, <2>4 DEF ThrottleTypeOK
  <1>3. WaitsCover
    BY <1>1 DEF WaitsCover
  <1> QED BY <1>2, <1>3 DEF PaceInv

LEMMA StartStep ==
  ASSUME PaceInv, NEW c \in Callers, Start(c) PROVE PaceInv'
  BY DEF PaceInv, ThrottleTypeOK, WaitsCover, Start, Goto, fileVars

LEMMA CreateLockStep ==
  ASSUME PaceInv, NEW c \in Callers, CreateLock(c) PROVE PaceInv'
  BY DEF PaceInv, ThrottleTypeOK, WaitsCover, CreateLock, Goto

LEMMA FindStaleStep ==
  ASSUME PaceInv, NEW c \in Callers, FindStale(c) PROVE PaceInv'
  BY DEF PaceInv, ThrottleTypeOK, WaitsCover, FindStale, Goto, fileVars

\* Whoever removes a lock either finds nobody at work or usurps.
LEMMA BreakLockStep ==
  ASSUME PaceInv, NEW c \in Callers, BreakLock(c) PROVE PaceInv'
  <1>1. usurped' \in BOOLEAN
    BY DEF PaceInv, ThrottleTypeOK, BreakLock, RemoveLock
  <1>2. ~usurped' => \A d \in Callers : pc'[d] \notin AtWork
    BY DEF PaceInv, ThrottleTypeOK, BreakLock, RemoveLock, Goto
  <1>3. ThrottleTypeOK'
    BY <1>1, <1>2 DEF PaceInv, ThrottleTypeOK, BreakLock, RemoveLock, Goto
  <1>4. WaitsCover'
    BY <1>2 DEF WaitsCover
  <1> QED BY <1>3, <1>4 DEF PaceInv

\* The wait is computed from the timestamp itself; who cannot read it has none.
LEMMA ReadStampStep ==
  ASSUME PaceInv, NEW c \in Callers, ReadStamp(c) PROVE PaceInv'
  <1>1. Interval - stamp \in 0 .. Interval
    BY DEF PaceInv, ThrottleTypeOK
  <1> QED BY <1>1 DEF PaceInv, ThrottleTypeOK, WaitsCover, ReadStamp, Goto, fileVars

\* The caller that writes the timestamp is the only one at work.
LEMMA RecordStep ==
  ASSUME PaceInv, NEW c \in Callers, Record(c) PROVE PaceInv'
  <1>1. ThrottleTypeOK'
    BY DEF PaceInv, ThrottleTypeOK, Record, Goto
  <1>2. ~usurped => \A d \in Callers : pc'[d] # "wait"
    BY DEF PaceInv, ThrottleTypeOK, Record, Goto
  <1>3. WaitsCover'
    BY <1>2 DEF WaitsCover, Record
  <1> QED BY <1>1, <1>3 DEF PaceInv

LEMMA UnlockStep ==
  ASSUME PaceInv, NEW c \in Callers, Unlock(c) PROVE PaceInv'
  <1>1. usurped' \in BOOLEAN
    BY DEF PaceInv, ThrottleTypeOK, Unlock, RemoveLock
  <1>2. ~usurped' => \A d \in Callers : pc'[d] \notin AtWork
    BY DEF PaceInv, ThrottleTypeOK, Unlock, RemoveLock, Goto
  <1>3. ThrottleTypeOK'
    BY <1>1, <1>2 DEF PaceInv, ThrottleTypeOK, Unlock, RemoveLock, Goto
  <1>4. WaitsCover'
    BY <1>2 DEF WaitsCover
  <1> QED BY <1>3, <1>4 DEF PaceInv

LEMMA CancelledStep ==
  ASSUME PaceInv, NEW c \in Callers, Cancelled(c) PROVE PaceInv'
  BY DEF PaceInv, ThrottleTypeOK, WaitsCover, Cancelled, Goto, fileVars

LEMMA CrashStep ==
  ASSUME PaceInv, NEW c \in Callers, Crash(c) PROVE PaceInv'
  BY DEF PaceInv, ThrottleTypeOK, WaitsCover, Crash, Goto, fileVars

\* A tick shortens a wait by no more than it ages the timestamp.
LEMMA TickStep ==
  ASSUME PaceInv, Tick PROVE PaceInv'
  <1>1. ThrottleTypeOK'
    BY DEF PaceInv, ThrottleTypeOK, Tick
  <1>2. WaitsCover'
    BY DEF PaceInv, ThrottleTypeOK, WaitsCover, Tick
  <1> QED BY <1>1, <1>2 DEF PaceInv

LEMMA NextPace == PaceInv /\ [Next]_vars => PaceInv'
  <1> SUFFICES ASSUME PaceInv, [Next]_vars PROVE PaceInv'
    OBVIOUS
  <1>1. CASE UNCHANGED vars
    BY <1>1 DEF vars, fileVars, PaceInv, ThrottleTypeOK, WaitsCover
  <1>2. ASSUME NEW c \in Callers, Throttle(c) PROVE PaceInv'
    BY <1>2, CreateLockStep, FindStaleStep, BreakLockStep, ReadStampStep, RecordStep, UnlockStep
       DEF Throttle
  <1> QED
    BY <1>1, <1>2, StartStep, CancelledStep, CrashStep, TickStep DEF Next

\* Who waits, waits long enough, as long as nobody broke the lock of a caller at
\* work (throttle).
THEOREM PaceInductive == Spec => []PaceInv
  BY InitPace, NextPace, PTL DEF Spec

\* Every variable has its type, and until a working caller has lost its lock
\* the lock file belongs to the one caller at work.
THEOREM ThrottleTypeCorrect == Spec => []ThrottleTypeOK
  <1>1. PaceInv => ThrottleTypeOK
    BY DEF PaceInv
  <1> QED BY <1>1, PaceInductive, PTL

\* While no working caller has lost its lock, a caller that could read the
\* timestamp is granted its request at least an interval after the last one,
\* whatever was killed and whoever broke the locks of the dead (throttle).
THEOREM GrantsArePaced == Spec => PacedByTheTimestamp
  <1>1. ASSUME PaceInv, NEW c \in Callers, [Next]_vars, GrantTo(c), ~usurped,
               pc[c] # "unread"
        PROVE  stamp = Interval
    <2>1. Record(c)
      BY <1>1 DEF GrantTo, Next, Throttle, Start, CreateLock, FindStale, BreakLock, ReadStamp,
         Record, Unlock, Cancelled, Crash, Tick, Goto, vars, PaceInv, ThrottleTypeOK
    <2> QED BY <1>1, <2>1 DEF PaceInv, ThrottleTypeOK, WaitsCover, Record
  <1>2. PaceInv /\ [Next]_vars
          => [\A c \in Callers :
                GrantTo(c) /\ ~usurped /\ pc[c] # "unread" => stamp = Interval]_vars
    BY <1>1
  <1> QED BY <1>2, PaceInductive, PTL DEF Spec, PacedByTheTimestamp
=============================================================================
