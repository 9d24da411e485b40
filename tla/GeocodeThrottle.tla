-------------------------- MODULE GeocodeThrottle --------------------------
(***************************************************************************)
(* The rate limit of the public geocoder (Geocoder.throttle,               *)
(* internal/geocode/geocode.go): callers of all local processes take turns *)
(* with a lock file, wait until one interval after the instant recorded in *)
(* a timestamp file, record their own and send their request.  A lock file *)
(* older than limiterStaleAfter is taken for that of a dead process.       *)
(*                                                                         *)
(* The files have no owner: whoever removes rate-limit.lock removes the    *)
(* one that is there.  Instants are kept as ages, capped where they stop   *)
(* making a difference.  Callers of one Geocoder also share a mutex, which *)
(* only takes interleavings away.                                          *)
(***************************************************************************)
EXTENDS Integers

CONSTANTS Callers,   \* callers of throttle, of different processes
          NoOne,     \* no lock file
          Interval,  \* minInterval, in ticks
          Stale,     \* limiterStaleAfter, in ticks
          MaxCrashes \* bound: callers killed in a behaviour

ASSUME NoOneAssumption == NoOne \notin Callers
ASSUME TicksAssumption == Interval \in Nat \ {0} /\ Stale \in Nat
ASSUME CrashesAssumption == MaxCrashes \in Nat

VARIABLES
  lock,    \* who created rate-limit.lock
  lockAge, \* its age
  stamp,   \* the age of the instant in rate-limit.timestamp
  pc,      \* where each caller is
  due,     \* how long each caller has still to wait
  granted, \* callers that may send their request
  usurped, \* was the lock of a caller that is still at work removed? (history)
  crashes  \* callers killed so far

fileVars == <<lock, lockAge, stamp>>
vars == <<fileVars, pc, due, granted, usurped, crashes>>

\* Between creating the lock file and removing it.
AtWork == {"read", "wait", "unread", "unlock"}

Init == /\ lock = NoOne /\ lockAge = 0
        /\ stamp = Interval
        /\ pc = [c \in Callers |-> "idle"]
        /\ due = [c \in Callers |-> 0]
        /\ granted = {}
        /\ usurped = FALSE
        /\ crashes = 0

Goto(c, step) == pc' = [pc EXCEPT ![c] = step]

Start(c) == /\ pc[c] = "idle"
            /\ Goto(c, "try")
            /\ granted' = granted \ {c}
            /\ UNCHANGED <<fileVars, due, usurped, crashes>>

\* Mutated form: a file that is there is opened.
CreateOrOpenLock(c) == /\ pc[c] = "try"
                       /\ lock' = c /\ lockAge' = 0
                       /\ Goto(c, "read")
                       /\ UNCHANGED <<stamp, due, granted, usurped, crashes>>

\* The file is created only if it is not there.
CreateLock(c) == /\ pc[c] = "try" /\ lock = NoOne
                 /\ lock' = c /\ lockAge' = 0
                 /\ Goto(c, "read")
                 /\ UNCHANGED <<stamp, due, granted, usurped, crashes>>

\* Mutated form: a lock is stale an instant after it stops ageing.
FindStaleLate(c) == /\ pc[c] = "try" /\ lock # NoOne
                    /\ lockAge > Stale + 1
                    /\ Goto(c, "break")
                    /\ UNCHANGED <<fileVars, due, granted, usurped, crashes>>

\* The lock is there, and its modification time is too long ago.
FindStale(c) == /\ pc[c] = "try" /\ lock # NoOne
                /\ lockAge > Stale
                /\ Goto(c, "break")
                /\ UNCHANGED <<fileVars, due, granted, usurped, crashes>>

\* Removing the lock file by its name, whoever has created it since.
RemoveLock(c) ==
  /\ lock' = NoOne /\ lockAge' = 0
  /\ usurped' = (usurped \/ (lock \in Callers \ {c} /\ pc[lock] \in AtWork))

BreakLock(c) == /\ pc[c] = "break"
                /\ RemoveLock(c)
                /\ Goto(c, "try")
                /\ UNCHANGED <<stamp, due, granted, crashes>>

\* A timestamp that is missing asks for no wait, and one that is there is
\* replaced atomically, so it can be parsed.  One that is there and cannot be
\* read asks for no wait either.
ReadStamp(c) == /\ pc[c] = "read"
                /\ \/ /\ due' = [due EXCEPT ![c] = Interval - stamp]
                      /\ Goto(c, "wait")
                   \/ Goto(c, "unread") /\ UNCHANGED due
                /\ UNCHANGED <<fileVars, granted, usurped, crashes>>

\* Mutated form: the wait is forgotten.
RecordAtOnce(c) == /\ pc[c] \in {"wait", "unread"}
                   /\ Goto(c, "unlock")
                   /\ stamp' = 0 /\ granted' = granted \cup {c}
                   /\ UNCHANGED <<lock, lockAge, due, usurped, crashes>>

\* The wait is over, or there was none: the instant is recorded, or that fails,
\* before or after the file has been replaced.
Record(c) == /\ pc[c] \in {"wait", "unread"} /\ due[c] = 0
             /\ Goto(c, "unlock")
             /\ \/ stamp' = 0 /\ granted' = granted \cup {c}
                \/ stamp' \in {stamp, 0} /\ UNCHANGED granted
             /\ UNCHANGED <<lock, lockAge, due, usurped, crashes>>

\* The deferred os.Remove.
Unlock(c) == /\ pc[c] = "unlock"
             /\ RemoveLock(c)
             /\ Goto(c, "idle")
             /\ UNCHANGED <<stamp, due, granted, crashes>>

\* The context ends while a caller polls, or waits for its turn.
Cancelled(c) == /\ \/ pc[c] = "try" /\ Goto(c, "idle")
                   \/ pc[c] = "wait" /\ due[c] > 0 /\ Goto(c, "unlock")
                /\ due' = [due EXCEPT ![c] = 0]
                /\ UNCHANGED <<fileVars, granted, usurped, crashes>>

\* A killed process leaves its lock file behind; another may start.
Crash(c) == /\ pc[c] # "idle" /\ crashes < MaxCrashes
            /\ crashes' = crashes + 1
            /\ Goto(c, "idle")
            /\ due' = [due EXCEPT ![c] = 0]
            /\ granted' = granted \ {c}
            /\ UNCHANGED <<fileVars, usurped>>

Tick == /\ lockAge' = IF lock # NoOne /\ lockAge <= Stale THEN lockAge + 1 ELSE lockAge
        /\ stamp' = IF stamp < Interval THEN stamp + 1 ELSE stamp
        /\ due' = [c \in Callers |-> IF due[c] > 0 THEN due[c] - 1 ELSE 0]
        /\ UNCHANGED <<lock, pc, granted, usurped, crashes>>

Throttle(c) == \/ CreateLock(c) \/ FindStale(c) \/ BreakLock(c)
               \/ ReadStamp(c) \/ Record(c) \/ Unlock(c)

Next == \/ \E c \in Callers : Start(c) \/ Throttle(c) \/ Cancelled(c) \/ Crash(c)
        \/ Tick

Spec == Init /\ [][Next]_vars

\* Time passes, and a caller in throttle keeps going: its waits are timers.
FairSpec == Spec /\ WF_vars(Tick) /\ \A c \in Callers : WF_vars(Throttle(c))

(***************************************************************************)
(* Properties.                                                             *)
(***************************************************************************)

\* Every variable has its type; and until a working caller's lock has been
\* removed, the lock file is that of the one caller at work.
ThrottleTypeOK ==
  /\ lock \in Callers \cup {NoOne}
  /\ lockAge \in 0 .. Stale + 1
  /\ stamp \in 0 .. Interval
  /\ pc \in [Callers -> {"idle", "try", "break"} \cup AtWork]
  /\ due \in [Callers -> 0 .. Interval]
  /\ granted \subseteq Callers
  /\ usurped \in BOOLEAN
  /\ crashes \in 0 .. MaxCrashes
  /\ ~usurped => \A c \in Callers : pc[c] \in AtWork => lock = c

\* A request is granted in this step.
GrantTo(c) == c \notin granted /\ c \in granted'

\* No caller that could read the timestamp is granted a request within an
\* interval of the last, whoever made that one, with or without reading the
\* timestamp, and however many were killed, unless somebody has taken the lock
\* of a caller still at work for that of a dead one.
PacedByTheTimestamp ==
  [][\A c \in Callers :
       GrantTo(c) /\ ~usurped /\ pc[c] # "unread" => stamp = Interval]_vars

\* The lock of a killed process does not keep anybody polling for ever.
DeadLockIsBroken == \A c \in Callers : []<>(pc[c] # "try" \/ lock = NoOne)
=============================================================================
