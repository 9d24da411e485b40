----------------------------- MODULE MCRealtime -----------------------------
(***************************************************************************)
(* Two things that share nothing.  Either several callers of one           *)
(* invocation cache, as the package allows and its test runs them          *)
(* (cache_test.go:14); the commands ask their cache for one feed after the *)
(* other (next_gtfs.go:63, disruptions_gtfs.go:33, track.go:72).  Or       *)
(* `ptv vehicle`, which has a client of its own.                           *)
(***************************************************************************)
EXTENDS RealtimeFetch, VehicleLookup

VARIABLE command

realtimeVars == <<command, fetchVars, vehicleVars>>

RealtimeInit ==
  /\ command \in {"fetch", "vehicle"}
  /\ FetchInit /\ VehicleInit
  /\ command = "fetch" => hints = [stop |-> "none", route |-> "none", scan |-> FALSE]
  /\ command = "vehicle" => hasKey

RealtimeNext ==
  \/ command = "fetch" /\ FetchNext /\ UNCHANGED <<command, vehicleVars>>
  \/ command = "vehicle" /\ VehicleNext /\ UNCHANGED <<command, fetchVars>>

RealtimeSpec == /\ RealtimeInit /\ [][RealtimeNext]_realtimeVars
                /\ FetchFairness

(***************************************************************************)
(* Messages.  The command runs at instant 10; what is older than 3 is      *)
(* stale, what is later than 11 is of the future.                          *)
(***************************************************************************)
Entity(id, deleted, update, vehicle, alert) ==
  [id |-> id, deleted |-> deleted, update |-> update, vehicle |-> vehicle, alert |-> alert]

Vehicle(label, stamp) == [label |-> label, stamp |-> stamp, state |-> "unknown"]
Labels == {{"a"}, {"b"}, {"a", "b"}}

\* One vehicle, or two that may share a unit, the second perhaps deleted.
MCPositions ==
  {[stamp |-> s, entities |-> <<Entity(1, FALSE, None, Vehicle(l, v), None)>>] :
     s \in {5, 10, None}, l \in Labels, v \in {9, None}}
    \cup {[stamp |-> 10, entities |-> <<Entity(1, FALSE, None, Vehicle({"a"}, v), None),
                                        Entity(2, d, None, Vehicle(m, w), None)>>] :
            m \in {{"a"}, {"a", "b"}}, v \in {5, 9, None}, w \in {5, 10, 13}, d \in BOOLEAN}

MCRouteTypes == <<0, 2, 4>>
MCFeedTypes == <<0, 2>>
MCDescriptors == {{}, {"a"}, {"a", "b"}}
=============================================================================
