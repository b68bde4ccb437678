------------------------------ MODULE TrackFilter ------------------------------
(****************************************************************************)
(* The bookkeeping of the tracking filter: when the sensor delivers a       *)
(* measurement, and the two counters (age of the last measurement, updates  *)
(* missed since) that every snapshot publishes.  The estimate, the residual *)
(* and the covariance are real-valued data and are left out: nothing in the *)
(* control flow of the program reads them.                                  *)
(*                                                                          *)
(* Source: common/src/simulation_state.cpp, common/src/simulation_support.cpp *)
(****************************************************************************)
EXTENDS Naturals

TrackState == [active : BOOLEAN, valid : BOOLEAN, age : Nat, missed : Nat]

\* measurement_due: the sensor is sampled every third tick.
MeasurementDue(tick) == tick % 3 = 0

\* Mutant: two of five samples are lost instead of one.
MeasurementAvailableTwoLost(tick) ==
    /\ MeasurementDue(tick)
    /\ (tick \div 3) % 5 \notin {2, 3}

\* measurement_available: every fifth sample, starting with the fourth, is lost.
MeasurementAvailable(tick) ==
    /\ MeasurementDue(tick)
    /\ (tick \div 3) % 5 # 3

ClearedTrack == [active |-> FALSE, valid |-> FALSE, age |-> 0, missed |-> 0]

\* seed_track_state_from_target: the seed counts as a measurement of its own.
SeededTrack == [active |-> TRUE, valid |-> TRUE, age |-> 0, missed |-> 0]

\* update_track_state, called by advance_tick after the tick was incremented.
UpdatedTrack(track, tick) ==
    IF MeasurementAvailable(tick)
    THEN [track EXCEPT !.valid = TRUE, !.age = 0, !.missed = 0]
    ELSE [track EXCEPT !.age = @ + 1,
                       !.missed = IF MeasurementDue(tick) THEN @ + 1 ELSE @]
================================================================================
