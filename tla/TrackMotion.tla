---------------------------- MODULE TrackMotion ----------------------------
(***************************************************************************)
(* The numbers of the safety controller's output: a target within the      *)
(* speed of the tracks is approached on both axes at once, each at its own *)
(* rate.  A turn is given as the speed it adds to one track and takes from *)
(* the other; speeds are whole units and the rates are those of one tick.  *)
(***************************************************************************)
EXTENDS Integers

Magnitude(speed) == IF speed < 0 THEN -speed ELSE speed

Clamp(speed, lower, upper) ==
    IF speed < lower THEN lower ELSE IF speed > upper THEN upper ELSE speed

Slew(current, target, rise, fall) ==
    LET rate == IF Magnitude(target) > Magnitude(current) THEN rise ELSE fall
    IN  current + Clamp(target - current, -rate, rate)

(* Neither track is faster than the limit: what project_track_speeds makes *)
(* of every target.                                                        *)
WithinTracks(linear, turn, limit) ==
    Magnitude(linear - turn) <= limit /\ Magnitude(linear + turn) <= limit

(* The rates of one tick, as the robot is configured: one axis gives way   *)
(* at least as fast as the other one rises.                                *)
CONSTANTS LinearRise, LinearFall, TurnRise, TurnFall

ASSUME RatesAssumption ==
    /\ {LinearRise, LinearFall, TurnRise, TurnFall} \subseteq Nat
    /\ LinearFall >= TurnRise
    /\ TurnFall >= LinearRise
=============================================================================
