-------------------------- MODULE MCWaypointServer --------------------------
(* Small instances of WaypointServer for TLC; the goals are strings, for   *)
(* they are threads like the callbacks.                                    *)
EXTENDS WaypointServer
MCTwoGoals  == {"g1", "g2"}
MCFourGoals == MCTwoGoals \cup {"g3", "g4"}

(* The second goal repeats the first one's request, or has its own.        *)
MCRepeatOrNot == {[g \in MCTwoGoals |-> "a"], [g \in MCTwoGoals |-> IF g = "g1" THEN "a" ELSE "b"]}
MCBothTwice   == {[g \in MCFourGoals |-> IF g \in MCTwoGoals THEN "a" ELSE "b"]}

MCTwoLoopsThenOne == [g \in MCTwoGoals |-> IF g = "g1" THEN 2 ELSE 1]
MCOneLoop         == [g \in MCFourGoals |-> 1]
=============================================================================
