------------------------ MODULE MCDetectionThresholds ------------------------
(***************************************************************************)
(* DetectionThresholds with the checkers of Example_9: signal and distance.  *)
(***************************************************************************)
EXTENDS DetectionThresholds

Example9 == {<<[m |-> "signal", low |-> 150, high |-> 150],
               [m |-> "distance", low |-> 200, high |-> 400]>>}
=============================================================================
