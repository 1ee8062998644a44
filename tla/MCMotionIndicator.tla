-------------------------- MODULE MCMotionIndicator --------------------------
(***************************************************************************)
(* MotionIndicator with windows on both sides of every limit.               *)
(***************************************************************************)
EXTENDS MotionIndicator

EdgeWindows == {<<400, 400>>, <<400, 1900>>, <<2500, 4000>>, <<399, 1000>>,
                <<400, 1901>>, <<2600, 4001>>, <<1000, 900>>, <<4000, 100>>}
=============================================================================
