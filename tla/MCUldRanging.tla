----------------------------- MODULE MCUldRanging -----------------------------
(***************************************************************************)
(* UldRanging on short sessions; the flags are values the driver accepts.   *)
(***************************************************************************)
EXTENDS UldRanging

OneFlags == {<<5, 5, 16>>}
SomeFlags == {<<5, 5, 16>>, <<5, 69, 17>>}
=============================================================================
