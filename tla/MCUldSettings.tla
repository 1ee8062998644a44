----------------------------- MODULE MCUldSettings -----------------------------
(***************************************************************************)
(* UldSettings with the boundary values of each setting.                    *)
(***************************************************************************)
EXTENDS UldSettings

Boundary == [resolution |-> {5, 16, 64}, frequency |-> {60}, time |-> {1, 2, 1000, 1001},
             sharpener |-> {0, 5, 99, 100}, order |-> {1, 3}, margin |-> {10000, 10001},
             mode |-> {1, 2, 3}]

\* Two at the limits, two beyond.
EdgeTargets == {<<1, 16, 600>>, <<99, 1, 3000>>, <<99, 17, 3000>>, <<1, 16, 599>>}
=============================================================================
