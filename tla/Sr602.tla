-------------------------------- MODULE Sr602 --------------------------------
(***************************************************************************)
(* The motion sensor driver sr602_mod.c. The interrupt of either edge of     *)
(* the line is latched; the handler reads the line and then logs what it     *)
(* read. Edges that arrive before it has run are one interrupt to it, edges   *)
(* that arrive while it runs make it run again.                             *)
(***************************************************************************)
CONSTANTS Edges   \* the edges the interrupt is requested for

VARIABLES bound,    \* probe has succeeded
          level,    \* the logical level of the line: motion or none
          pending,  \* an edge is latched
          val,      \* what the running handler has read, "none" if it does not run
          logged    \* the last line of the log, "none" before the first
vars == <<bound, level, pending, val, logged>>

Levels == {"high", "low"}

TypeOK ==
  /\ bound \in BOOLEAN /\ pending \in BOOLEAN /\ level \in Levels
  /\ val \in Levels \cup {"none"} /\ logged \in Levels \cup {"none"}

Init ==
  /\ level \in Levels
  /\ bound = FALSE /\ pending = FALSE /\ val = "none" /\ logged = "none"
-----------------------------------------------------------------------------
\* probe: the line and its interrupt are requested; whatever fails, devm releases
\* what was taken and the device stays unbound.
Probe ==
  /\ ~bound /\ bound' = TRUE
  /\ UNCHANGED <<level, pending, val, logged>>

\* The sensor moves the line.
Move ==
  /\ level' \in Levels \ {level}
  /\ pending' = (bound /\ (pending \/ level' \in Edges))
  /\ UNCHANGED <<bound, val, logged>>

\* Mutant: the handler goes by what it logged last.
HandlerToggles ==
  /\ bound /\ pending /\ val = "none"
  /\ pending' = FALSE
  /\ val' = IF logged = "high" THEN "low" ELSE "high"
  /\ UNCHANGED <<bound, level, logged>>

\* sr602_irq_handler begins: the latch is cleared before it runs.
Handler ==
  /\ bound /\ pending /\ val = "none"
  /\ pending' = FALSE /\ val' = level
  /\ UNCHANGED <<bound, level, logged>>

Log ==
  /\ val # "none"
  /\ logged' = val /\ val' = "none"
  /\ UNCHANGED <<bound, level, pending>>

\* devm frees the interrupt once the handler has returned.
Remove ==
  /\ bound /\ val = "none"
  /\ bound' = FALSE /\ pending' = FALSE /\ logged' = "none"
  /\ UNCHANGED <<level, val>>

Next == Probe \/ Move \/ Handler \/ Log \/ Remove

Spec == Init /\ [][Next]_vars
-----------------------------------------------------------------------------
(* Properties                                                               *)

\* "Motion detected!" when motion is sensed, "Motion ended." when idle (README.md,
\* TC-005): once no interrupt is waiting or running, the last line of the log is the
\* level of the line, however fast it moved.
LogCurrent == bound /\ ~pending /\ val = "none" /\ logged # "none" => logged = level
=============================================================================
