------------------------------ MODULE MCSound ------------------------------
(***************************************************************************)
(* Values of the constants of Sound for TLC.                               *)
(***************************************************************************)
EXTENDS Sound

Available  == {"null", "soundcard", "alsa"}
AllDefaults == [speed |-> 24, tone |-> 800, volume |-> 70, weighting |-> 0,
                system |-> "soundcard"]
\* Around the limits of the ranges: speed 4 to 60, tone 0 to 4000, volume 0
\* to 100, weighting -50 to 50.
Values   == {-51, -50, 0, 3, 4, 50, 60, 61, 100, 101, 800, 4000, 4001}
AnyRuns  == {-2, -1, 0, 1, 30}
=============================================================================
