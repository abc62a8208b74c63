------------------------------- MODULE MCEngine -------------------------------
(* Engine with one symbol that ticks at a fixed interval and BLITZ, each in  *)
(* its sector, and the default intervals of StressConfig.                    *)
EXTENDS Engine

CONSTANTS A, Z

TwoSectors == <<"tech", "stress">>

Sector == [r \in Runners |-> IF r = Blitz THEN "stress" ELSE "tech"]

DefaultStressConfig == [calm   |-> [min |-> 10, max |-> 50],
                        active |-> [min |-> 2, max |-> 10],
                        burst  |-> [min |-> 1, max |-> 2]]

Durations == [calm |-> {2}, active |-> {1}, burst |-> {1}]

\* Below the clamp, at the bound of a phase and above the clamp.
Intensities == {-1, 3, 11}
=============================================================================
