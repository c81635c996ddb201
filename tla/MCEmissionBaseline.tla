------------------------- MODULE MCEmissionBaseline -------------------------
(***************************************************************************)
(* Instances of EmissionBaseline for TLC.                                   *)
(***************************************************************************)
EXTENDS EmissionBaseline

\* Half a day to more than a day, ahead and behind.
DaySkews == {-3, -1, 0, 1, 3}

\* The seeder is behind, ahead by half a day, ahead by a day.
SeederSkews == {-1, 0, 1, 2}
=============================================================================
