--------------------------- MODULE MCAddVolumeForm ---------------------------
(***************************************************************************)
(* One customizable and one fixed-size offering, the fixed one listed      *)
(* first, and three openings of the form: enough for a choice made in one  *)
(* opening to be read in the next.                                         *)
(***************************************************************************)
EXTENDS AddVolumeForm

CONSTANTS custom, fixed

MCOfferings  == {custom, fixed}
MCCustomized == {custom}

====
