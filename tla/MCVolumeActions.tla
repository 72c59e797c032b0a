-------------------------- MODULE MCVolumeActions ---------------------------
(***************************************************************************)
(* Two volumes, each attached or not initially, three action requests and  *)
(* two list reloads: enough for two jobs on one volume, a job on each, and *)
(* a reload answered between a job's end and its poll.                     *)
(***************************************************************************)
EXTENDS VolumeActions

CONSTANTS vol1, vol2

MCVols == {vol1, vol2}

=============================================================================
