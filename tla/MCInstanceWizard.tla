-------------------------- MODULE MCInstanceWizard --------------------------
(***************************************************************************)
(* Instantiates the instance wizard for TLC: two data steps and the review *)
(* step, two offered values per step.  Five displayed steps let a step be  *)
(* left and re-entered twice while its earlier provider calls are still    *)
(* outstanding; two launches let the review's Next be clicked again.       *)
(***************************************************************************)
EXTENDS InstanceWizard

CONSTANTS v1, v2, n1, g1

MCValues == {v1, v2}

\* v2 is the customizable disk offering.
MCCustom == {v2}

\* One optional network and one security group in the network step.
MCOptionalNets   == {n1}
MCSecurityGroups == {g1}

=============================================================================
