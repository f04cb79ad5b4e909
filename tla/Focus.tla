------------------------------- MODULE Focus -------------------------------
(***************************************************************************)
(* One run checks several components that share no state.  A behaviour of  *)
(* such a run is one of one component: `focus` names it, the others stay   *)
(* in an initial state of theirs, and fairness is asked of it alone.       *)
(***************************************************************************)
VARIABLE focus
=============================================================================
