-------------------------- MODULE MCRotationClock --------------------------
(***************************************************************************)
(* Small instances of RotationClock for TLC.                               *)
(***************************************************************************)
EXTENDS RotationClock

(* No refreshTime; one that asks for no requeue; one that leaves a reserve; *)
(* and one as long as the shorter lifetime.                                 *)
RefreshTimes == {Unset, 0, 2, 4}

=============================================================================
